--------------------------- MODULE BackSlots_proofs ---------------------------
(***************************************************************************)
(* Proofs about the background download pool, for every set of links and   *)
(* every size of the pool.  Each invariant rests on those before it:       *)
(*                                                                         *)
(*   IInv       the types, the connections and the slot that is held while *)
(*              the type of a link is awaited.  A connection is closed only*)
(*              once because a slot that leaves for the disk has given it  *)
(*              back in an earlier loop of back_clean (Unplugged); a held  *)
(*              slot stays because it is locked and early and its link is  *)
(*              not on the heap (Held, Control); and no thread writes into *)
(*              it because threads have ftp links only (Threads).          *)
(*   EntryInv   a link has at most one entry: an addition is only under way*)
(*              for a link without one, a link is asked for under its final*)
(*              name once it is on the heap, and only the link the engine  *)
(*              waits for is locked.                                       *)
(*   AnswerInv  a good answer that is finalized has gone to the cache.     *)
(*   LimitInv   the transfers under way and those planned are within the   *)
(*              limit, but for the one of the awaited link.                *)
(*   RoomInv    in a pool with more slots than transfers, an addition      *)
(*              finds a slot and the awaited link keeps its entry.         *)
(*                                                                         *)
(* With them every step of the pool is one of Downloads, or stutters.      *)
(***************************************************************************)
EXTENDS BackSlots, Greatest, FiniteSetTheorems, TLAPS

(* A slot that is about a link. *)
InUse(s) == s.st \notin {"free", "alive"}

(* What every slot keeps, whatever happens to it. *)
Sound(s) ==
  /\ InUse(s) => s.link \in Links
  /\ s.st \in {"transfer", "ready"} /\ s.soc # NoSock => s.code # "failed"
  /\ s.st \in {"ftp", "ftpready"} => s.soc = NoSock
  /\ s.st = "ftp" => s.link \in FtpLinks /\ s.host = Address(s.link)

(* Connections and slots match, and what is in a slot fits together. *)
SlotsSound ==
  /\ slot \in [Slots -> SlotType]
  /\ open \subseteq Socks
  /\ SocketOwnership
  /\ \A q \in Slots : Sound(slot[q])

(* What was swapped out is finished and has no connection. *)
StoredSound ==
  \A s \in stored : s.st = "ready" /\ s.link \in Links /\ s.soc = NoSock

(* Where the engine is, and what the call in progress is about. *)
Control ==
  /\ eng.mode \in {"begin", "fetch", "type", "retype", "hold", "record"} =>
       eng.link \in Links
  /\ eng.mode \in {"type", "retype", "hold", "record"} =>
       eng.link \in UntypedLinks /\ lk[eng.link] = "new"
  /\ eng.mode = "hold" => eng.b \in Slots
  /\ eng.mode \in {"end", "panic"} => call.at = "idle" /\ budget = 0
  /\ call.at # "idle" /\ call.op \in {"add", "addif"} => call.link \in Links
  /\ call.at = "fill" => call.op = "add"
  /\ call.at = "exist" => call.op = "addif"
  /\ \A l \in Links : lk[l] = "new" => l \in UntypedLinks

(* The loops of back_clean have unplugged the finished slots behind them.  *)
Unplugged ==
  \A q \in Slots :
    /\ \/ call.at = "park" /\ q < call.i
       \/ call.at \in {"trim", "store"}
    /\ slot[q].st = "ready"
    => slot[q].soc = NoSock

(* The slot in hand is that of its link, locked and early. *)
Held ==
  eng.mode = "hold" =>
    /\ slot[eng.b].link = eng.link
    /\ InUse(slot[eng.b])
    /\ slot[eng.b].locked
    /\ slot[eng.b].early

(* Until the mirror ends, a thread writes into the slot of its link. *)
Threads ==
  eng.mode # "end" => \A t \in ftp : slot[t.b].link = t.link /\ slot[t.b].st = "ftp"

(* The inductive invariant of the ownership. *)
IInv ==
  /\ TypeOK
  /\ SlotsSound
  /\ StoredSound
  /\ Control
  /\ Unplugged
  /\ Held
  /\ Threads

(* Only slot p is affected, and slots that nobody uses. *)
Frame(p) ==
  \A q \in Slots \ {p} :
    slot'[q] = slot[q] \/ (~InUse(slot[q]) /\ ~InUse(slot'[q]))

-----------------------------------------------------------------------------
(* Values *)

(* Sizes and marks. *)
LEMMA Values ==
  /\ NoSock \notin Socks
  /\ NoSlot \notin Slots
  /\ 0 \in Slots
  /\ Slots \subseteq Nat
  /\ BackMax \in Nat
BY PoolAssumption DEF NoSock, Socks, NoSlot, Slots

(* A free slot. *)
LEMMA FreeSlotType ==
  FreeSlot \in SlotType /\ FreeSlot.soc = NoSock /\ FreeSlot.st = "free"
BY DEF FreeSlot, SlotType, Statuses, Busy, OnWire, Kinds, Codes

(* An idle connection. *)
LEMMA AliveSlotType ==
  ASSUME NEW h \in Addresses \cup {NoHost}, NEW k \in Socks \cup {NoSock}
  PROVE  /\ AliveSlot(h, k) \in SlotType
         /\ AliveSlot(h, k).soc = k
         /\ AliveSlot(h, k).st = "alive"
BY FreeSlotType DEF AliveSlot, SlotType, Statuses, FreeSlot, Kinds, Codes

(* A new entry. *)
LEMMA NewSlotType ==
  ASSUME NEW l \in Links, NEW kd \in Kinds
  PROVE  /\ NewSlot(l, kd) \in SlotType
         /\ NewSlot(l, kd).soc = NoSock
         /\ NewSlot(l, kd).link = l
         /\ NewSlot(l, kd).st = "ready"
         /\ NewSlot(l, kd).host = Address(l)
BY FreeSlotType DEF NewSlot, SlotType, Statuses, FreeSlot, Codes, Addresses

(* A slot that fails loses its connection and keeps its link. *)
LEMMA FailedType ==
  ASSUME NEW s \in SlotType, NEW c \in Codes
  PROVE  /\ Failed(s, c) \in SlotType
         /\ Failed(s, c).soc = NoSock
         /\ Failed(s, c).st = "ready"
         /\ Failed(s, c).link = s.link
         /\ Failed(s, c).locked = s.locked
         /\ Failed(s, c).early = s.early
BY DEF Failed, SlotType, Statuses

(* A slot that hangs up loses its connection only. *)
LEMMA HangupType ==
  ASSUME NEW s \in SlotType
  PROVE  /\ Hangup(s) \in SlotType
         /\ Hangup(s).soc = NoSock
         /\ Hangup(s).st = s.st
         /\ Hangup(s).link = s.link
         /\ Hangup(s).locked = s.locked
         /\ Hangup(s).early = s.early
         /\ Hangup(s).host = s.host
BY DEF Hangup, SlotType

(* back_search never takes a slot in use. *)
LEMMA SearchFinds ==
  ASSUME NEW q \in Search
  PROVE  q \in Slots /\ ~InUse(slot[q])
BY DEF Search, Lowest, Free, Alive, InUse

(* The loops of back_clean count the slots. *)
LEMMA TurnType ==
  ASSUME call \in CallType, NEW at \in Places, Turn(at)
  PROVE  /\ call' \in CallType
         /\ call'.op = call.op
         /\ call'.link = call.link
         /\ \/ call'.at = call.at /\ call'.i = call.i + 1
            \/ call'.at = at /\ call'.i = 0 /\ call.i = BackMax - 1
<1>1. CASE call.i + 1 < BackMax
  <2>1. call.i + 1 \in Slots
    BY <1>1, Values DEF CallType, Slots
  <2>2. call' = [call EXCEPT !.i = call.i + 1]
    BY <1>1 DEF Turn
  <2> QED BY <2>1, <2>2 DEF CallType
<1>2. CASE ~(call.i + 1 < BackMax)
  <2>1. call' = [call EXCEPT !.at = at, !.i = 0]
    BY <1>2 DEF Turn
  <2>2. call.i = BackMax - 1
    BY <1>2, Values DEF CallType, Slots
  <2> QED BY <2>1, <2>2, Values DEF CallType
<1> QED BY <1>1, <1>2

-----------------------------------------------------------------------------
(* Changes of one slot *)

(* A slot that loses its connection, which is closed. *)
LEMMA Unplugs ==
  ASSUME SlotsSound, NEW q \in Slots, NEW s \in SlotType, Sound(s), s.soc = NoSock,
         Put(q, s)
  PROVE  SlotsSound' /\ Frame(q) /\ slot'[q] = s
<1>1. slot' \in [Slots -> SlotType] /\ slot'[q] = s
  BY DEF Put, SlotsSound
<1>2. \A r \in Slots \ {q} : slot'[r] = slot[r]
  BY DEF Put, SlotsSound
<1>3. open' \subseteq Socks
  BY DEF Put, SlotsSound
<1>4. \A r \in Slots : Sound(slot'[r])
  BY <1>1, <1>2 DEF SlotsSound
<1>5. SocketOwnership'
  BY <1>1, <1>2 DEF SlotsSound, SocketOwnership, Put
<1> QED BY <1>1, <1>2, <1>3, <1>4, <1>5 DEF SlotsSound, Frame, Sound, InUse

(* A slot that keeps its connection. *)
LEMMA Keeps ==
  ASSUME SlotsSound, NEW q \in Slots, NEW s \in SlotType, Sound(s),
         s.soc = slot[q].soc, slot' = [slot EXCEPT ![q] = s], open' = open
  PROVE  SlotsSound' /\ Frame(q) /\ slot'[q] = s
<1>1. slot' \in [Slots -> SlotType] /\ slot'[q] = s
  BY DEF SlotsSound
<1>2. \A r \in Slots \ {q} : slot'[r] = slot[r]
  BY DEF SlotsSound
<1>3. \A r \in Slots : slot'[r].soc = slot[r].soc /\ Sound(slot'[r])
  BY <1>1, <1>2 DEF SlotsSound
<1>4. SocketOwnership'
  BY <1>3 DEF SlotsSound, SocketOwnership
<1> QED BY <1>1, <1>2, <1>3, <1>4 DEF SlotsSound, Frame, Sound, InUse

(* A connection that goes from slot p to slot q, whose own is closed.      *)
LEMMA Moves ==
  ASSUME SlotsSound, NEW p \in Slots, NEW q \in Slots, p # q,
         slot' \in [Slots -> SlotType],
         Sound(slot'[p]), slot'[p].soc = NoSock,
         Sound(slot'[q]), slot'[q].soc = slot[p].soc,
         \A r \in Slots \ {p, q} : slot'[r] = slot[r],
         open' = open \ {slot[q].soc}
  PROVE  SlotsSound'
<1>1. \A r \in Slots : Sound(slot'[r])
  BY DEF SlotsSound
<1>2. SocketOwnership'
  BY DEF SlotsSound, SocketOwnership
<1>3. open' \subseteq Socks
  BY DEF SlotsSound
<1> QED BY <1>1, <1>2, <1>3 DEF SlotsSound, Sound, InUse

(* What a finished slot hands to the cache is a link. *)
LEMMA OfferedLinks ==
  ASSUME NEW s \in SlotType, Sound(s)
  PROVE  Offered(s) \subseteq Links
BY DEF Offered, Sound, InUse

(* A slot that is emptied. *)
LEMMA Deletes ==
  ASSUME SlotsSound, NEW p \in Slots, Put(p, FreeSlot)
  PROVE  SlotsSound' /\ Frame(p) /\ slot'[p] = FreeSlot
<1>1. Sound(FreeSlot)
  BY FreeSlotType DEF Sound, InUse
<1> QED BY <1>1, FreeSlotType, Unplugs

(* A slot whose connection stays as an idle one. *)
LEMMA KeepsAlive ==
  ASSUME SlotsSound, NEW p \in Slots, open' = open,
         slot' = [slot EXCEPT ![p] = AliveSlot(slot[p].host, slot[p].soc)]
  PROVE  SlotsSound' /\ Frame(p) /\ slot'[p].st = "alive"
<1> DEFINE s == AliveSlot(slot[p].host, slot[p].soc)
<1>1. slot[p].host \in Addresses \cup {NoHost} /\ slot[p].soc \in Socks \cup {NoSock}
  BY DEF SlotsSound, SlotType
<1>2. s \in SlotType /\ s.soc = slot[p].soc /\ s.st = "alive"
  BY <1>1, AliveSlotType
<1>3. Sound(s)
  BY <1>2 DEF Sound, InUse
<1> HIDE DEF s
<1> QED BY <1>2, <1>3, Keeps DEF s

(* back_maydelete leaves nothing but, perhaps, an idle connection. *)
LEMMA MayDeletes ==
  ASSUME SlotsSound, NEW p \in Slots, MayDelete(p)
  PROVE  /\ SlotsSound'
         /\ Frame(p)
         /\ ~InUse(slot'[p])
         /\ cached' = cached \cup Offered(slot[p])
<1>1. CASE Keep(p)
  BY <1>1, KeepsAlive DEF Keep, InUse
<1>2. CASE Delete(p)
  BY <1>2, Deletes, FreeSlotType DEF Delete, Put, InUse
<1> QED BY <1>1, <1>2 DEF MayDelete

(* back_maydeletehttp leaves the slot finished, without its connection. *)
LEMMA MayDeleteHttps ==
  ASSUME SlotsSound, NEW p \in Slots, NEW s \in SlotType, s.st = "ready",
         s.link \in Links, InUse(slot[p]), MayDeleteHttp(p, s)
  PROVE  SlotsSound' /\ Frame(p) /\ slot'[p] = Hangup(s)
<1>1. /\ Hangup(s) \in SlotType
      /\ Hangup(s).soc = NoSock
      /\ Hangup(s).st = "ready"
      /\ Sound(Hangup(s))
  BY HangupType DEF Sound, InUse
<1>2. CASE Close(p, s)
  BY <1>1, <1>2, Unplugs DEF Close, Put
<1>3. CASE Park(p, s)
  <2>1. PICK q \in Search \ {p} :
          /\ slot' = [slot EXCEPT ![p] = Hangup(s),
                                  ![q] = AliveSlot(slot[p].host, slot[p].soc)]
          /\ open' = open \ {slot[q].soc}
    BY <1>3 DEF Park
  <2> DEFINE u == AliveSlot(slot[p].host, slot[p].soc)
  <2>2. q \in Slots \ {p} /\ ~InUse(slot[q])
    BY SearchFinds
  <2>3. /\ slot[p].host \in Addresses \cup {NoHost}
        /\ slot[p].soc \in Socks \cup {NoSock}
        /\ slot[p].soc # NoSock
    BY <1>3 DEF SlotsSound, SlotType, Park, Reusable
  <2>4. u \in SlotType /\ u.soc = slot[p].soc /\ u.st = "alive"
    BY <2>3, AliveSlotType
  <2>5. Sound(u)
    BY <2>4 DEF Sound, InUse
  <2> HIDE DEF u
  <2>6. /\ slot' \in [Slots -> SlotType]
        /\ slot'[p] = Hangup(s)
        /\ slot'[q] = u
        /\ \A r \in Slots \ {p, q} : slot'[r] = slot[r]
    BY <1>1, <2>1, <2>2, <2>4 DEF SlotsSound, u
  <2>7. SlotsSound'
    BY <1>1, <2>1, <2>2, <2>3, <2>4, <2>5, <2>6, Moves
  <2> QED BY <2>2, <2>4, <2>6, <2>7 DEF Frame, InUse
<1> QED BY <1>2, <1>3 DEF MayDeleteHttp

-----------------------------------------------------------------------------
(* What the slots of the engine and of the threads keep *)

(* The slot the engine holds stays so, unless it is the one that changes. *)
LEMMA HeldKept ==
  ASSUME Held, Control, NEW p \in Slots, Frame(p), eng' = eng,
         eng.mode = "hold" /\ eng.b = p =>
           /\ slot'[p].link = slot[p].link
           /\ InUse(slot'[p])
           /\ slot'[p].locked
           /\ slot'[p].early
  PROVE  Held'
BY DEF Held, Control, Frame

(* A thread keeps its slot, unless it is the one that changes. *)
LEMMA ThreadsKept ==
  ASSUME TypeOK, Threads, eng.mode # "end", NEW p \in Slots, Frame(p),
         slot[p].st # "ftp", ftp' = ftp
  PROVE  Threads'
<1> SUFFICES ASSUME NEW t \in ftp
             PROVE  slot'[t.b].link = t.link /\ slot'[t.b].st = "ftp"
  BY DEF Threads
<1>1. slot[t.b].link = t.link /\ slot[t.b].st = "ftp" /\ t.b \in Slots
  BY DEF Threads, TypeOK
<1>2. t.b # p /\ InUse(slot[t.b])
  BY <1>1 DEF InUse
<1> QED BY <1>1, <1>2 DEF Frame

(* A slot held for the type of a link is never that of a thread. *)
LEMMA TypedSlot ==
  ASSUME SlotsSound, NEW q \in Slots, slot[q].link \in UntypedLinks
  PROVE  slot[q].st # "ftp"
BY LinkAssumption DEF SlotsSound, Sound

-----------------------------------------------------------------------------
(* back_clean *)

(* The loops of back_clean leave the engine where it is. *)
LEMMA CleanControl ==
  ASSUME Control, call \in CallType, call.at \notin {"idle", "fill", "exist"},
         NEW at \in {"park", "trim", "store"}, Turn(at),
         eng' = eng, \A l \in Links : lk'[l] = "new" <=> lk[l] = "new",
         eng \in EngType
  PROVE  Control' /\ call' \in CallType /\ eng.mode # "end"
<1>1. /\ call' \in CallType
      /\ call'.op = call.op
      /\ call'.link = call.link
      /\ call'.at \in {call.at, at}
  BY TurnType DEF Places
<1> QED BY <1>1 DEF Control

(* A file written in the background: a held slot is not one of them, its link being new. *)
LEMMA SweepWrittenStep ==
  ASSUME IInv, SweepWritten
  PROVE  IInv'
<1> DEFINE i == call.i
<1>1. /\ i \in Slots /\ call \in CallType /\ slot[i] \in SlotType
      /\ eng \in EngType /\ lk \in [Links -> LinkStates]
  BY DEF IInv, TypeOK, CallType
<1>2. /\ call.at = "sweep"
      /\ slot[i].st = "ready"
      /\ Finalizable(slot[i])
      /\ lk' = IF OnHeap(slot[i]) /\ lk[slot[i].link] = "recorded"
               THEN [lk EXCEPT ![slot[i].link] = "done"] ELSE lk
      /\ MayDelete(i)
      /\ Turn("park")
  BY DEF SweepWritten, Cleanable
<1>3. SlotsSound' /\ Frame(i) /\ ~InUse(slot'[i]) /\ cached' = cached \cup Offered(slot[i])
  BY <1>1, <1>2, MayDeletes DEF IInv
<1>4. /\ lk' \in [Links -> LinkStates]
      /\ \A l \in Links : lk'[l] = "new" <=> lk[l] = "new"
  BY <1>1, <1>2 DEF LinkStates
<1>5. Control' /\ call' \in CallType /\ eng.mode # "end"
  BY <1>1, <1>2, <1>4, CleanControl DEF IInv, SweepWritten
<1>6. Offered(slot[i]) \subseteq Links
  BY <1>1, OfferedLinks DEF IInv, SlotsSound
<1>7. TypeOK' /\ StoredSound'
  BY <1>3, <1>4, <1>5, <1>6 DEF IInv, TypeOK, StoredSound, SlotsSound, SweepWritten
<1>8. Unplugged'
  BY <1>1, <1>2, Values DEF Turn, Unplugged, CallType, Slots
<1>9. Held'
  <2>1. ~(eng.mode = "hold" /\ eng.b = i)
    BY <1>2 DEF IInv, Held, Control, Finalizable, OnHeap
  <2> QED BY <1>1, <1>3, <2>1, HeldKept DEF IInv, SweepWritten
<1>10. Threads'
  BY <1>1, <1>2, <1>3, <1>5, ThreadsKept DEF IInv, SweepWritten
<1> QED BY <1>3, <1>5, <1>7, <1>8, <1>9, <1>10 DEF IInv

(* An idle connection too old is closed. *)
LEMMA SweepAliveStep ==
  ASSUME IInv, SweepAlive
  PROVE  IInv'
<1> DEFINE i == call.i
<1>1. /\ i \in Slots /\ call \in CallType /\ slot[i] \in SlotType /\ eng \in EngType
  BY DEF IInv, TypeOK, CallType
<1>2. call.at = "sweep" /\ slot[i].st = "alive" /\ Delete(i) /\ Turn("park")
  BY DEF SweepAlive
<1>3. SlotsSound' /\ Frame(i)
  BY <1>1, <1>2, Deletes DEF IInv, Delete, Put
<1>4. Control' /\ call' \in CallType /\ eng.mode # "end"
  BY <1>1, <1>2, CleanControl DEF IInv, SweepAlive
<1>5. Offered(slot[i]) \subseteq Links
  BY <1>1, OfferedLinks DEF IInv, SlotsSound
<1>6. TypeOK' /\ StoredSound'
  BY <1>2, <1>3, <1>4, <1>5 DEF IInv, TypeOK, StoredSound, SlotsSound, SweepAlive, Delete
<1>7. Unplugged'
  BY <1>1, <1>2, Values DEF Turn, Unplugged, CallType, Slots
<1>8. Held'
  <2>1. ~(eng.mode = "hold" /\ eng.b = i)
    BY <1>2 DEF IInv, Held, InUse
  <2> QED BY <1>1, <1>3, <2>1, HeldKept DEF IInv, SweepAlive
<1>9. Threads'
  BY <1>1, <1>2, <1>3, <1>4, ThreadsKept DEF IInv, SweepAlive
<1> QED BY <1>3, <1>4, <1>6, <1>7, <1>8, <1>9 DEF IInv

(* A finished slot that gives its connection back, or nothing. *)
LEMMA GivesBack ==
  ASSUME SlotsSound, NEW i \in Slots,
         \/ slot[i].st = "ready" /\ MayDeleteHttp(i, slot[i])
         \/ UNCHANGED <<slot, open>>
  PROVE  /\ SlotsSound'
         /\ Frame(i)
         /\ slot'[i].st = slot[i].st
         /\ slot'[i].link = slot[i].link
         /\ slot'[i].locked = slot[i].locked
         /\ slot'[i].early = slot[i].early
<1>1. slot[i] \in SlotType /\ Sound(slot[i])
  BY DEF SlotsSound
<1>2. CASE slot[i].st = "ready" /\ MayDeleteHttp(i, slot[i])
  <2>1. slot[i].link \in Links /\ InUse(slot[i])
    BY <1>1, <1>2 DEF Sound, InUse
  <2>2. SlotsSound' /\ Frame(i) /\ slot'[i] = Hangup(slot[i])
    BY <1>1, <1>2, <2>1, MayDeleteHttps
  <2> QED BY <1>1, <2>2, HangupType
<1>3. CASE UNCHANGED <<slot, open>>
  <2>1. SlotsSound'
    BY <1>3 DEF SlotsSound, SocketOwnership, Sound, InUse
  <2> QED BY <1>3, <2>1 DEF Frame
<1> QED BY <1>2, <1>3

(* Other slots of the first loop. *)
LEMMA SweepOtherStep ==
  ASSUME IInv, SweepOther
  PROVE  IInv'
<1> DEFINE i == call.i
<1>1. /\ i \in Slots /\ call \in CallType /\ slot[i] \in SlotType /\ eng \in EngType
  BY DEF IInv, TypeOK, CallType
<1>2. /\ call.at = "sweep" /\ Turn("park")
      /\ \/ slot[i].st = "ready" /\ MayDeleteHttp(i, slot[i])
         \/ UNCHANGED <<slot, open>>
  BY DEF SweepOther, Cleanable
<1>3. /\ SlotsSound' /\ Frame(i)
      /\ slot'[i].st = slot[i].st
      /\ slot'[i].link = slot[i].link
      /\ slot'[i].locked = slot[i].locked
      /\ slot'[i].early = slot[i].early
  BY <1>1, <1>2, GivesBack DEF IInv
<1>4. Control' /\ call' \in CallType /\ eng.mode # "end"
  BY <1>1, <1>2, CleanControl DEF IInv, SweepOther
<1>5. TypeOK' /\ StoredSound'
  BY <1>3, <1>4 DEF IInv, TypeOK, StoredSound, SlotsSound, SweepOther
<1>6. Unplugged'
  BY <1>1, <1>2, Values DEF Turn, Unplugged, CallType, Slots
<1>7. Held'
  <2>1. eng.mode = "hold" /\ eng.b = i =>
          InUse(slot'[i]) /\ slot'[i].locked /\ slot'[i].early
    BY <1>3 DEF IInv, Held, InUse
  <2> QED BY <1>1, <1>3, <2>1, HeldKept DEF IInv, SweepOther
<1>8. Threads'
  <2>1. CASE slot[i].st = "ready"
    BY <1>1, <1>3, <1>4, <2>1, ThreadsKept DEF IInv, SweepOther
  <2>2. CASE slot[i].st # "ready"
    BY <1>2, <2>2 DEF IInv, Threads, SweepOther
  <2> QED BY <2>1, <2>2
<1> QED BY <1>3, <1>4, <1>5, <1>6, <1>7, <1>8 DEF IInv

(* The second loop unplugs one finished slot more. *)
LEMMA ParkReadyStep ==
  ASSUME IInv, ParkReady
  PROVE  IInv'
<1> DEFINE i == call.i
<1>1. /\ i \in Slots /\ call \in CallType /\ slot[i] \in SlotType /\ eng \in EngType
  BY DEF IInv, TypeOK, CallType
<1>2. /\ call.at = "park" /\ Turn("trim")
      /\ IF slot[i].st = "ready" /\ slot[i].soc # NoSock
         THEN MayDeleteHttp(i, slot[i])
         ELSE UNCHANGED <<slot, open>>
  BY DEF ParkReady
<1>3. /\ SlotsSound' /\ Frame(i)
      /\ slot'[i].st = slot[i].st
      /\ slot'[i].link = slot[i].link
      /\ slot'[i].locked = slot[i].locked
      /\ slot'[i].early = slot[i].early
  BY <1>1, <1>2, GivesBack DEF IInv
<1>4. Control' /\ call' \in CallType /\ eng.mode # "end"
  BY <1>1, <1>2, CleanControl DEF IInv, ParkReady
<1>5. TypeOK' /\ StoredSound'
  BY <1>3, <1>4 DEF IInv, TypeOK, StoredSound, SlotsSound, ParkReady
<1>6. slot[i].st = "ready" => slot'[i].soc = NoSock
  <2>1. CASE slot[i].st = "ready" /\ slot[i].soc # NoSock
    <3>1. slot[i].link \in Links /\ InUse(slot[i])
      BY <1>1, <2>1 DEF IInv, SlotsSound, Sound, InUse
    <3>2. slot'[i] = Hangup(slot[i])
      BY <1>1, <1>2, <2>1, <3>1, MayDeleteHttps DEF IInv
    <3> QED BY <1>1, <3>2, HangupType
  <2>2. CASE ~(slot[i].st = "ready" /\ slot[i].soc # NoSock)
    BY <1>2, <2>2
  <2> QED BY <2>1, <2>2
<1>7. Unplugged'
  <2>1. SUFFICES ASSUME NEW q \in Slots, q <= i, slot'[q].st = "ready"
                 PROVE  slot'[q].soc = NoSock
    BY <1>1, <1>2, TurnType, Values DEF Unplugged, Places, CallType, Slots
  <2>2. CASE q = i
    BY <1>3, <1>6, <2>1, <2>2
  <2>3. CASE q # i
    <3>1. q < i
      BY <1>1, <2>1, <2>3, Values
    <3>2. slot'[q] = slot[q]
      BY <1>3, <2>1, <2>3 DEF Frame, InUse
    <3> QED BY <1>2, <2>1, <3>1, <3>2 DEF IInv, Unplugged
  <2> QED BY <2>2, <2>3
<1>8. Held'
  <2>1. eng.mode = "hold" /\ eng.b = i =>
          InUse(slot'[i]) /\ slot'[i].locked /\ slot'[i].early
    BY <1>3 DEF IInv, Held, InUse
  <2> QED BY <1>1, <1>3, <2>1, HeldKept DEF IInv, ParkReady
<1>9. Threads'
  <2>1. CASE slot[i].st = "ready"
    BY <1>1, <1>3, <1>4, <2>1, ThreadsKept DEF IInv, ParkReady
  <2>2. CASE slot[i].st # "ready"
    BY <1>2, <2>2 DEF IInv, Threads, ParkReady
  <2> QED BY <2>1, <2>2
<1> QED BY <1>3, <1>4, <1>5, <1>7, <1>8, <1>9 DEF IInv

(* The third loop closes idle connections only. *)
LEMMA TrimAliveStep ==
  ASSUME IInv, TrimAlive
  PROVE  IInv'
<1> DEFINE i == call.i
<1>1. /\ i \in Slots /\ call \in CallType /\ slot[i] \in SlotType /\ eng \in EngType
  BY DEF IInv, TypeOK, CallType
<1>2. /\ call.at = "trim" /\ Turn("store")
      /\ \/ slot[i].st = "alive" /\ Delete(i)
         \/ UNCHANGED <<slot, open, cached>>
  BY DEF TrimAlive
<1>3. SlotsSound' /\ Frame(i) /\ (slot'[i] = slot[i] \/ slot'[i].st = "free")
  <2>1. CASE slot[i].st = "alive" /\ Delete(i)
    BY <1>1, <2>1, Deletes, FreeSlotType DEF IInv, Delete, Put
  <2>2. CASE UNCHANGED <<slot, open, cached>>
    BY <2>2 DEF IInv, SlotsSound, SocketOwnership, Sound, InUse, Frame
  <2> QED BY <1>2, <2>1, <2>2
<1>4. Control' /\ call' \in CallType /\ eng.mode # "end"
  BY <1>1, <1>2, CleanControl DEF IInv, TrimAlive
<1>5. Offered(slot[i]) \subseteq Links
  BY <1>1, OfferedLinks DEF IInv, SlotsSound
<1>6. TypeOK' /\ StoredSound'
  BY <1>2, <1>3, <1>4, <1>5 DEF IInv, TypeOK, StoredSound, SlotsSound, TrimAlive, Delete
<1>7. Unplugged'
  BY <1>2, <1>3 DEF IInv, Unplugged, Frame, InUse
<1>8. CASE slot[i].st = "alive" /\ Delete(i)
  <2>1. Held'
    <3>1. ~(eng.mode = "hold" /\ eng.b = i)
      BY <1>8 DEF IInv, Held, InUse
    <3> QED BY <1>1, <1>3, <3>1, HeldKept DEF IInv, TrimAlive
  <2>2. Threads'
    BY <1>1, <1>3, <1>4, <1>8, ThreadsKept DEF IInv, TrimAlive
  <2> QED BY <1>3, <1>4, <1>6, <1>7, <2>1, <2>2 DEF IInv
<1>9. CASE UNCHANGED <<slot, open, cached>>
  <2>1. Held' /\ Threads'
    BY <1>9 DEF IInv, Held, Threads, TrimAlive
  <2> QED BY <1>3, <1>4, <1>6, <1>7, <2>1 DEF IInv
<1> QED BY <1>2, <1>8, <1>9

(* The fourth loop swaps out slots that are not locked, and were unplugged. *)
LEMMA StoreReadyStep ==
  ASSUME IInv, StoreReady
  PROVE  IInv'
<1> DEFINE i == call.i
<1>1. /\ i \in Slots /\ call \in CallType /\ slot[i] \in SlotType /\ eng \in EngType
  BY DEF IInv, TypeOK, CallType
<1>2. /\ call.at = "store"
      /\ call' = IF i + 1 < BackMax THEN [call EXCEPT !.i = i + 1]
                 ELSE [call EXCEPT !.at = Body[call.op], !.i = 0]
  BY DEF StoreReady
<1>3. /\ call' \in CallType
      /\ call'.at \in {"store", Body[call.op]}
      /\ call'.at # "store" => call'.at = Body[call.op]
      /\ call'.op = call.op
      /\ call'.link = call.link
  <2>1. Body[call.op] \in Places
    BY <1>1 DEF CallType, Ops, Body, Places
  <2>2. CASE i + 1 < BackMax
    <3>1. i + 1 \in Slots
      BY <1>1, <2>2, Values DEF Slots
    <3> QED BY <1>1, <1>2, <2>2, <3>1 DEF CallType
  <2>3. CASE ~(i + 1 < BackMax)
    BY <1>1, <1>2, <2>1, <2>3, Values DEF CallType
  <2> QED BY <2>2, <2>3
<1>4. Control' /\ eng.mode # "end"
  BY <1>1, <1>2, <1>3 DEF IInv, Control, StoreReady, Body, CallType, Ops
<1>5. CASE /\ Storable(slot[i])
           /\ stored' = (stored \ InStore(slot[i].link, slot[i].kind)) \cup {slot[i]}
           /\ ghost' = ghost \ {<<slot[i].link, slot[i].kind>>}
           /\ slot' = [slot EXCEPT ![i] = FreeSlot]
           /\ open' = open \ {slot[i].soc}
  <2>1. SlotsSound' /\ Frame(i) /\ slot'[i].st = "free"
    BY <1>1, <1>5, Deletes, FreeSlotType DEF IInv, Put
  <2>2. slot[i].st = "ready" /\ ~slot[i].locked /\ slot[i].soc = NoSock /\ slot[i].link \in Links
    BY <1>1, <1>2, <1>5 DEF IInv, Storable, Unplugged, SlotsSound, Sound, InUse
  <2>3. TypeOK' /\ StoredSound'
    BY <1>1, <1>3, <1>5, <2>1, <2>2 DEF IInv, TypeOK, StoredSound, SlotsSound, StoreReady
  <2>4. Unplugged'
    BY <1>2, <2>1 DEF IInv, Unplugged, Frame, InUse
  <2>5. Held'
    <3>1. ~(eng.mode = "hold" /\ eng.b = i)
      BY <2>2 DEF IInv, Held
    <3> QED BY <1>1, <2>1, <3>1, HeldKept DEF IInv, StoreReady
  <2>6. Threads'
    BY <1>1, <1>4, <2>1, <2>2, ThreadsKept DEF IInv, StoreReady
  <2> QED BY <1>4, <2>1, <2>3, <2>4, <2>5, <2>6 DEF IInv
<1>6. CASE UNCHANGED <<slot, open, stored, ghost>>
  <2>1. SlotsSound' /\ StoredSound' /\ Held' /\ Threads'
    BY <1>6 DEF IInv, SlotsSound, SocketOwnership, Sound, InUse, StoredSound, Held,
                Threads, StoreReady
  <2>2. TypeOK'
    BY <1>3, <1>6 DEF IInv, TypeOK, StoreReady
  <2>3. Unplugged'
    BY <1>2, <1>6 DEF IInv, Unplugged
  <2> QED BY <1>4, <2>1, <2>2, <2>3 DEF IInv
<1> QED BY <1>5, <1>6 DEF StoreReady

-----------------------------------------------------------------------------
(* back_add *)

(* A call of the pool that returns. *)
LEMMA IdleCall ==
  ASSUME Control, call' = Idle, eng' = eng, lk' = lk, budget' = budget
  PROVE  Control' /\ Unplugged' /\ call' \in CallType
BY Values DEF Control, Unplugged, Idle, CallType, Ops, Places, Kinds

(* Nothing is added yet. *)
LEMMA AddIfNotExistsStep ==
  ASSUME IInv, AddIfNotExists
  PROVE  IInv'
<1>1. /\ call.at = "exist"
      /\ call' = Idle \/ call' = [call EXCEPT !.op = "add", !.at = "sweep"]
      /\ call \in CallType
  BY DEF AddIfNotExists, IInv, TypeOK
<1>2. SlotsSound' /\ StoredSound' /\ Held' /\ Threads'
  BY DEF IInv, SlotsSound, SocketOwnership, Sound, InUse, StoredSound, Held,
         Threads, AddIfNotExists
<1>3. Control' /\ Unplugged' /\ call' \in CallType
  <2>1. CASE call' = Idle
    BY <2>1, IdleCall DEF IInv, AddIfNotExists
  <2>2. CASE call' = [call EXCEPT !.op = "add", !.at = "sweep"]
    BY <1>1, <2>2 DEF IInv, Control, Unplugged, AddIfNotExists, CallType, Ops, Places
  <2> QED BY <1>1, <2>1, <2>2
<1>4. TypeOK'
  BY <1>3 DEF IInv, TypeOK, AddIfNotExists
<1> QED BY <1>2, <1>3, <1>4 DEF IInv

(* A new entry, which has no connection. *)
LEMMA AddsAt ==
  ASSUME IInv, NEW q \in Slots, NEW s \in SlotType, Sound(s), s.soc = NoSock,
         AddAt(q, s)
  PROVE  /\ SlotsSound' /\ StoredSound' /\ Control' /\ Unplugged' /\ Held'
         /\ ftp' = ftp => Threads'
         /\ call' \in CallType
         /\ slot'[q] = s
         /\ Frame(q)
         /\ ~InUse(slot[q])
         /\ call.link \in Links
         /\ eng.mode # "end"
<1>1. q \in Search /\ Put(q, s) /\ call.at = "fill" /\ call' = Idle
  BY DEF AddAt
<1>2. ~InUse(slot[q])
  BY <1>1, SearchFinds
<1>3. SlotsSound' /\ Frame(q) /\ slot'[q] = s
  BY <1>1, Unplugs DEF IInv
<1>4. Control' /\ Unplugged' /\ call' \in CallType
  BY <1>1, IdleCall DEF IInv, AddAt
<1>5. eng.mode # "end" /\ call.link \in Links
  BY <1>1 DEF IInv, Control
<1>6. Held'
  <2>1. ~(eng.mode = "hold" /\ eng.b = q)
    BY <1>2 DEF IInv, Held
  <2> QED BY <1>3, <2>1, HeldKept DEF IInv, AddAt
<1>7. ftp' = ftp => Threads'
  BY <1>2, <1>3, <1>5, ThreadsKept DEF IInv, InUse
<1>8. StoredSound'
  BY DEF IInv, StoredSound, AddAt
<1> QED BY <1>2, <1>3, <1>4, <1>5, <1>6, <1>7, <1>8

(* The entries back_add makes. *)
LEMMA Entries ==
  ASSUME NEW l \in Links, NEW kd \in Kinds, NEW c \in Codes
  PROVE  /\ NewSlot(l, kd) \in SlotType
         /\ NewSlot(l, kd).soc = NoSock
         /\ Sound(NewSlot(l, kd))
         /\ [NewSlot(l, kd) EXCEPT !.code = c] \in SlotType
         /\ [NewSlot(l, kd) EXCEPT !.code = c].soc = NoSock
         /\ Sound([NewSlot(l, kd) EXCEPT !.code = c])
<1> DEFINE n == NewSlot(l, kd)
<1>1. /\ n \in SlotType
      /\ n.soc = NoSock
      /\ n.link = l
      /\ n.st = "ready"
  BY NewSlotType
<1> HIDE DEF n
<1>2. Sound(n)
  BY <1>1 DEF Sound, InUse
<1> DEFINE m == [n EXCEPT !.code = c]
<1>3. m \in SlotType /\ m.soc = NoSock /\ m.link = l /\ m.st = "ready"
  BY <1>1 DEF SlotType
<1> HIDE DEF m
<1>4. Sound(m)
  BY <1>3 DEF Sound, InUse
<1> QED BY <1>1, <1>2, <1>3, <1>4 DEF n, m

(* The entry of a stopped mirror. *)
LEMMA AddStoppedStep ==
  ASSUME IInv, AddStopped
  PROVE  IInv'
<1>1. PICK q \in Slots : AddAt(q, NewSlot(call.link, call.kind))
  BY DEF AddStopped
<1>2. call.link \in Links /\ call.kind \in Kinds
  BY <1>1 DEF IInv, TypeOK, CallType, AddAt, Control
<1> DEFINE s == NewSlot(call.link, call.kind)
<1>3. s \in SlotType /\ Sound(s) /\ s.soc = NoSock
  BY <1>2, Entries DEF Codes
<1> HIDE DEF s
<1>4. /\ SlotsSound' /\ StoredSound' /\ Control' /\ Unplugged' /\ Held'
      /\ ftp' = ftp => Threads'
      /\ call' \in CallType
  BY <1>1, <1>3, AddsAt DEF s
<1>5. TypeOK' /\ ftp' = ftp
  BY <1>1, <1>4 DEF IInv, TypeOK, SlotsSound, AddStopped, AddAt
<1> QED BY <1>4, <1>5 DEF IInv

(* The entry of a refused connection. *)
LEMMA AddRefusedStep ==
  ASSUME IInv, AddRefused
  PROVE  IInv'
<1>1. PICK q \in Slots : AddAt(q, [NewSlot(call.link, call.kind) EXCEPT !.code = "failed"])
  BY DEF AddRefused
<1>2. call.link \in Links /\ call.kind \in Kinds
  BY <1>1 DEF IInv, TypeOK, CallType, AddAt, Control
<1> DEFINE s == [NewSlot(call.link, call.kind) EXCEPT !.code = "failed"]
<1>3. s \in SlotType /\ Sound(s) /\ s.soc = NoSock
  BY <1>2, Entries DEF Codes
<1> HIDE DEF s
<1>4. /\ SlotsSound' /\ StoredSound' /\ Control' /\ Unplugged' /\ Held'
      /\ ftp' = ftp => Threads'
      /\ call' \in CallType
  BY <1>1, <1>3, AddsAt DEF s
<1>5. TypeOK' /\ ftp' = ftp
  BY <1>1, <1>4 DEF IInv, TypeOK, SlotsSound, AddRefused, AddAt
<1> QED BY <1>4, <1>5 DEF IInv

(* The entry of a link the cache knows. *)
LEMMA AddKnownStep ==
  ASSUME IInv, AddKnown
  PROVE  IInv'
<1>1. PICK q \in Slots, c \in Positive :
        LET s == [NewSlot(call.link, call.kind) EXCEPT !.code = c]
        IN  /\ AddAt(q, [s EXCEPT !.final = TRUE])
            /\ cached' = cached \cup Offered(s)
  BY DEF AddKnown
<1> DEFINE s == [NewSlot(call.link, call.kind) EXCEPT !.code = c]
           u == [s EXCEPT !.final = TRUE]
<1>2. call.link \in Links /\ call.kind \in Kinds /\ c \in Codes
  BY <1>1 DEF IInv, TypeOK, CallType, AddAt, Control, Positive, Codes
<1>3. s \in SlotType /\ Sound(s) /\ s.soc = NoSock
  BY <1>2, Entries
<1>4. AddAt(q, u) /\ cached' = cached \cup Offered(s)
  BY <1>1
<1> HIDE DEF s
<1>5. u \in SlotType /\ Sound(u) /\ u.soc = NoSock
  BY <1>3 DEF SlotType, Sound, InUse
<1>6. Offered(s) \subseteq Links
  BY <1>3, OfferedLinks
<1> HIDE DEF u
<1>7. /\ SlotsSound' /\ StoredSound' /\ Control' /\ Unplugged' /\ Held'
      /\ ftp' = ftp => Threads'
      /\ call' \in CallType
  BY <1>4, <1>5, AddsAt
<1>8. TypeOK' /\ ftp' = ftp
  BY <1>4, <1>6, <1>7 DEF IInv, TypeOK, SlotsSound, AddKnown, AddAt
<1> QED BY <1>7, <1>8 DEF IInv

(* The entry of a link given to a thread. *)
LEMMA AddFtpStep ==
  ASSUME IInv, AddFtp
  PROVE  IInv'
<1>1. PICK q \in Slots :
        /\ AddAt(q, [NewSlot(call.link, call.kind) EXCEPT !.st = "ftp"])
        /\ ftp' = ftp \cup {[b |-> q, link |-> call.link]}
  BY DEF AddFtp
<1> DEFINE n == NewSlot(call.link, call.kind)
           s == [n EXCEPT !.st = "ftp"]
<1>2. call.link \in Links /\ call.link \in FtpLinks /\ call.kind \in Kinds
  BY <1>1 DEF IInv, TypeOK, CallType, AddAt, Control, AddFtp
<1>3. n \in SlotType /\ n.soc = NoSock /\ n.link = call.link /\ n.host = Address(call.link)
  BY <1>2, NewSlotType
<1>4. AddAt(q, s)
  BY <1>1
<1> HIDE DEF n
<1>5. /\ s \in SlotType /\ s.soc = NoSock
      /\ s.st = "ftp" /\ s.link = call.link /\ s.host = Address(call.link)
  BY <1>3 DEF SlotType, Statuses, Busy
<1> HIDE DEF s
<1>6. Sound(s)
  BY <1>2, <1>5 DEF Sound
<1>7. /\ SlotsSound' /\ StoredSound' /\ Control' /\ Unplugged' /\ Held'
      /\ call' \in CallType
      /\ slot'[q] = s
      /\ Frame(q)
      /\ ~InUse(slot[q])
      /\ eng.mode # "end"
  BY <1>4, <1>5, <1>6, AddsAt
<1>8. TypeOK'
  BY <1>1, <1>2, <1>4, <1>7 DEF IInv, TypeOK, SlotsSound, AddFtp, AddAt
<1>9. Threads'
  <2> SUFFICES ASSUME NEW t \in ftp'
               PROVE  slot'[t.b].link = t.link /\ slot'[t.b].st = "ftp"
    BY DEF Threads
  <2>1. CASE t \in ftp
    <3>1. slot[t.b].link = t.link /\ slot[t.b].st = "ftp" /\ t.b \in Slots
      BY <1>7, <2>1 DEF IInv, TypeOK, Threads
    <3>2. InUse(slot[t.b]) /\ t.b # q
      BY <1>7, <3>1 DEF InUse
    <3> QED BY <1>7, <3>1, <3>2 DEF Frame
  <2>2. CASE t = [b |-> q, link |-> call.link]
    BY <1>5, <1>7, <2>2
  <2> QED BY <1>1, <2>1, <2>2
<1> QED BY <1>7, <1>8, <1>9 DEF IInv

(* The entry takes an idle connection over. *)
LEMMA AddLiveStep ==
  ASSUME IInv, AddLive
  PROVE  IInv'
<1> DEFINE n == NewSlot(call.link, call.kind)
           c == IF call.link \in SecureLinks THEN "secured" ELSE "connecting"
           u(i) == [n EXCEPT !.st = c, !.soc = slot[i].soc, !.ka = TRUE]
<1>1. PICK q \in Search : \E i \in Alive \ {q} :
        /\ slot[i].host = Address(call.link)
        /\ slot' = [slot EXCEPT ![q] = u(i), ![i] = FreeSlot]
        /\ open' = open \ {slot[q].soc}
  BY DEF AddLive
<1>2. PICK i \in Alive \ {q} :
        /\ slot' = [slot EXCEPT ![q] = u(i), ![i] = FreeSlot]
        /\ open' = open \ {slot[q].soc}
  BY <1>1
<1>3. /\ q \in Slots /\ i \in Slots /\ q # i
      /\ ~InUse(slot[q]) /\ ~InUse(slot[i]) /\ slot[i] \in SlotType
  BY SearchFinds DEF Alive, InUse, IInv, TypeOK
<1>4. call.at = "fill" /\ call.link \in Links /\ call.kind \in Kinds /\ eng.mode # "end"
  BY DEF IInv, TypeOK, CallType, Control, AddLive
<1> DEFINE s == u(i)
<1>5. n \in SlotType /\ n.link = call.link
  BY <1>4, NewSlotType
<1>c. c \in {"secured", "connecting"}
  OBVIOUS
<1>7. slot' = [slot EXCEPT ![q] = s, ![i] = FreeSlot]
  BY <1>2
<1> HIDE DEF n, c
<1>6. /\ s \in SlotType /\ s.soc = slot[i].soc /\ s.link = call.link
      /\ s.st \in {"secured", "connecting"}
  BY <1>3, <1>5, <1>c DEF SlotType, Statuses, Busy, OnWire
<1> HIDE DEF u, s
<1>8. Sound(s) /\ Sound(FreeSlot)
  BY <1>4, <1>6, FreeSlotType DEF Sound, InUse
<1>9. /\ slot' \in [Slots -> SlotType]
      /\ slot'[q] = s
      /\ slot'[i] = FreeSlot
      /\ \A r \in Slots \ {i, q} : slot'[r] = slot[r]
  BY <1>3, <1>6, <1>7, FreeSlotType DEF IInv, TypeOK
<1>10. SlotsSound'
  BY <1>2, <1>3, <1>6, <1>8, <1>9, FreeSlotType, Moves DEF IInv
<1>11. Control' /\ Unplugged' /\ call' \in CallType
  BY IdleCall DEF IInv, AddLive
<1>12. Frame(q)
  BY <1>3, <1>9, FreeSlotType DEF Frame, InUse
<1>13. Held'
  <2>1. ~(eng.mode = "hold" /\ eng.b = q)
    BY <1>3 DEF IInv, Held
  <2> QED BY <1>3, <1>12, <2>1, HeldKept DEF IInv, AddLive
<1>14. Threads'
  BY <1>3, <1>4, <1>12, ThreadsKept DEF IInv, AddLive, InUse
<1>15. TypeOK' /\ StoredSound'
  BY <1>10, <1>11 DEF IInv, TypeOK, StoredSound, SlotsSound, AddLive
<1> QED BY <1>10, <1>11, <1>13, <1>14, <1>15 DEF IInv

(* The entry has a new connection, unlike any other. *)
LEMMA AddConnectStep ==
  ASSUME IInv, AddConnect
  PROVE  IInv'
<1> DEFINE n == NewSlot(call.link, call.kind)
           s(k) == [n EXCEPT !.st = "connecting", !.code = "failed", !.soc = k]
<1>1. PICK q \in Search : \E k \in Lowest(Socks \ (open \ {slot[q].soc})) :
        /\ slot' = [slot EXCEPT ![q] = s(k)]
        /\ open' = (open \ {slot[q].soc}) \cup {k}
  BY DEF AddConnect
<1>2. PICK k \in Lowest(Socks \ (open \ {slot[q].soc})) :
        /\ slot' = [slot EXCEPT ![q] = s(k)]
        /\ open' = (open \ {slot[q].soc}) \cup {k}
  BY <1>1
<1>3. q \in Slots /\ ~InUse(slot[q]) /\ slot \in [Slots -> SlotType]
  BY SearchFinds DEF IInv, TypeOK
<1>4. k \in Socks /\ k # NoSock /\ k \notin open \ {slot[q].soc}
  BY Values DEF Lowest
<1>5. call.at = "fill" /\ call.link \in Links /\ call.kind \in Kinds /\ eng.mode # "end"
  BY DEF IInv, TypeOK, CallType, Control, AddConnect
<1> DEFINE u == s(k)
<1>6. n \in SlotType /\ n.link = call.link
  BY <1>5, NewSlotType
<1> HIDE DEF n
<1>7. u \in SlotType /\ u.soc = k /\ u.link = call.link /\ u.st = "connecting"
  BY <1>4, <1>6 DEF SlotType, Statuses, Busy, OnWire, Codes
<1>8. slot' = [slot EXCEPT ![q] = u]
  BY <1>2
<1> HIDE DEF s, u
<1>9. Sound(u)
  BY <1>5, <1>7 DEF Sound, InUse
<1>10. /\ slot' \in [Slots -> SlotType]
       /\ slot'[q] = u
       /\ \A r \in Slots \ {q} : slot'[r] = slot[r]
  BY <1>3, <1>7, <1>8
<1>11. SocketOwnership'
  BY <1>2, <1>3, <1>4, <1>7, <1>10 DEF IInv, SlotsSound, SocketOwnership
<1>12. SlotsSound'
  <2>1. open' \subseteq Socks
    BY <1>2, <1>4 DEF IInv, SlotsSound
  <2>2. \A r \in Slots : Sound(slot'[r])
    BY <1>9, <1>10 DEF IInv, SlotsSound
  <2> QED BY <1>10, <1>11, <2>1, <2>2 DEF SlotsSound, Sound, InUse
<1>13. Control' /\ Unplugged' /\ call' \in CallType
  BY IdleCall DEF IInv, AddConnect
<1>14. Frame(q)
  BY <1>10 DEF Frame
<1>15. Held'
  <2>1. ~(eng.mode = "hold" /\ eng.b = q)
    BY <1>3 DEF IInv, Held
  <2> QED BY <1>3, <1>14, <2>1, HeldKept DEF IInv, AddConnect
<1>16. Threads'
  BY <1>3, <1>5, <1>14, ThreadsKept DEF IInv, AddConnect, InUse
<1>17. TypeOK' /\ StoredSound'
  BY <1>12, <1>13 DEF IInv, TypeOK, StoredSound, SlotsSound, AddConnect
<1> QED BY <1>12, <1>13, <1>15, <1>16, <1>17 DEF IInv

(* No slot is found. *)
LEMMA AddFullStep ==
  ASSUME IInv, AddFull
  PROVE  IInv'
<1>1. /\ call.at = "fill" /\ call' = Idle /\ budget' = 0
      /\ eng' = IF eng.mode \in {"type", "retype"} THEN [InMain EXCEPT !.mode = "panic"] ELSE eng
  BY DEF AddFull
<1>2. SlotsSound' /\ StoredSound'
  BY DEF IInv, SlotsSound, SocketOwnership, Sound, InUse, StoredSound, AddFull
<1>3. call'.at = "idle" /\ call' \in CallType
  BY <1>1, Values DEF Idle, CallType, Ops, Places, Kinds
<1>4. /\ eng.mode # "end"
      /\ eng' = eng \/ (eng' \in EngType /\ eng'.mode = "panic")
  BY <1>1 DEF InMain, EngType, Modes, IInv, Control
<1>5. Control' /\ Unplugged' /\ Held' /\ Threads'
  BY <1>1, <1>3, <1>4 DEF IInv, Control, Unplugged, Held, Threads, AddFull
<1>6. TypeOK'
  BY <1>1, <1>3, <1>4, PoolAssumption DEF IInv, TypeOK, AddFull
<1> QED BY <1>2, <1>5, <1>6 DEF IInv

-----------------------------------------------------------------------------
(* back_wait *)

(* A slot changes while the sockets are looked at, or for the engine,      *)
(* and remains the entry of its link.                                      *)
LEMMA SlotMoves ==
  ASSUME IInv, NEW i \in Slots, InUse(slot[i]), slot[i].st # "ftp", SlotsSound',
         Frame(i), InUse(slot'[i]), slot'[i].link = slot[i].link,
         slot'[i].locked = slot[i].locked, slot'[i].early = slot[i].early,
         call.at \notin {"park", "trim", "store"}, eng.mode # "end", cached' \subseteq Links,
         UNCHANGED <<stored, ghost, ftp, lk, tries, call, eng, budget, stop>>
  PROVE  IInv'
<1>1. TypeOK' /\ StoredSound'
  BY DEF IInv, TypeOK, StoredSound, SlotsSound
<1>2. Control' /\ Unplugged'
  BY DEF IInv, Control, Unplugged
<1>3. eng.mode = "hold" /\ eng.b = i => slot'[i].locked /\ slot'[i].early
  BY DEF IInv, Held
<1>4. Held' /\ Threads'
  BY <1>3, HeldKept, ThreadsKept DEF IInv
<1> QED BY <1>1, <1>2, <1>4 DEF IInv

(* The sockets are looked at after back_clean, while the engine runs. *)
LEMMA NetPlace ==
  ASSUME IInv, call.at = "net"
  PROVE  eng.mode # "end" /\ call.at \notin {"park", "trim", "store"}
BY DEF IInv, Control

(* A transfer fails. *)
LEMMA BrokenStep ==
  ASSUME IInv, NEW i \in Slots, Broken(i)
  PROVE  IInv'
<1> DEFINE s == Failed(slot[i], "failed")
<1>1. /\ call.at = "net" /\ slot[i].st \in OnWire /\ Put(i, s) /\ cached' = cached
      /\ UNCHANGED <<stored, ghost, ftp, lk, tries, call, eng, budget, stop>>
  BY DEF Broken, NetStep, Put
<1>2. slot[i] \in SlotType /\ InUse(slot[i]) /\ slot[i].st # "ftp" /\ slot[i].link \in Links
  BY <1>1 DEF IInv, SlotsSound, Sound, InUse, OnWire
<1>3. /\ s \in SlotType /\ s.soc = NoSock /\ s.st = "ready" /\ s.link = slot[i].link
      /\ s.locked = slot[i].locked /\ s.early = slot[i].early
  BY <1>2, FailedType DEF Codes
<1> HIDE DEF s
<1>4. Sound(s)
  BY <1>2, <1>3 DEF Sound, InUse
<1>5. SlotsSound' /\ Frame(i) /\ slot'[i] = s
  BY <1>1, <1>3, <1>4, Unplugs DEF IInv
<1> QED BY <1>1, <1>2, <1>3, <1>5, NetPlace, SlotMoves DEF IInv, TypeOK, InUse

(* A slot that goes on with its connection. *)
LEMMA Receives ==
  ASSUME IInv, NEW i \in Slots, NetStep(i), NEW s \in SlotType, Sound(s), InUse(s),
         InUse(slot[i]), slot[i].st # "ftp",
         s.soc = slot[i].soc, s.link = slot[i].link,
         s.locked = slot[i].locked, s.early = slot[i].early,
         slot' = [slot EXCEPT ![i] = s], open' = open, cached' \subseteq Links
  PROVE  IInv'
<1>1. SlotsSound' /\ Frame(i) /\ slot'[i] = s
  BY Keeps DEF IInv
<1>2. eng.mode # "end" /\ call.at \notin {"park", "trim", "store"}
  BY NetPlace DEF NetStep
<1>3. /\ InUse(slot'[i]) /\ slot'[i].link = slot[i].link
      /\ slot'[i].locked = slot[i].locked /\ slot'[i].early = slot[i].early
  BY <1>1
<1>4. UNCHANGED <<stored, ghost, ftp, lk, tries, call, eng, budget, stop>>
  BY DEF NetStep
<1> QED BY <1>1, <1>2, <1>3, <1>4, SlotMoves

(* A slot with a transfer under way. *)
LEMMA OnWireSlot ==
  ASSUME IInv, NEW i \in Slots, slot[i].st \in OnWire
  PROVE  /\ slot[i] \in SlotType
         /\ InUse(slot[i])
         /\ slot[i].link \in Links
         /\ slot[i].st # "ftp"
         /\ cached \subseteq Links
BY DEF IInv, TypeOK, SlotsSound, Sound, InUse, OnWire

(* The connection goes through the handshake, and the request is sent. *)
LEMMA ConnectedStep ==
  ASSUME IInv, NEW i \in Slots, Connected(i) \/ Handshake(i)
  PROVE  IInv'
<1>1. PICK a \in {"handshake", "secured", "headers"} :
        slot' = [slot EXCEPT ![i].st = a]
  BY DEF Connected, Handshake
<1>2. NetStep(i) /\ slot[i].st \in OnWire /\ open' = open /\ cached' = cached
  BY DEF Connected, Handshake, OnWire
<1> DEFINE s == [slot[i] EXCEPT !.st = a]
<1>3. slot' = [slot EXCEPT ![i] = s]
  BY <1>1
<1>4. /\ s \in SlotType /\ s.soc = slot[i].soc /\ s.link = slot[i].link
      /\ s.st = a /\ s.locked = slot[i].locked /\ s.early = slot[i].early
  BY <1>2, OnWireSlot DEF SlotType, Statuses, Busy, OnWire
<1> HIDE DEF s
<1>5. Sound(s) /\ InUse(s)
  BY <1>2, <1>4, OnWireSlot DEF Sound, InUse
<1> QED BY <1>2, <1>3, <1>4, <1>5, OnWireSlot, Receives

(* The headers arrive. *)
LEMMA HeadersStep ==
  ASSUME IInv, NEW i \in Slots, Headers(i)
  PROVE  IInv'
<1>1. PICK c \in Positive, k \in BOOLEAN :
        slot' = [slot EXCEPT ![i].st = "transfer", ![i].code = c, ![i].ka = k]
  BY DEF Headers
<1>2. NetStep(i) /\ slot[i].st \in OnWire /\ open' = open /\ cached' = cached
  BY DEF Headers, OnWire
<1> DEFINE s == [slot[i] EXCEPT !.st = "transfer", !.code = c, !.ka = k]
<1>3. slot' = [slot EXCEPT ![i] = s]
  BY <1>1, <1>2 DEF IInv, TypeOK
<1>4. /\ s \in SlotType /\ s.soc = slot[i].soc /\ s.link = slot[i].link
      /\ s.st = "transfer" /\ s.code # "failed"
      /\ s.locked = slot[i].locked /\ s.early = slot[i].early
  BY <1>2, OnWireSlot DEF SlotType, Statuses, Busy, OnWire, Positive, Codes
<1> HIDE DEF s
<1>5. Sound(s) /\ InUse(s)
  BY <1>2, <1>4, OnWireSlot DEF Sound, InUse
<1> QED BY <1>2, <1>3, <1>4, <1>5, OnWireSlot, Receives

(* The file is created. *)
LEMMA OpenOutputStep ==
  ASSUME IInv, NEW i \in Slots, OpenOutput(i)
  PROVE  IInv'
<1> DEFINE s == [slot[i] EXCEPT !.out = slot[i].kind]
<1>1. /\ NetStep(i) /\ slot[i].st = "transfer" /\ slot[i].st \in OnWire
      /\ open' = open /\ cached' = cached
      /\ slot' = [slot EXCEPT ![i] = s]
  BY DEF OpenOutput, OnWire
<1>2. /\ s \in SlotType /\ s.soc = slot[i].soc /\ s.link = slot[i].link
      /\ s.st = "transfer" /\ s.code = slot[i].code
      /\ s.locked = slot[i].locked /\ s.early = slot[i].early
  BY <1>1, OnWireSlot DEF SlotType
<1> HIDE DEF s
<1>3. Sound(s) /\ InUse(s)
  BY <1>1, <1>2, OnWireSlot DEF IInv, SlotsSound, Sound, InUse
<1> QED BY <1>1, <1>2, <1>3, OnWireSlot, Receives

(* The copy of the cache is good, or cannot be read. *)
LEMMA NotModifiedStep ==
  ASSUME IInv, NEW i \in Slots, NotModified(i)
  PROVE  IInv'
<1>1. PICK c \in Positive \cup {"invalid"}, k \in BOOLEAN :
        LET s == [slot[i] EXCEPT !.st = "ready", !.code = c, !.ka = k]
        IN  /\ slot' = [slot EXCEPT ![i] = [s EXCEPT !.final = c # "invalid"]]
            /\ cached' = cached \cup Offered(s)
  BY DEF NotModified
<1>2. NetStep(i) /\ slot[i].st \in OnWire /\ open' = open
  BY DEF NotModified, OnWire
<1> DEFINE s == [slot[i] EXCEPT !.st = "ready", !.code = c, !.ka = k]
           d == [s EXCEPT !.final = c # "invalid"]
<1>3. slot' = [slot EXCEPT ![i] = d] /\ cached' = cached \cup Offered(s)
  BY <1>1
<1>4. /\ s \in SlotType /\ s.soc = slot[i].soc /\ s.link = slot[i].link
      /\ s.st = "ready" /\ s.code # "failed"
      /\ s.locked = slot[i].locked /\ s.early = slot[i].early
  BY <1>2, OnWireSlot DEF SlotType, Statuses, Codes, Positive
<1> HIDE DEF s
<1>5. /\ d \in SlotType /\ d.soc = slot[i].soc /\ d.link = slot[i].link
      /\ d.st = "ready" /\ d.code # "failed"
      /\ d.locked = slot[i].locked /\ d.early = slot[i].early
  BY <1>4 DEF SlotType
<1> HIDE DEF d
<1>6. Sound(s) /\ Sound(d) /\ InUse(d)
  BY <1>2, <1>4, <1>5, OnWireSlot DEF Sound, InUse
<1>7. cached' \subseteq Links
  BY <1>2, <1>3, <1>4, <1>6, OnWireSlot, OfferedLinks
<1> QED BY <1>2, <1>3, <1>5, <1>6, <1>7, OnWireSlot, Receives

(* The result of a thread is collected. *)
LEMMA FtpCollectStep ==
  ASSUME IInv, NEW i \in Slots, FtpCollect(i)
  PROVE  IInv'
<1> DEFINE s == [slot[i] EXCEPT !.st = "ready"]
           d == [s EXCEPT !.final = s.code = "ok"]
<1>1. /\ NetStep(i) /\ slot[i].st = "ftpready" /\ open' = open
      /\ slot' = [slot EXCEPT ![i] = d]
      /\ cached' = cached \cup Offered(s)
  BY DEF FtpCollect
<1>2. /\ slot[i] \in SlotType /\ slot[i].link \in Links /\ slot[i].soc = NoSock
      /\ InUse(slot[i]) /\ slot[i].st # "ftp" /\ cached \subseteq Links
  BY <1>1 DEF IInv, TypeOK, SlotsSound, Sound, InUse
<1>3. /\ s \in SlotType /\ s.soc = slot[i].soc /\ s.link = slot[i].link
      /\ s.st = "ready" /\ s.locked = slot[i].locked /\ s.early = slot[i].early
  BY <1>2 DEF SlotType, Statuses
<1> HIDE DEF s
<1>4. /\ d \in SlotType /\ d.soc = slot[i].soc /\ d.link = slot[i].link
      /\ d.st = "ready" /\ d.locked = slot[i].locked /\ d.early = slot[i].early
  BY <1>3 DEF SlotType
<1> HIDE DEF d
<1>5. Sound(s) /\ Sound(d) /\ InUse(d)
  BY <1>2, <1>3, <1>4 DEF Sound, InUse
<1>6. cached' \subseteq Links
  BY <1>1, <1>2, <1>3, <1>5, OfferedLinks
<1> QED BY <1>1, <1>2, <1>4, <1>5, <1>6, Receives

(* The end of a body: the slot is finished, without its connection. *)
LEMMA Finishes ==
  ASSUME IInv, NEW i \in Slots, NetStep(i), slot[i].st = "transfer",
         NEW s \in SlotType, s.st = "ready", s.link = slot[i].link,
         s.locked = slot[i].locked, s.early = slot[i].early,
         MayDeleteHttp(i, s), cached' \subseteq Links
  PROVE  IInv'
<1>1. slot[i].st \in OnWire
  BY DEF OnWire
<1>2. SlotsSound' /\ Frame(i) /\ slot'[i] = Hangup(s)
  BY <1>1, OnWireSlot, MayDeleteHttps DEF IInv
<1>3. /\ slot'[i].st = "ready" /\ slot'[i].link = slot[i].link
      /\ slot'[i].locked = slot[i].locked /\ slot'[i].early = slot[i].early
  BY <1>2, HangupType
<1>4. UNCHANGED <<stored, ghost, ftp, lk, tries, call, eng, budget, stop>>
  BY DEF NetStep
<1> QED BY <1>1, <1>2, <1>3, <1>4, OnWireSlot, NetPlace, SlotMoves DEF NetStep, InUse

(* The body ends, complete or short. *)
LEMMA BodyEndStep ==
  ASSUME IInv, NEW i \in Slots, NEW short \in BOOLEAN, BodyEnd(i, short)
  PROVE  IInv'
<1> DEFINE s == [slot[i] EXCEPT !.st = "ready"]
           d == [s EXCEPT !.final = @ \/ s.kind # "delayed"]
           f == [d EXCEPT !.code = "failed"]
<1>1. NetStep(i) /\ slot[i].st = "transfer" /\ slot[i].st \in OnWire
  BY DEF BodyEnd, OnWire
<1>2. \/ MayDeleteHttp(i, f) /\ UNCHANGED cached
      \/ MayDeleteHttp(i, d) /\ cached' = cached \cup Offered(s)
  BY DEF BodyEnd
<1>3. /\ s \in SlotType /\ s.st = "ready" /\ s.link = slot[i].link
      /\ s.locked = slot[i].locked /\ s.early = slot[i].early
      /\ s.soc = slot[i].soc
  BY <1>1, OnWireSlot DEF SlotType, Statuses
<1>4. /\ d \in SlotType /\ d.st = "ready" /\ d.link = slot[i].link
      /\ d.locked = slot[i].locked /\ d.early = slot[i].early
  BY <1>3 DEF SlotType
<1> HIDE DEF d
<1>5. /\ f \in SlotType /\ f.st = "ready" /\ f.link = slot[i].link
      /\ f.locked = slot[i].locked /\ f.early = slot[i].early
  BY <1>4 DEF SlotType, Codes
<1> HIDE DEF f
<1>6. cached \subseteq Links /\ Offered(s) \subseteq Links
  BY <1>1, <1>3, OnWireSlot DEF Offered
<1>7. CASE MayDeleteHttp(i, f) /\ UNCHANGED cached
  BY <1>1, <1>5, <1>6, <1>7, Finishes
<1>8. CASE MayDeleteHttp(i, d) /\ cached' = cached \cup Offered(s)
  BY <1>1, <1>4, <1>6, <1>8, Finishes
<1> QED BY <1>2, <1>7, <1>8

(* A chunked body ends: the connection stays in the slot, or is closed. *)
LEMMA ChunkEndStep ==
  ASSUME IInv, NEW i \in Slots, ChunkEnd(i)
  PROVE  IInv'
<1> DEFINE s == [slot[i] EXCEPT !.st = "ready"]
           d == [s EXCEPT !.final = @ \/ s.kind # "delayed"]
           f == [d EXCEPT !.code = "invalid"]
<1>1. NetStep(i) /\ slot[i].st = "transfer" /\ slot[i].st \in OnWire
  BY DEF ChunkEnd, OnWire
<1>2. \/ slot' = [slot EXCEPT ![i] = d] /\ open' = open /\ cached' = cached \cup Offered(s)
      \/ Close(i, f) /\ cached' \in {cached, cached \cup Offered(s)}
      \/ slot' = [slot EXCEPT ![i] = f] /\ open' = open /\ cached' = cached
  BY DEF ChunkEnd
<1>3. /\ s \in SlotType /\ s.st = "ready" /\ s.link = slot[i].link
      /\ s.locked = slot[i].locked /\ s.early = slot[i].early
      /\ s.soc = slot[i].soc
  BY <1>1, OnWireSlot DEF SlotType, Statuses
<1>4. /\ d \in SlotType /\ d.st = "ready" /\ d.link = slot[i].link
      /\ d.locked = slot[i].locked /\ d.early = slot[i].early
      /\ d.soc = slot[i].soc /\ d.code = slot[i].code
  BY <1>3 DEF SlotType
<1> HIDE DEF d
<1>5. /\ f \in SlotType /\ f.st = "ready" /\ f.link = slot[i].link
      /\ f.locked = slot[i].locked /\ f.early = slot[i].early
      /\ f.soc = slot[i].soc /\ f.code = "invalid"
  BY <1>4 DEF SlotType, Codes
<1> HIDE DEF f
<1>6. cached \subseteq Links /\ Offered(s) \subseteq Links
  BY <1>1, <1>3, OnWireSlot DEF Offered
<1> HIDE DEF s
<1>7. Sound(d) /\ InUse(d) /\ Sound(f) /\ InUse(f)
  BY <1>1, <1>4, <1>5, OnWireSlot DEF IInv, SlotsSound, Sound, InUse
<1>8. CASE slot' = [slot EXCEPT ![i] = d] /\ open' = open /\ cached' = cached \cup Offered(s)
  <2>1. cached' \subseteq Links
    BY <1>6, <1>8
  <2> QED BY <1>1, <1>4, <1>7, <1>8, <2>1, OnWireSlot, Receives
<1>9. CASE Close(i, f) /\ cached' \in {cached, cached \cup Offered(s)}
  <2>1. cached' \subseteq Links /\ MayDeleteHttp(i, f)
    BY <1>6, <1>9 DEF MayDeleteHttp
  <2> QED BY <1>1, <1>5, <2>1, Finishes
<1>10. CASE slot' = [slot EXCEPT ![i] = f] /\ open' = open /\ cached' = cached
  <2>1. cached' \subseteq Links
    BY <1>6, <1>10
  <2> QED BY <1>1, <1>5, <1>7, <1>10, <2>1, OnWireSlot, Receives
<1> QED BY <1>2, <1>8, <1>9, <1>10

(* back_wait returns. *)
LEMMA WaitReturnsStep ==
  ASSUME IInv, WaitReturns
  PROVE  IInv'
<1>1. SlotsSound' /\ StoredSound' /\ Held' /\ Threads'
  BY DEF IInv, SlotsSound, SocketOwnership, Sound, InUse, StoredSound, Held,
         Threads, WaitReturns
<1>2. Control' /\ Unplugged' /\ call' \in CallType
  BY IdleCall DEF IInv, WaitReturns
<1>3. TypeOK'
  BY <1>2 DEF IInv, TypeOK, WaitReturns
<1> QED BY <1>1, <1>2, <1>3 DEF IInv

(* All the events of the sockets. *)
LEMMA EventsStep ==
  ASSUME IInv, NEW i \in Slots, Events(i)
  PROVE  IInv'
BY BrokenStep, ConnectedStep, HeadersStep, NotModifiedStep, OpenOutputStep,
   BodyEndStep, ChunkEndStep, FtpCollectStep DEF Events

(* A thread writes into the slot it was given, and nothing else. *)
LEMMA FtpThreadEndsStep ==
  ASSUME IInv, NEW t \in ftp, FtpThreadEnds(t)
  PROVE  IInv'
<1>1. t \in [b : Slots, link : Links] /\ ftp \subseteq [b : Slots, link : Links]
  BY DEF IInv, TypeOK
<1>2. /\ ftp' = ftp \ {t}
      /\ UNCHANGED <<open, stored, ghost, lk, tries, cached, call, eng, budget, stop>>
  BY DEF FtpThreadEnds
<1>3. CASE eng.mode = "end"
  <2>1. slot' = slot
    BY <1>3 DEF FtpThreadEnds
  <2> QED
    BY <1>2, <1>3, <2>1 DEF IInv, TypeOK, SlotsSound, SocketOwnership, Sound, InUse,
         StoredSound, Control, Unplugged, Held, Threads
<1>4. CASE eng.mode # "end"
  <2>1. PICK c \in {"ok", "failed"} :
          slot' = [slot EXCEPT ![t.b].st = "ftpready", ![t.b].code = c]
    BY <1>4 DEF FtpThreadEnds
  <2> DEFINE i == t.b
             s == [slot[i] EXCEPT !.st = "ftpready", !.code = c]
  <2>2. i \in Slots /\ slot[i] \in SlotType /\ slot[i].st = "ftp" /\ slot[i].link = t.link
        /\ t.link \in Links
    BY <1>1, <1>4 DEF IInv, TypeOK, Threads
  <2>3. slot' = [slot EXCEPT ![i] = s]
    BY <2>1, <2>2 DEF IInv, TypeOK
  <2>4. /\ s \in SlotType /\ s.soc = slot[i].soc /\ s.link = slot[i].link
        /\ s.st = "ftpready" /\ s.locked = slot[i].locked /\ s.early = slot[i].early
    BY <2>2 DEF SlotType, Statuses, Busy, Codes
  <2> HIDE DEF s
  <2>5. Sound(s)
    BY <2>2, <2>4 DEF IInv, SlotsSound, Sound, InUse
  <2>6. SlotsSound' /\ Frame(i) /\ slot'[i] = s
    BY <1>2, <2>2, <2>3, <2>4, <2>5, Keeps DEF IInv
  <2>7. TypeOK' /\ StoredSound' /\ Control'
    BY <1>2, <2>6 DEF IInv, TypeOK, SlotsSound, StoredSound, Control
  <2>8. Unplugged'
    BY <1>2, <2>2, <2>4, <2>6 DEF IInv, Unplugged, Frame, InUse
  <2>9. Held'
    <3>1. eng.mode = "hold" /\ eng.b = i => slot'[i].locked /\ slot'[i].early
      BY <2>4, <2>6 DEF IInv, Held
    <3> QED BY <1>2, <2>2, <2>4, <2>6, <3>1, HeldKept DEF IInv, InUse
  <2>10. Threads'
    <3> SUFFICES ASSUME NEW v \in ftp, v # t
                 PROVE  slot'[v.b].link = v.link /\ slot'[v.b].st = "ftp"
      BY <1>2 DEF Threads
    <3>1. slot[v.b].link = v.link /\ slot[v.b].st = "ftp" /\ v.b \in Slots
      BY <1>1, <1>4 DEF IInv, Threads
    <3>2. v.b # t.b
      BY <1>1, <2>2, <3>1
    <3> QED BY <2>6, <3>1, <3>2 DEF Frame, InUse
  <2> QED BY <2>6, <2>7, <2>8, <2>9, <2>10 DEF IInv
<1> QED BY <1>3, <1>4

-----------------------------------------------------------------------------
(* The engine *)

(* The user cancels a file. *)
LEMMA CancelFileStep ==
  ASSUME IInv, NEW i \in Slots, CancelFile(i)
  PROVE  IInv'
<1> DEFINE s == Failed(slot[i], "invalid")
<1>1. /\ call.at = "idle" /\ eng.mode = "fetch"
      /\ slot[i].st \in Busy \ {"ftp"} /\ Put(i, s) /\ cached' = cached
      /\ UNCHANGED <<stored, ghost, ftp, lk, tries, call, eng, budget, stop>>
  BY DEF CancelFile, Ready
<1>2. slot[i] \in SlotType /\ InUse(slot[i]) /\ slot[i].st # "ftp" /\ slot[i].link \in Links
  BY <1>1 DEF IInv, SlotsSound, Sound, InUse, OnWire, Busy
<1>3. /\ s \in SlotType /\ s.soc = NoSock /\ s.st = "ready" /\ s.link = slot[i].link
      /\ s.locked = slot[i].locked /\ s.early = slot[i].early
  BY <1>2, FailedType DEF Codes
<1> HIDE DEF s
<1>4. Sound(s)
  BY <1>2, <1>3 DEF Sound, InUse
<1>5. SlotsSound' /\ Frame(i) /\ slot'[i] = s
  BY <1>1, <1>3, <1>4, Unplugs DEF IInv
<1> QED BY <1>1, <1>2, <1>3, <1>5, SlotMoves DEF IInv, TypeOK, InUse

(* The pool is left alone. *)
LEMMA PoolAlone ==
  ASSUME IInv, UNCHANGED <<slot, open, stored, ftp>>
  PROVE  SlotsSound' /\ StoredSound' /\ (eng.mode # "end" => Threads')
BY DEF IInv, SlotsSound, SocketOwnership, Sound, InUse, StoredSound, Threads

(* A call of the pool that starts. *)
LEMMA BeginCall ==
  ASSUME NEW op \in Ops, NEW l \in Links \cup {NoLink}, NEW kd \in Kinds,
         Begin(op, l, kd)
  PROVE  /\ call' \in CallType
         /\ call'.at = "sweep"
         /\ call'.op = op
         /\ call'.link = l
         /\ Unplugged'
BY Values DEF Begin, CallType, Places, Unplugged

(* What back_fill may add is between none and the limit of the user. *)
LEMMA PluggableType == Pluggable \in 0 .. MaxSoc
<1>1. IsFiniteSet(Slots)
  BY FS_Interval, PoolAssumption DEF Slots
<1>2. Free \subseteq Slots /\ Receiving \subseteq Slots
  BY DEF Free, Receiving
<1>3. Cardinality(Free) \in Nat /\ Cardinality(Receiving) \in Nat
  BY <1>1, <1>2, FS_Subset, FS_CardinalityType
<1> QED BY <1>3, PoolAssumption DEF Pluggable

(* back_fill starts and ends. *)
LEMMA FillSteps ==
  ASSUME IInv, StartFill \/ FillEnds
  PROVE  IInv'
<1>1. /\ UNCHANGED <<slot, open, stored, ghost, ftp, lk, tries, cached, call, eng, stop>>
      /\ eng.mode \notin {"end", "panic"}
      /\ budget' = 0 \/ budget' = Pluggable
      /\ call.at = "idle"
  BY DEF StartFill, FillEnds, IInv, Control, Ready
<1>2. budget' \in 0 .. MaxSoc
  BY <1>1, PluggableType, PoolAssumption
<1>3. TypeOK' /\ Control' /\ Unplugged' /\ Held'
  BY <1>1, <1>2 DEF IInv, TypeOK, Control, Unplugged, Held
<1> QED BY <1>1, <1>3, PoolAlone DEF IInv

(* back_fill adds a link. *)
LEMMA FillAddStep ==
  ASSUME IInv, NEW l \in Links, FillAdd(l)
  PROVE  IInv'
<1>1. /\ UNCHANGED <<slot, open, stored, ghost, ftp, lk, tries, cached, eng, stop>>
      /\ Begin("add", l, "final")
      /\ budget > 0 /\ budget' = budget - 1
      /\ eng.mode \notin {"end", "panic"}
  BY DEF FillAdd, IInv, Control
<1>2. /\ call' \in CallType /\ call'.at = "sweep" /\ call'.op = "add" /\ call'.link = l
      /\ Unplugged'
  BY <1>1, BeginCall DEF Ops, Kinds
<1>3. budget' \in 0 .. MaxSoc
  BY <1>1, PoolAssumption DEF IInv, TypeOK
<1>4. TypeOK' /\ Control' /\ Held'
  BY <1>1, <1>2, <1>3 DEF IInv, TypeOK, Control, Held
<1> QED BY <1>1, <1>2, <1>4, PoolAlone DEF IInv

(* The steps that only start a call of back_wait. *)
LEMMA WaitSteps ==
  ASSUME IInv, MainWait \/ FetchWait \/ FetchPause \/ HoldWait
  PROVE  IInv'
<1>1. /\ UNCHANGED <<slot, open, stored, ghost, ftp, lk, tries, cached, budget, stop>>
      /\ Begin("wait", NoLink, "final")
      /\ eng.mode \notin {"end", "panic"}
      /\ \/ eng' = eng
         \/ eng.mode \in {"begin", "fetch"} /\ eng' = [eng EXCEPT !.mode = "fetch"]
  BY DEF MainWait, FetchWait, FetchPause, HoldWait, Fetching, Holding, Calls
<1>2. /\ call' \in CallType /\ call'.at = "sweep" /\ call'.op = "wait" /\ Unplugged'
  BY <1>1, BeginCall DEF Ops, Kinds
<1>3. TypeOK' /\ Control' /\ Held'
  BY <1>1, <1>2 DEF IInv, TypeOK, EngType, Modes, Control, Held
<1> QED BY <1>1, <1>2, <1>3, PoolAlone DEF IInv

(* The steps that turn to a link. *)
LEMMA BeginSteps ==
  ASSUME IInv, NEW l \in Links, BeginFetch(l) \/ BeginType(l)
  PROVE  IInv'
<1>1. /\ UNCHANGED <<slot, open, stored, ghost, ftp, lk, tries, cached, budget, stop>>
      /\ eng.mode = "main" /\ call.at = "idle"
      /\ \/ /\ eng' = [mode |-> "begin", link |-> l, b |-> NoSlot]
            /\ UNCHANGED call \/ Begin("add", l, "final")
         \/ /\ eng' = [mode |-> "type", link |-> l, b |-> NoSlot]
            /\ lk[l] = "new"
            /\ Begin("addif", l, "delayed")
  BY DEF BeginFetch, BeginType, Calls, Ready
<1>2. \/ UNCHANGED call
      \/ /\ call' \in CallType /\ call'.at = "sweep" /\ call'.link = l /\ Unplugged'
  BY <1>1, BeginCall DEF Ops, Kinds
<1>3. call' \in CallType /\ Unplugged'
  BY <1>1, <1>2 DEF IInv, TypeOK, Unplugged
<1>4. TypeOK'
  BY <1>1, <1>3 DEF IInv, TypeOK, EngType, Modes
<1>5. Control' /\ Held'
  BY <1>1, <1>2 DEF IInv, Control, Held
<1> QED BY <1>1, <1>3, <1>4, <1>5, PoolAlone DEF IInv

(* A swapped answer comes back into a slot, without a connection. *)
LEMMA FetchThawStep ==
  ASSUME IInv, FetchThaw
  PROVE  IInv'
<1>1. PICK s \in InStore(eng.link, "final"), q \in Slots : Wake(s, q)
  BY DEF FetchThaw
<1> DEFINE u == [s EXCEPT !.locked = TRUE]
<1>2. q \in Search /\ Put(q, u) /\ stored' = stored \ {s} /\ s \in stored
  BY <1>1 DEF Wake, InStore
<1>3. /\ s \in SlotType /\ s.st = "ready" /\ s.link \in Links /\ s.soc = NoSock
  BY <1>2 DEF IInv, TypeOK, StoredSound
<1>4. u \in SlotType /\ u.st = "ready" /\ u.link \in Links /\ u.soc = NoSock
  BY <1>3 DEF SlotType
<1> HIDE DEF u
<1>5. Sound(u)
  BY <1>4 DEF Sound, InUse
<1>6. SlotsSound' /\ Frame(q) /\ ~InUse(slot[q])
  BY <1>2, <1>4, <1>5, Unplugs, SearchFinds DEF IInv
<1>7. /\ eng.mode \in {"begin", "fetch"} /\ eng' = [eng EXCEPT !.mode = "fetch"]
      /\ UNCHANGED <<ghost, ftp, lk, tries, cached, call, budget, stop>>
      /\ call.at = "idle"
  BY DEF FetchThaw, Fetching, Ready
<1>8. Threads'
  BY <1>6, <1>7, ThreadsKept DEF IInv, InUse
<1>9. TypeOK' /\ StoredSound'
  BY <1>2, <1>6, <1>7 DEF IInv, TypeOK, SlotsSound, StoredSound, EngType, Modes
<1>10. Control' /\ Unplugged' /\ Held'
  BY <1>7 DEF IInv, TypeOK, EngType, Control, Unplugged, Held
<1> QED BY <1>6, <1>8, <1>9, <1>10 DEF IInv

(* The answer is lost, its key stays. *)
LEMMA ThawFailsStep ==
  ASSUME IInv, ThawFails
  PROVE  IInv'
<1>1. PICK s \in InStore(eng.link, "final") :
        stored' = stored \ {s} /\ ghost' = ghost \cup {<<s.link, s.kind>>}
  BY DEF ThawFails
<1>2. s \in SlotType /\ s.link \in Links /\ s.kind \in Kinds
  BY DEF IInv, TypeOK, StoredSound, InStore, SlotType
<1>3. /\ eng.mode \in {"begin", "fetch"} /\ eng' = [eng EXCEPT !.mode = "fetch"]
      /\ UNCHANGED <<slot, open, ftp, lk, tries, cached, call, budget, stop>>
      /\ call.at = "idle"
  BY DEF ThawFails, Fetching, Ready
<1>4. SlotsSound' /\ StoredSound' /\ Threads'
  BY <1>1, <1>3 DEF IInv, SlotsSound, SocketOwnership, Sound, InUse, StoredSound, Threads
<1>5. TypeOK'
  BY <1>1, <1>2, <1>3 DEF IInv, TypeOK, EngType, Modes
<1>6. Control' /\ Unplugged' /\ Held'
  BY <1>3 DEF IInv, TypeOK, EngType, Control, Unplugged, Held
<1> QED BY <1>4, <1>5, <1>6 DEF IInv

(* The engine goes back to its main loop. *)
LEMMA BackToMain ==
  ASSUME IInv, eng' = InMain, call.at = "idle", budget = 0,
         UNCHANGED <<call, budget, stop, stored, ghost>>,
         SlotsSound', Threads', ftp' = ftp, cached' \subseteq Links,
         lk' \in [Links -> LinkStates], tries' \in [Links -> 0 .. Retries],
         \A l \in Links : lk'[l] = "new" => lk[l] = "new"
  PROVE  IInv'
<1>1. eng' \in EngType /\ eng'.mode = "main"
  BY Values DEF InMain, EngType, Modes
<1>2. TypeOK' /\ StoredSound'
  BY <1>1 DEF IInv, TypeOK, SlotsSound, StoredSound
<1>3. Control' /\ Unplugged' /\ Held'
  BY <1>1 DEF IInv, Control, Unplugged, Held
<1> QED BY <1>2, <1>3 DEF IInv

(* The link is skipped. *)
LEMMA FetchGoneStep ==
  ASSUME IInv, FetchGone
  PROVE  IInv'
<1>1. /\ eng' = InMain /\ call.at = "idle" /\ budget = 0 /\ eng.mode # "end"
      /\ lk' = IF lk[eng.link] = "recorded" THEN [lk EXCEPT ![eng.link] = "skipped"] ELSE lk
      /\ UNCHANGED <<slot, open, stored, ghost, ftp, tries, cached, call, budget, stop>>
  BY DEF FetchGone, Fetching, Ready
<1>2. /\ lk' \in [Links -> LinkStates]
      /\ \A l \in Links : lk'[l] = "new" => lk[l] = "new"
  BY <1>1 DEF IInv, TypeOK, LinkStates
<1> QED BY <1>1, <1>2, PoolAlone, BackToMain DEF IInv, TypeOK

(* The slot of a finished answer is released. *)
LEMMA Released ==
  ASSUME IInv, NEW b \in Slots, InUse(slot[b]), slot[b].st # "ftp", eng.mode # "end",
         Delete(b) \/ MayDelete(b), ftp' = ftp
  PROVE  SlotsSound' /\ Threads' /\ cached' \subseteq Links
<1>1. MayDelete(b)
  BY DEF MayDelete
<1>2. /\ SlotsSound' /\ Frame(b) /\ cached' = cached \cup Offered(slot[b])
  BY <1>1, MayDeletes DEF IInv
<1>3. Offered(slot[b]) \subseteq Links
  BY OfferedLinks DEF IInv, SlotsSound
<1>4. Threads'
  BY <1>2, ThreadsKept DEF IInv
<1> QED BY <1>2, <1>3, <1>4 DEF IInv, TypeOK

(* The answer of the current link. *)
LEMMA ArrivedSlot ==
  ASSUME IInv, NEW b \in Slots, Arrived(b)
  PROVE  /\ call.at = "idle" /\ budget = 0 /\ eng.mode \in {"begin", "fetch"}
         /\ eng.link \in Links /\ eng' = InMain
         /\ slot[b].st = "ready" /\ InUse(slot[b]) /\ slot[b].link = eng.link
         /\ UNCHANGED <<stored, ghost, ftp, call, budget, stop>>
BY DEF Arrived, Fetching, Ready, InSlots, InUse, IInv, Control

(* The answer is delivered, retried or given up. *)
LEMMA DeliverSteps ==
  ASSUME IInv, NEW b \in Slots, Deliver(b) \/ DeliverRetry(b) \/ DeliverError(b)
  PROVE  IInv'
<1>1. Arrived(b) /\ (Delete(b) \/ MayDelete(b))
  BY DEF Deliver, DeliverRetry, DeliverError
<1>2. SlotsSound' /\ Threads' /\ cached' \subseteq Links
  BY <1>1, ArrivedSlot, Released
<1>3. PICK how \in {"taken", "answered", "failed"} : lk' = lk \/ Settle(eng.link, how)
  BY DEF Deliver, DeliverRetry, DeliverError
<1>4. /\ lk' \in [Links -> LinkStates]
      /\ \A l \in Links : lk'[l] = "new" => lk[l] = "new"
  BY <1>3 DEF IInv, TypeOK, LinkStates, Settle
<1>5. tries' \in [Links -> 0 .. Retries]
  <2>1. CASE UNCHANGED tries
    BY <2>1 DEF IInv, TypeOK
  <2>2. CASE tries[eng.link] > 0 /\ tries' = [tries EXCEPT ![eng.link] = @ - 1]
    <3>1. tries[eng.link] \in 0 .. Retries
      BY <1>1, ArrivedSlot DEF IInv, TypeOK
    <3>2. tries[eng.link] - 1 \in 0 .. Retries
      BY <2>2, <3>1, PoolAssumption
    <3> QED BY <2>2, <3>2 DEF IInv, TypeOK
  <2> QED BY <2>1, <2>2 DEF Deliver, DeliverRetry, DeliverError
<1> QED BY <1>1, <1>2, <1>4, <1>5, ArrivedSlot, BackToMain

(* The slots of a banned host fail; none of them belongs to a thread. *)
LEMMA DeliverBanStep ==
  ASSUME IInv, NEW b \in Slots, DeliverBan(b)
  PROVE  IInv'
<1> DEFINE h == HostOf[eng.link]
           F(q) == Failed(slot[q], "failed")
<1>1. /\ Arrived(b) /\ slot[b].code = "failed"
      /\ lk' = [l \in Links |->
                  IF l = eng.link THEN "failed"
                  ELSE IF HostOf[l] = h /\ lk[l] = "recorded" THEN "banned"
                  ELSE lk[l]]
      /\ slot' = [q \in Slots |->
                    IF q = b THEN FreeSlot ELSE IF OfHost(q, h) THEN F(q) ELSE slot[q]]
      /\ open' = open \ {slot[q].soc : q \in {r \in Slots : OfHost(r, h)}}
      /\ UNCHANGED <<tries, cached>>
  BY DEF DeliverBan
<1>2. slot[b].soc = NoSock /\ slot[b].st = "ready"
  BY <1>1, ArrivedSlot DEF IInv, SlotsSound, Sound
<1>3. \A q \in Slots : OfHost(q, h) =>
        /\ slot[q] \in SlotType /\ slot[q].link \in Links /\ slot[q].st # "ftp"
  BY DEF IInv, SlotsSound, Sound, InUse, OfHost, Address, Scheme
<1>4. \A q \in Slots : OfHost(q, h) =>
        /\ F(q) \in SlotType /\ F(q).soc = NoSock /\ F(q).st = "ready"
        /\ F(q).link = slot[q].link
  BY <1>3, FailedType DEF Codes
<1> HIDE DEF F, h
<1>5. slot' \in [Slots -> SlotType]
  BY <1>1, <1>4, FreeSlotType DEF IInv, SlotsSound
<1>6. \A q \in Slots :
        \/ q = b /\ slot'[q] = FreeSlot
        \/ q # b /\ OfHost(q, h) /\ slot'[q] = F(q)
        \/ q # b /\ ~OfHost(q, h) /\ slot'[q] = slot[q]
  BY <1>1
<1>7. \A q \in Slots : Sound(slot'[q])
  <2> SUFFICES ASSUME NEW q \in Slots
               PROVE  Sound(slot'[q])
    OBVIOUS
  <2>1. CASE slot'[q] = FreeSlot
    BY <2>1, FreeSlotType DEF Sound, InUse
  <2>2. CASE OfHost(q, h) /\ slot'[q] = F(q)
    BY <1>3, <1>4, <2>2 DEF Sound, InUse
  <2>3. CASE slot'[q] = slot[q]
    BY <2>3 DEF IInv, SlotsSound
  <2> QED BY <1>6, <2>1, <2>2, <2>3
<1>8. /\ \A q \in Slots : slot'[q].soc \in {slot[q].soc, NoSock}
      /\ \A q \in Slots : OfHost(q, h) => slot'[q].soc = NoSock
      /\ \A q \in Slots : ~OfHost(q, h) => slot'[q].soc = slot[q].soc
  BY <1>2, <1>4, <1>6, FreeSlotType
<1>9. SocketOwnership' /\ open' \subseteq Socks
  BY <1>1, <1>8 DEF IInv, SlotsSound, SocketOwnership
<1>10. SlotsSound'
  BY <1>5, <1>7, <1>9 DEF SlotsSound, Sound, InUse
<1>11. Threads'
  <2> SUFFICES ASSUME NEW t \in ftp
               PROVE  slot'[t.b].link = t.link /\ slot'[t.b].st = "ftp"
    BY <1>1, ArrivedSlot DEF Threads
  <2>1. slot[t.b].link = t.link /\ slot[t.b].st = "ftp" /\ t.b \in Slots
    BY <1>1, ArrivedSlot DEF IInv, TypeOK, Threads
  <2>2. t.b # b /\ ~OfHost(t.b, h)
    BY <1>2, <1>3, <2>1
  <2> QED BY <1>6, <2>1, <2>2
<1>12. lk' \in [Links -> LinkStates] /\ \A l \in Links : lk'[l] = "new" => lk[l] = "new"
  BY <1>1 DEF IInv, TypeOK, LinkStates
<1>13. tries' \in [Links -> 0 .. Retries] /\ cached' \subseteq Links
  BY <1>1 DEF IInv, TypeOK
<1> QED BY <1>1, <1>10, <1>11, <1>12, <1>13, ArrivedSlot, BackToMain

(* The entry of a link whose type is awaited is not that of a thread. *)
LEMMA TypingSlot ==
  ASSUME IInv, NEW q \in InSlots(eng.link), eng.mode \in {"type", "retype", "hold"}
  PROVE  /\ q \in Slots /\ slot[q] \in SlotType /\ slot[q].link = eng.link
         /\ InUse(slot[q]) /\ slot[q].st # "ftp"
         /\ eng.link \in Links /\ eng.link \in UntypedLinks
BY TypedSlot DEF InSlots, InUse, IInv, Control, TypeOK

(* The slot the engine holds is the entry of its link. *)
LEMMA HoldingSlot ==
  ASSUME IInv, Holding
  PROVE  /\ eng.b \in InSlots(eng.link) /\ eng.mode = "hold"
         /\ call.at = "idle" /\ budget = 0
BY DEF Holding, Ready, IInv, Held, Control, InSlots, InUse

(* The slot is removed, and added again or not. *)
LEMMA TypeRestartStep ==
  ASSUME IInv, TypeRestart
  PROVE  IInv'
<1>1. PICK q \in InSlots(eng.link) :
        \/ /\ slot' = [slot EXCEPT ![q] = AliveSlot(slot[q].host, slot[q].soc)]
           /\ UNCHANGED open
        \/ Put(q, FreeSlot)
  BY DEF TypeRestart
<1>2. /\ eng.mode = "type" /\ budget = 0 /\ call.at = "idle"
      /\ UNCHANGED <<stored, ghost, ftp, tries, cached, budget, stop>>
  BY DEF TypeRestart, Typing, Ready
<1>3. SlotsSound' /\ Frame(q)
  BY <1>1, <1>2, TypingSlot, KeepsAlive, Deletes DEF IInv
<1>4. Threads'
  BY <1>2, <1>3, TypingSlot, ThreadsKept DEF IInv
<1>5. CASE /\ eng' = [eng EXCEPT !.mode = "retype"]
           /\ Begin("addif", eng.link, "guessed")
           /\ UNCHANGED lk
  <2>1. /\ call' \in CallType /\ call'.at = "sweep" /\ call'.op = "addif"
        /\ call'.link = eng.link /\ Unplugged'
    BY <1>2, <1>5, TypingSlot, BeginCall DEF Ops, Kinds
  <2>2. TypeOK' /\ StoredSound'
    BY <1>2, <1>3, <1>5, <2>1 DEF IInv, TypeOK, SlotsSound, StoredSound, EngType, Modes
  <2>3. Control' /\ Held'
    BY <1>2, <1>5, <2>1 DEF IInv, TypeOK, EngType, Control, Held
  <2> QED BY <1>3, <1>4, <2>1, <2>2, <2>3 DEF IInv
<1>6. CASE Settle(eng.link, "refused") /\ eng' = InMain /\ UNCHANGED call
  <2>1. /\ lk' \in [Links -> LinkStates]
        /\ \A l \in Links : lk'[l] = "new" => lk[l] = "new"
    BY <1>6 DEF IInv, TypeOK, LinkStates, Settle
  <2>2. cached' \subseteq Links /\ tries' \in [Links -> 0 .. Retries]
    BY <1>2 DEF IInv, TypeOK
  <2> QED BY <1>2, <1>3, <1>4, <1>6, <2>1, <2>2, BackToMain
<1> QED BY <1>5, <1>6 DEF TypeRestart

(* The slot is held and locked. *)
LEMMA TypeHoldStep ==
  ASSUME IInv, TypeHold
  PROVE  IInv'
<1>1. PICK q \in InSlots(eng.link) :
        /\ eng' = [eng EXCEPT !.mode = "hold", !.b = q]
        /\ slot' = [slot EXCEPT ![q].early = TRUE, ![q].locked = TRUE]
  BY DEF TypeHold
<1>2. /\ eng.mode \in {"type", "retype"} /\ call.at = "idle" /\ budget = 0
      /\ UNCHANGED <<open, stored, ghost, ftp, lk, tries, cached, call, budget, stop>>
  BY DEF TypeHold, Typing, Ready
<1> DEFINE s == [slot[q] EXCEPT !.early = TRUE, !.locked = TRUE]
<1>3. slot' = [slot EXCEPT ![q] = s]
  BY <1>1, <1>2, TypingSlot DEF IInv, TypeOK
<1>4. /\ s \in SlotType /\ s.soc = slot[q].soc /\ s.st = slot[q].st
      /\ s.link = slot[q].link /\ s.code = slot[q].code /\ s.host = slot[q].host
      /\ s.early /\ s.locked
  BY <1>2, TypingSlot DEF SlotType
<1> HIDE DEF s
<1>5. Sound(s)
  BY <1>2, <1>4, TypingSlot DEF IInv, SlotsSound, Sound, InUse
<1>6. SlotsSound' /\ Frame(q) /\ slot'[q] = s
  BY <1>2, <1>3, <1>4, <1>5, TypingSlot, Keeps DEF IInv
<1>7. Threads'
  BY <1>2, <1>6, TypingSlot, ThreadsKept DEF IInv
<1>8. /\ eng' \in EngType /\ eng'.mode = "hold" /\ eng'.b = q /\ eng'.link = eng.link
      /\ q \in Slots
  BY <1>1, <1>2, TypingSlot DEF IInv, TypeOK, EngType, Modes
<1>9. TypeOK' /\ StoredSound'
  BY <1>2, <1>6, <1>8 DEF IInv, TypeOK, SlotsSound, StoredSound
<1>10. Control' /\ Unplugged'
  BY <1>2, <1>8 DEF IInv, Control, Unplugged
<1>11. Held'
  BY <1>2, <1>4, <1>6, <1>8, TypingSlot DEF Held, InUse
<1> QED BY <1>6, <1>7, <1>9, <1>10, <1>11 DEF IInv

(* The engine releases its slot and goes on to record the link. *)
LEMMA ToRecord ==
  ASSUME IInv, Holding, eng' = [eng EXCEPT !.mode = "record", !.b = NoSlot],
         SlotsSound', Threads', cached' \subseteq Links,
         UNCHANGED <<stored, ghost, ftp, lk, tries, call, budget, stop>>
  PROVE  IInv'
<1>1. eng.mode = "hold" /\ call.at = "idle" /\ budget = 0
  BY HoldingSlot
<1>2. eng' \in EngType /\ eng'.mode = "record" /\ eng'.link = eng.link
  BY DEF IInv, TypeOK, EngType, Modes
<1>3. TypeOK' /\ StoredSound'
  BY <1>2 DEF IInv, TypeOK, SlotsSound, StoredSound
<1>4. Control' /\ Unplugged' /\ Held'
  BY <1>1, <1>2 DEF IInv, Control, Unplugged, Held
<1> QED BY <1>3, <1>4 DEF IInv

(* The link takes its final name. *)
LEMMA HoldNamedStep ==
  ASSUME IInv, HoldNamed
  PROVE  IInv'
<1> DEFINE b == eng.b
           s == [slot[b] EXCEPT !.locked = FALSE, !.kind = "final",
                                !.final = @ \/ slot[b].st = "ready"]
<1>1. /\ Holding /\ slot' = [slot EXCEPT ![b] = s]
      /\ cached' = cached \cup Offered(slot[b])
      /\ eng' = [eng EXCEPT !.mode = "record", !.b = NoSlot]
      /\ UNCHANGED <<open, stored, ghost, ftp, lk, tries, call, budget, stop>>
  BY DEF HoldNamed
<1>2. /\ b \in Slots /\ slot[b] \in SlotType /\ slot[b].st # "ftp" /\ eng.mode = "hold"
  BY <1>1, HoldingSlot, TypingSlot
<1>3. /\ s \in SlotType /\ s.soc = slot[b].soc /\ s.st = slot[b].st
      /\ s.link = slot[b].link /\ s.code = slot[b].code /\ s.host = slot[b].host
  BY <1>2 DEF SlotType, Kinds
<1> HIDE DEF s
<1>4. Sound(s)
  BY <1>2, <1>3 DEF IInv, SlotsSound, Sound, InUse
<1>5. SlotsSound' /\ Frame(b)
  BY <1>1, <1>2, <1>3, <1>4, Keeps DEF IInv
<1>6. Threads'
  BY <1>1, <1>2, <1>5, ThreadsKept DEF IInv
<1>7. cached' \subseteq Links
  BY <1>1, <1>2, OfferedLinks DEF IInv, SlotsSound, TypeOK
<1> QED BY <1>1, <1>5, <1>6, <1>7, ToRecord

(* The parsing is cancelled. *)
LEMMA HoldCancelledStep ==
  ASSUME IInv, HoldCancelled
  PROVE  IInv'
<1>1. /\ Holding /\ Delete(eng.b) /\ ftp' = ftp
      /\ eng' = [eng EXCEPT !.mode = "record", !.b = NoSlot]
      /\ UNCHANGED <<stored, ghost, ftp, lk, tries, call, budget, stop>>
  BY DEF HoldCancelled
<1>2. SlotsSound' /\ Threads' /\ cached' \subseteq Links
  BY <1>1, HoldingSlot, TypingSlot, Released
<1> QED BY <1>1, <1>2, ToRecord

(* The link is moved or refused, or recorded without a slot. *)
LEMMA HoldRefusals ==
  ASSUME IInv, HoldMoved \/ HoldRefused
  PROVE  IInv'
<1> DEFINE b == eng.b
<1>1. /\ Holding
      /\ \/ eng' = InMain /\ Settle(eng.link, "refused")
         \/ eng' = [eng EXCEPT !.mode = "record", !.b = NoSlot] /\ UNCHANGED lk
      /\ UNCHANGED <<stored, ghost, ftp, tries, call, budget, stop>>
  BY DEF HoldMoved, HoldRefused
<1>2. /\ b \in Slots /\ slot[b] \in SlotType /\ slot[b].st # "ftp" /\ InUse(slot[b])
      /\ eng.mode = "hold" /\ eng.link \in Links /\ call.at = "idle" /\ budget = 0
  BY <1>1, HoldingSlot, TypingSlot
<1>3. SlotsSound' /\ Threads' /\ cached' \subseteq Links
  <2>1. CASE HoldMoved
    BY <1>1, <1>2, <2>1, Released DEF HoldMoved
  <2>2. CASE HoldRefused
    <3> DEFINE s == [slot[b] EXCEPT !.locked = FALSE]
    <3>1. slot' = [slot EXCEPT ![b] = s] /\ open' = open /\ cached' = cached
      BY <2>2 DEF HoldRefused
    <3>2. /\ s \in SlotType /\ s.soc = slot[b].soc /\ s.st = slot[b].st
          /\ s.link = slot[b].link /\ s.code = slot[b].code /\ s.host = slot[b].host
      BY <1>2 DEF SlotType
    <3> HIDE DEF s
    <3>3. Sound(s)
      BY <1>2, <3>2 DEF IInv, SlotsSound, Sound, InUse
    <3>4. SlotsSound' /\ Frame(b)
      BY <1>2, <3>1, <3>2, <3>3, Keeps DEF IInv
    <3>5. Threads'
      BY <1>1, <1>2, <3>4, ThreadsKept DEF IInv
    <3> QED BY <3>1, <3>4, <3>5 DEF IInv, TypeOK
  <2> QED BY <2>1, <2>2
<1>4. CASE eng' = InMain /\ Settle(eng.link, "refused")
  <2>1. /\ lk' \in [Links -> LinkStates]
        /\ tries' \in [Links -> 0 .. Retries]
        /\ \A l \in Links : lk'[l] = "new" => lk[l] = "new"
    BY <1>1, <1>4 DEF IInv, TypeOK, LinkStates, Settle
  <2> QED BY <1>1, <1>2, <1>3, <1>4, <2>1, BackToMain
<1>5. CASE eng' = [eng EXCEPT !.mode = "record", !.b = NoSlot] /\ UNCHANGED lk
  BY <1>1, <1>3, <1>5, ToRecord
<1> QED BY <1>1, <1>4, <1>5

(* The link is recorded. *)
LEMMA RecordStep ==
  ASSUME IInv, Record
  PROVE  IInv'
<1>1. /\ Ready /\ eng.mode = "record" /\ eng' = InMain /\ Settle(eng.link, "recorded")
      /\ UNCHANGED <<slot, open, stored, ghost, ftp, tries, cached, call, budget, stop>>
  BY DEF Record
<1>2. /\ lk' \in [Links -> LinkStates]
      /\ \A l \in Links : lk'[l] = "new" => lk[l] = "new"
  BY <1>1 DEF IInv, TypeOK, LinkStates, Settle
<1> QED BY <1>1, <1>2, PoolAlone, BackToMain DEF IInv, TypeOK, Ready

(* The end of the mirror: every slot is emptied, every connection closed. *)
LEMMA FinishStep ==
  ASSUME IInv, Finish
  PROVE  IInv'
<1>1. /\ call.at = "idle" /\ budget = 0
      /\ slot' = [q \in Slots |-> FreeSlot]
      /\ open' = open \ {slot[q].soc : q \in Slots}
      /\ cached' = cached \cup UNION {Offered(slot[q]) : q \in Slots}
      /\ stored' = {} /\ ghost' = {}
      /\ eng' = [InMain EXCEPT !.mode = "end"]
      /\ UNCHANGED <<ftp, lk, tries, call, budget, stop>>
  BY DEF Finish, Ready
<1>2. slot' \in [Slots -> SlotType] /\ \A q \in Slots : slot'[q] = FreeSlot
  BY <1>1, FreeSlotType
<1>3. open' = {}
  BY <1>1 DEF IInv, SlotsSound, SocketOwnership
<1>4. SlotsSound'
  BY <1>2, <1>3, FreeSlotType DEF SlotsSound, SocketOwnership, Sound, InUse
<1>5. eng' \in EngType /\ eng'.mode = "end"
  BY <1>1, Values DEF InMain, EngType, Modes
<1>6. cached' \subseteq Links
  <2>1. \A q \in Slots : Offered(slot[q]) \subseteq Links
    BY OfferedLinks DEF IInv, SlotsSound
  <2> QED BY <1>1, <2>1 DEF IInv, TypeOK
<1>7. TypeOK' /\ StoredSound'
  BY <1>1, <1>4, <1>5, <1>6 DEF IInv, TypeOK, SlotsSound, StoredSound
<1>8. Control' /\ Unplugged' /\ Held' /\ Threads'
  BY <1>1, <1>5 DEF IInv, Control, Unplugged, Held, Threads
<1> QED BY <1>4, <1>7, <1>8 DEF IInv

(* The user stops the mirror. *)
LEMMA StopMirrorStep ==
  ASSUME IInv, StopMirror
  PROVE  IInv'
<1>1. UNCHANGED <<slot, open, stored, ghost, ftp, lk, tries, cached, call, eng, budget>>
      /\ stop' \in BOOLEAN
  BY DEF StopMirror
<1> QED BY <1>1 DEF IInv, TypeOK, SlotsSound, SocketOwnership, Sound, InUse,
         StoredSound, Control, Unplugged, Held, Threads

-----------------------------------------------------------------------------
(* The specification *)

(* The invariant holds at the start. *)
LEMMA Initially == Init => IInv
<1> SUFFICES ASSUME Init
             PROVE  IInv
  OBVIOUS
<1>1. slot \in [Slots -> SlotType] /\ \A q \in Slots : slot[q] = FreeSlot
  BY FreeSlotType DEF Init
<1>2. SlotsSound
  BY <1>1, FreeSlotType DEF Init, SlotsSound, SocketOwnership, Sound, InUse
<1>3. /\ eng \in EngType /\ eng.mode = "main"
      /\ call \in CallType /\ call.at = "idle"
  BY Values DEF Init, InMain, EngType, Modes, Idle, CallType, Ops, Places, Kinds
<1>4. lk \in [Links -> LinkStates] /\ \A l \in Links : lk[l] = "new" => l \in UntypedLinks
  BY DEF Init, LinkStates
<1>5. tries \in [Links -> 0 .. Retries] /\ budget \in 0 .. MaxSoc
  BY PoolAssumption DEF Init
<1>6. TypeOK
  BY <1>2, <1>3, <1>4, <1>5 DEF Init, TypeOK, SlotsSound
<1>7. StoredSound /\ Control /\ Unplugged /\ Held /\ Threads
  BY <1>3, <1>4 DEF Init, StoredSound, Control, Unplugged, Held, Threads
<1> QED BY <1>2, <1>6, <1>7 DEF IInv

(* Steps that change nothing. *)
LEMMA Stuttering ==
  ASSUME IInv, UNCHANGED vars
  PROVE  IInv'
BY DEF vars, IInv, TypeOK, SlotsSound, SocketOwnership, Sound, InUse,
       StoredSound, Control, Unplugged, Held, Threads

(* Every step keeps the invariant. *)
LEMMA Invariance ==
  ASSUME IInv, [Next]_vars
  PROVE  IInv'
<1>1. CASE CleanStep
  BY <1>1, SweepWrittenStep, SweepAliveStep, SweepOtherStep, ParkReadyStep,
     TrimAliveStep, StoreReadyStep DEF CleanStep
<1>2. CASE AddStep
  BY <1>2, AddIfNotExistsStep, AddStoppedStep, AddKnownStep, AddFtpStep, AddLiveStep,
     AddConnectStep, AddRefusedStep, AddFullStep DEF AddStep
<1>3. CASE WaitReturns \/ FillEnds \/ StartFill \/ \E l \in Links : FillAdd(l)
  BY <1>3, WaitReturnsStep, FillSteps, FillAddStep
<1>4. CASE \E i \in Slots : Events(i) \/ CancelFile(i)
  BY <1>4, EventsStep, CancelFileStep
<1>5. CASE MainWait \/ FetchPause \/ \E l \in Links : BeginFetch(l) \/ BeginType(l)
  BY <1>5, WaitSteps, BeginSteps
<1>6. CASE FetchStep
  BY <1>6, WaitSteps, FetchThawStep, ThawFailsStep, FetchGoneStep, DeliverSteps,
     DeliverBanStep DEF FetchStep
<1>7. CASE TypeStep
  BY <1>7, TypeRestartStep, TypeHoldStep, WaitSteps, HoldNamedStep, HoldRefusals,
     HoldCancelledStep, RecordStep DEF TypeStep
<1>8. CASE Finish
  BY <1>8, FinishStep
<1>9. CASE \E t \in ftp : FtpThreadEnds(t)
  BY <1>9, FtpThreadEndsStep
<1>10. CASE StopMirror
  BY <1>10, StopMirrorStep
<1>11. CASE Terminated \/ UNCHANGED vars
  BY <1>11, Stuttering DEF Terminated
<1> QED
  BY <1>1, <1>2, <1>3, <1>4, <1>5, <1>6, <1>7, <1>8, <1>9, <1>10, <1>11
     DEF Next, EngineStep

(* The invariant holds in every state. *)
LEMMA Inductive == Spec => []IInv
BY Initially, Invariance, PTL DEF Spec

(* The variables keep their types: in particular no retry is used that is  *)
(* not left (htsparse.c), and back_fill never plans more additions than the*)
(* limit of connections.                                                   *)
THEOREM TypeCorrect == Spec => []TypeOK
<1>1. IInv => TypeOK
  BY DEF IInv
<1> QED BY <1>1, Inductive, PTL

(* Connections are neither leaked, closed twice nor shared, whatever path  *)
(* they take between the slots (back_connxfr, back_maydeletehttp,          *)
(* back_trylive, back_delete_all).                                         *)
THEOREM Owned == Spec => []SocketOwnership
<1>1. IInv => SocketOwnership
  BY DEF IInv, SlotsSound
<1> QED BY <1>1, Inductive, PTL

(* The index hts_wait_delayed keeps across the calls of the pool remains   *)
(* that of the slot of its link.                                           *)
THEOREM HeldStays == Spec => []HeldSlotStays
<1>1. IInv => HeldSlotStays
  BY DEF IInv, Held, HeldSlotStays, InUse
<1> QED BY <1>1, Inductive, PTL

(* While the mirror runs, whatever times out, is cancelled or banned, the  *)
(* slot an FTP thread writes its result into is still its own.             *)
THEOREM ThreadsOwn == Spec => [](eng.mode # "end" => FtpOwnsSlot)
<1>1. IInv => (eng.mode # "end" => FtpOwnsSlot)
  BY DEF IInv, Threads, FtpOwnsSlot
<1> QED BY <1>1, Inductive, PTL

(* The slot remains the same entry, whatever becomes of its connection.    *)
Alike(t, s) ==
  /\ t.st = s.st /\ t.link = s.link /\ t.kind = s.kind /\ t.host = s.host
  /\ t.code = s.code /\ t.out = s.out /\ t.final = s.final
  /\ t.locked = s.locked /\ t.early = s.early

(* Slot q holds the same entry, or none as before. *)
Same(q) == (~InUse(slot[q]) /\ ~InUse(slot'[q])) \/ Alike(slot'[q], slot[q])

(* The slots other than p hold the same entries. *)
Rest(p) == \A q \in Slots \ {p} : Same(q)

(* No entry changes. *)
Calm == (\A q \in Slots : Same(q)) /\ UNCHANGED <<stored, ghost, cached>>

(* The transfer of slot i goes on, or ends. *)
Advances(i) ==
  /\ Rest(i)
  /\ slot[i].st \in Busy
  /\ slot'[i].st \in Busy \cup {"ready"}
  /\ slot'[i].link = slot[i].link /\ slot'[i].kind = slot[i].kind
  /\ slot'[i].host = slot[i].host
  /\ slot'[i].locked = slot[i].locked /\ slot'[i].early = slot[i].early
  /\ UNCHANGED <<stored, ghost>>

(* The entry of slot p is released. *)
Releases(p) ==
  /\ Rest(p)
  /\ InUse(slot[p])
  /\ ~InUse(slot'[p])
  /\ UNCHANGED <<stored, ghost>>

(* Slot q becomes the entry s of the link that the call adds. *)
Enters(q, s) ==
  /\ q \in Slots
  /\ Rest(q)
  /\ ~InUse(slot[q])
  /\ slot'[q] = s
  /\ InUse(s) /\ s.link = call.link /\ s.kind = call.kind
  /\ ~s.locked /\ ~s.early /\ s.out = "none"
  /\ UNCHANGED <<stored, ghost>>

(* What an entry says of its link, given the links handed to the cache.    *)
Coherent(s, c) ==
  /\ s.st = "ftpready" => s.link \in FtpLinks
  /\ s.st = "handshake" => s.link \in SecureLinks
  /\ s.st \in Busy => ~s.final
  /\ s.link \notin UntypedLinks => s.kind = "final" /\ s.out \in {"none", "final"}
  /\ s.link \notin UntypedLinks /\ s.st = "ready" /\ s.code = "ok" /\ s.final =>
       s.link \in c

(* The call goes on: it is about the same link. *)
GoesOn ==
  call'.at # "idle" =>
    /\ call.at # "idle"
    /\ call'.op \in {"add", "addif"} <=> call.op \in {"add", "addif"}
    /\ call'.link = call.link
    /\ call'.kind = call.kind

-----------------------------------------------------------------------------
(* What the steps do to the entries *)

(* Slots that a frame leaves alone are the same entries. *)
LEMMA FrameRest ==
  ASSUME NEW p, Frame(p)
  PROVE  Rest(p)
BY DEF Frame, Rest, Same, Alike

(* The loops of back_clean stay with their call. *)
LEMMA TurnGoesOn ==
  ASSUME call \in CallType, NEW at \in Places \ {"idle"}, Turn(at), call.at # "idle"
  PROVE  GoesOn /\ call'.at # "idle" /\ call'.op = call.op
<1>1. \/ call' = [call EXCEPT !.i = call.i + 1]
      \/ call' = [call EXCEPT !.at = at, !.i = 0]
  BY DEF Turn
<1> QED BY <1>1 DEF GoesOn, CallType

(* A finished slot that gives its connection back remains the same entry.  *)
LEMMA GivesBackAlike ==
  ASSUME SlotsSound, NEW i \in Slots,
         \/ slot[i].st = "ready" /\ MayDeleteHttp(i, slot[i])
         \/ UNCHANGED <<slot, open>>
  PROVE  \A q \in Slots : Same(q)
<1>1. slot[i] \in SlotType /\ Sound(slot[i])
  BY DEF SlotsSound
<1>2. CASE slot[i].st = "ready" /\ MayDeleteHttp(i, slot[i])
  <2>1. slot[i].link \in Links /\ InUse(slot[i])
    BY <1>1, <1>2 DEF Sound, InUse
  <2>2. Frame(i) /\ slot'[i] = Hangup(slot[i])
    BY <1>1, <1>2, <2>1, MayDeleteHttps
  <2>3. Alike(Hangup(slot[i]), slot[i])
    BY <1>1 DEF Alike, Hangup, SlotType
  <2> QED BY <2>2, <2>3, FrameRest DEF Rest, Same
<1>3. CASE UNCHANGED <<slot, open>>
  BY <1>3 DEF Same, Alike
<1> QED BY <1>2, <1>3

(* Loops of back_clean that change no entry. *)
LEMMA CleanCalm ==
  ASSUME IInv, \/ SweepAlive \/ SweepOther \/ ParkReady \/ TrimAlive
               \/ StoreReady /\ UNCHANGED <<slot, stored, ghost>>
  PROVE  /\ Calm /\ UNCHANGED <<lk, eng, budget>> /\ GoesOn
         /\ call.at # "idle" /\ call'.at # "idle" /\ call'.op = call.op
<1> DEFINE i == call.i
<1>1. i \in Slots /\ call \in CallType /\ slot[i] \in SlotType
  BY DEF IInv, TypeOK, CallType
<1>2. UNCHANGED <<lk, eng, budget, ghost, stored>> /\ call.at # "idle"
  BY DEF SweepAlive, SweepOther, ParkReady, TrimAlive, StoreReady
<1>3. GoesOn /\ call'.at # "idle" /\ call'.op = call.op
  <2>1. CASE SweepAlive \/ SweepOther \/ ParkReady \/ TrimAlive
    BY <1>1, <1>2, <2>1, TurnGoesOn DEF SweepAlive, SweepOther, ParkReady, TrimAlive, Places
  <2>2. CASE StoreReady
    <3>1. \/ call' = [call EXCEPT !.i = i + 1]
          \/ call' = [call EXCEPT !.at = Body[call.op], !.i = 0]
      BY <2>2 DEF StoreReady
    <3>2. Body[call.op] # "idle"
      BY <1>1 DEF Body, CallType, Ops
    <3> QED BY <1>1, <1>2, <3>1, <3>2 DEF GoesOn, CallType
  <2> QED BY <2>1, <2>2
<1>4. CASE (SweepAlive \/ TrimAlive) /\ slot[i].st = "alive" /\ Delete(i)
  <2>1. Frame(i) /\ ~InUse(slot'[i])
    BY <1>1, <1>4, Deletes, FreeSlotType DEF IInv, Delete, Put, InUse
  <2>2. Offered(slot[i]) = {} /\ ~InUse(slot[i])
    BY <1>4 DEF Offered, InUse
  <2> QED BY <1>2, <1>3, <1>4, <2>1, <2>2, FrameRest DEF Rest, Same, Calm, Delete
<1>5. CASE UNCHANGED <<slot, cached>>
  BY <1>2, <1>3, <1>5 DEF Calm, Same, Alike
<1>6. CASE SweepOther \/ ParkReady
  <2>1. \/ slot[i].st = "ready" /\ MayDeleteHttp(i, slot[i])
        \/ UNCHANGED <<slot, open>>
    BY <1>6 DEF SweepOther, ParkReady, Cleanable
  <2>2. cached' = cached
    BY <1>6 DEF SweepOther, ParkReady
  <2> QED BY <1>1, <1>2, <1>3, <2>1, <2>2, GivesBackAlike DEF IInv, Calm
<1> QED BY <1>4, <1>5, <1>6 DEF SweepAlive, TrimAlive, StoreReady

(* A file written in the background: its slot is released. *)
LEMMA SweepReleases ==
  ASSUME IInv, SweepWritten
  PROVE  /\ call.i \in Slots /\ Releases(call.i)
         /\ slot[call.i].st = "ready" /\ slot[call.i].code = "ok"
         /\ Finalizable(slot[call.i])
         /\ slot[call.i].link \in Links
         /\ lk' = IF OnHeap(slot[call.i]) /\ lk[slot[call.i].link] = "recorded"
                  THEN [lk EXCEPT ![slot[call.i].link] = "done"] ELSE lk
         /\ cached' = cached \cup Offered(slot[call.i])
         /\ UNCHANGED <<eng, budget>> /\ GoesOn /\ call.at = "sweep" /\ call'.at # "idle"
         /\ call'.op = call.op
<1> DEFINE i == call.i
<1>1. i \in Slots /\ call \in CallType /\ slot[i] \in SlotType
  BY DEF IInv, TypeOK, CallType
<1>2. /\ slot[i].st = "ready" /\ slot[i].code = "ok" /\ Finalizable(slot[i])
      /\ lk' = IF OnHeap(slot[i]) /\ lk[slot[i].link] = "recorded"
               THEN [lk EXCEPT ![slot[i].link] = "done"] ELSE lk
      /\ MayDelete(i) /\ UNCHANGED <<stored, ghost, eng, budget>>
      /\ call.at = "sweep" /\ Turn("park")
  BY DEF SweepWritten, Cleanable
<1>3. Frame(i) /\ ~InUse(slot'[i]) /\ cached' = cached \cup Offered(slot[i])
  BY <1>1, <1>2, MayDeletes DEF IInv
<1>4. InUse(slot[i]) /\ slot[i].link \in Links
  BY <1>1, <1>2 DEF IInv, SlotsSound, Sound, InUse
<1>5. GoesOn /\ call'.at # "idle" /\ call'.op = call.op
  BY <1>1, <1>2, TurnGoesOn DEF Places
<1> QED BY <1>1, <1>2, <1>3, <1>4, <1>5, FrameRest DEF Releases

(* The fourth loop swaps a finished slot out. *)
LEMMA StoreMoves ==
  ASSUME IInv, StoreReady, ~UNCHANGED <<slot, stored, ghost>>
  PROVE  /\ call.i \in Slots /\ Rest(call.i)
         /\ slot[call.i].st = "ready" /\ ~slot[call.i].locked
         /\ slot[call.i].link \in Links
         /\ ~InUse(slot'[call.i])
         /\ slot'[call.i] = FreeSlot
         /\ \A q \in Slots \ {call.i} : slot'[q] = slot[q]
         /\ stored' = (stored \ InStore(slot[call.i].link, slot[call.i].kind)) \cup {slot[call.i]}
         /\ ghost' = ghost \ {<<slot[call.i].link, slot[call.i].kind>>}
         /\ UNCHANGED <<lk, eng, budget, cached>> /\ GoesOn
         /\ call.at = "store" /\ call'.at # "idle" /\ call'.op = call.op
<1> DEFINE i == call.i
<1>1. i \in Slots /\ call \in CallType /\ slot[i] \in SlotType /\ slot \in [Slots -> SlotType]
  BY DEF IInv, TypeOK, CallType
<1>2. /\ slot[i].st = "ready" /\ ~slot[i].locked
      /\ stored' = (stored \ InStore(slot[i].link, slot[i].kind)) \cup {slot[i]}
      /\ ghost' = ghost \ {<<slot[i].link, slot[i].kind>>}
      /\ slot' = [slot EXCEPT ![i] = FreeSlot]
      /\ UNCHANGED <<lk, eng, budget, cached>> /\ call.at = "store"
  BY DEF StoreReady, Storable
<1>3. \/ call' = [call EXCEPT !.i = i + 1]
      \/ call' = [call EXCEPT !.at = Body[call.op], !.i = 0]
  BY DEF StoreReady
<1>4. Body[call.op] # "idle"
  BY <1>1 DEF Body, CallType, Ops
<1>5. GoesOn /\ call'.at # "idle" /\ call'.op = call.op
  BY <1>1, <1>2, <1>3, <1>4 DEF GoesOn, CallType
<1>6. Rest(i) /\ ~InUse(slot'[i]) /\ slot'[i] = FreeSlot
      /\ \A q \in Slots \ {i} : slot'[q] = slot[q]
  BY <1>1, <1>2, FreeSlotType DEF Rest, Same, Alike, InUse
<1>7. slot[i].link \in Links
  BY <1>1, <1>2 DEF IInv, SlotsSound, Sound, InUse
<1> QED BY <1>1, <1>2, <1>5, <1>6, <1>7

-----------------------------------------------------------------------------
(* A link that is added: its new entry. *)

(* The states of the entries of back_add. *)
Fresh(s) ==
  /\ s \in SlotType
  /\ s.link = call.link /\ s.kind = call.kind
  /\ s.st \in {"ready", "ftp", "secured", "connecting"}
  /\ s.st = "ftp" => s.link \in FtpLinks
  /\ ~s.locked /\ ~s.early /\ s.out = "none"
  /\ s.final => s.st = "ready" /\ s.link \in KnownLinks

(* The entry of a slot that was free, or held an idle connection. *)
LEMMA AddsEntry ==
  ASSUME IInv, NEW q \in Slots, NEW s, AddAt(q, s), Fresh(s)
  PROVE  Enters(q, s)
<1>1. q \in Search /\ slot' = [slot EXCEPT ![q] = s] /\ UNCHANGED <<stored, ghost>>
  BY DEF AddAt, Put
<1>2. ~InUse(slot[q])
  BY <1>1, SearchFinds
<1>3. slot'[q] = s /\ \A r \in Slots \ {q} : slot'[r] = slot[r]
  BY <1>1 DEF IInv, TypeOK
<1> QED BY <1>1, <1>2, <1>3 DEF Enters, Rest, Same, Alike, Fresh, InUse

(* Every way back_add ends with an entry. *)
LEMMA Entering ==
  ASSUME IInv, AddStopped \/ AddKnown \/ AddFtp \/ AddLive \/ AddConnect \/ AddRefused
  PROVE  /\ \E q \in Slots, s \in SlotType :
              /\ Enters(q, s) /\ Fresh(s)
              /\ cached \subseteq cached'
              /\ s.final /\ s.code = "ok" /\ s.kind # "delayed" => s.link \in cached'
         /\ call.at = "fill" /\ call' = Idle
         /\ call.link \in Links /\ call.kind \in Kinds
         /\ UNCHANGED <<lk, eng, budget>>
<1> DEFINE n == NewSlot(call.link, call.kind)
<1>1. /\ call.at = "fill" /\ call' = Idle /\ UNCHANGED <<lk, eng, budget, stored, ghost>>
  BY DEF AddStopped, AddKnown, AddFtp, AddLive, AddConnect, AddRefused, AddAt
<1>2. call.link \in Links /\ call.kind \in Kinds
  BY <1>1 DEF IInv, TypeOK, CallType, Control
<1>3. /\ n \in SlotType /\ n.link = call.link /\ n.kind = call.kind /\ n.st = "ready"
      /\ ~n.locked /\ ~n.early /\ n.out = "none" /\ ~n.final
  BY <1>2, NewSlotType DEF NewSlot, FreeSlot
<1> HIDE DEF n
<1>4. CASE AddStopped \/ AddRefused
  <2>1. PICK q \in Slots, c \in Codes : AddAt(q, [n EXCEPT !.code = c]) \/ AddAt(q, n)
    BY <1>4 DEF AddStopped, AddRefused, n, Codes
  <2>2. PICK s \in {n, [n EXCEPT !.code = c]} : AddAt(q, s)
    BY <2>1
  <2>3. Fresh(s) /\ ~s.final
    BY <1>3 DEF Fresh, SlotType
  <2>4. Enters(q, s) /\ s \in SlotType
    BY <2>2, <2>3, AddsEntry DEF Fresh
  <2>5. cached' = cached
    BY <1>4 DEF AddStopped, AddRefused
  <2> QED BY <1>1, <1>2, <2>3, <2>4, <2>5
<1>5. CASE AddKnown
  <2>1. PICK q \in Slots, c \in Positive :
          /\ AddAt(q, [[n EXCEPT !.code = c] EXCEPT !.final = TRUE])
          /\ cached' = cached \cup Offered([n EXCEPT !.code = c])
    BY <1>5 DEF AddKnown, n
  <2> DEFINE u == [n EXCEPT !.code = c]
             s == [u EXCEPT !.final = TRUE]
  <2>2. /\ u \in SlotType /\ u.link = call.link /\ u.kind = call.kind /\ u.st = "ready"
        /\ ~u.locked /\ ~u.early /\ u.out = "none" /\ ~u.final /\ u.code = c
    BY <1>3 DEF SlotType, Positive, Codes
  <2>3. AddAt(q, s) /\ cached' = cached \cup Offered(u)
    BY <2>1
  <2> HIDE DEF u
  <2>4. Fresh(s) /\ s.link = u.link /\ s.code = u.code /\ s.kind = u.kind
    BY <1>5, <2>2 DEF Fresh, SlotType, AddKnown
  <2>5. Enters(q, s) /\ s \in SlotType
    BY <2>3, <2>4, AddsEntry DEF Fresh
  <2>6. s.code = "ok" /\ s.kind # "delayed" => s.link \in cached'
    BY <2>2, <2>3, <2>4 DEF Offered
  <2>7. cached \subseteq cached'
    BY <2>3
  <2> HIDE DEF s
  <2> QED BY <1>1, <1>2, <2>4, <2>5, <2>6, <2>7
<1>6. CASE AddFtp
  <2>1. PICK q \in Slots : AddAt(q, [n EXCEPT !.st = "ftp"])
    BY <1>6 DEF AddFtp, n
  <2> DEFINE s == [n EXCEPT !.st = "ftp"]
  <2>2. Fresh(s) /\ ~s.final
    BY <1>3, <1>6 DEF Fresh, SlotType, Statuses, Busy, AddFtp
  <2>3. AddAt(q, s)
    BY <2>1
  <2> HIDE DEF s
  <2>4. Enters(q, s) /\ s \in SlotType
    BY <2>2, <2>3, AddsEntry DEF Fresh
  <2>5. cached' = cached
    BY <1>6 DEF AddFtp
  <2> QED BY <1>1, <1>2, <2>2, <2>4, <2>5
<1>7. CASE AddLive
  <2> DEFINE a == IF call.link \in SecureLinks THEN "secured" ELSE "connecting"
             s(i) == [n EXCEPT !.st = a, !.soc = slot[i].soc, !.ka = TRUE]
  <2>0. a \in {"secured", "connecting"}
    OBVIOUS
  <2>1. PICK q \in Search : \E i \in Alive \ {q} :
          slot' = [slot EXCEPT ![q] = s(i), ![i] = FreeSlot]
    BY <1>7 DEF AddLive, n
  <2>2. PICK i \in Alive \ {q} : slot' = [slot EXCEPT ![q] = s(i), ![i] = FreeSlot]
    BY <2>1
  <2>3. q \in Slots /\ i \in Slots /\ ~InUse(slot[q]) /\ ~InUse(slot[i]) /\ q # i
        /\ slot[i] \in SlotType
    BY SearchFinds DEF Alive, InUse, IInv, TypeOK
  <2> HIDE DEF a
  <2>4. Fresh(s(i)) /\ s(i) \in SlotType /\ ~s(i).final
    BY <1>3, <2>0, <2>3 DEF Fresh, SlotType, Statuses, Busy, OnWire
  <2> DEFINE u == s(i)
  <2>5. slot' = [slot EXCEPT ![q] = u, ![i] = FreeSlot]
    BY <2>2
  <2> HIDE DEF s, u
  <2>6. /\ slot'[q] = u /\ slot'[i] = FreeSlot
        /\ \A r \in Slots \ {q, i} : slot'[r] = slot[r]
    BY <2>3, <2>5 DEF IInv, TypeOK
  <2>7. Rest(q)
    BY <2>3, <2>6, FreeSlotType DEF Rest, Same, Alike, InUse
  <2>8. Enters(q, u) /\ Fresh(u) /\ u \in SlotType /\ ~u.final
    BY <1>1, <2>3, <2>4, <2>6, <2>7 DEF Enters, Fresh, InUse, u
  <2>9. cached' = cached
    BY <1>7 DEF AddLive
  <2> QED BY <1>1, <1>2, <2>3, <2>8, <2>9
<1>8. CASE AddConnect
  <2> DEFINE s(k) == [n EXCEPT !.st = "connecting", !.code = "failed", !.soc = k]
  <2>1. PICK q \in Search : \E k \in Lowest(Socks \ (open \ {slot[q].soc})) :
          slot' = [slot EXCEPT ![q] = s(k)]
    BY <1>8 DEF AddConnect, n
  <2>2. PICK k \in Lowest(Socks \ (open \ {slot[q].soc})) :
          slot' = [slot EXCEPT ![q] = s(k)]
    BY <2>1
  <2>3. q \in Slots /\ ~InUse(slot[q]) /\ k \in Socks
    BY SearchFinds DEF Lowest
  <2>4. Fresh(s(k)) /\ s(k) \in SlotType /\ ~s(k).final
    BY <1>3, <2>3 DEF Fresh, SlotType, Statuses, Busy, OnWire, Codes
  <2> DEFINE u == s(k)
  <2>5. slot' = [slot EXCEPT ![q] = u]
    BY <2>2
  <2> HIDE DEF s, u
  <2>6. slot'[q] = u /\ \A r \in Slots \ {q} : slot'[r] = slot[r]
    BY <2>3, <2>5 DEF IInv, TypeOK
  <2>7. Enters(q, u) /\ Fresh(u) /\ u \in SlotType /\ ~u.final
    BY <1>1, <2>3, <2>4, <2>6 DEF Enters, Fresh, InUse, Rest, Same, Alike, u
  <2>8. cached' = cached
    BY <1>8 DEF AddConnect
  <2> QED BY <1>1, <1>2, <2>3, <2>7, <2>8
<1> QED BY <1>4, <1>5, <1>6, <1>7, <1>8

-----------------------------------------------------------------------------
(* Transfers that go on or end *)

(* What each transfer keeps. *)
Goes(i) ==
  /\ Advances(i)
  /\ cached \subseteq cached'
  /\ Coherent(slot[i], cached) => Coherent(slot'[i], cached')

(* One slot changes, and remains the entry of its link. *)
LEMMA AdvancesTo ==
  ASSUME IInv, NEW i \in Slots, NEW s, Frame(i), slot'[i] = s,
         slot[i].st \in Busy, s.st \in Busy \cup {"ready"},
         s.link = slot[i].link, s.kind = slot[i].kind, s.host = slot[i].host,
         s.locked = slot[i].locked, s.early = slot[i].early,
         UNCHANGED <<stored, ghost>>
  PROVE  Advances(i)
BY FrameRest DEF Advances

(* One slot of the array changes. *)
LEMMA OneSlot ==
  ASSUME IInv, NEW i \in Slots, NEW s, slot' = [slot EXCEPT ![i] = s]
  PROVE  Frame(i) /\ slot'[i] = s
BY DEF IInv, TypeOK, Frame

(* The transfer fails, or is cancelled. *)
LEMMA FailsAdvance ==
  ASSUME IInv, NEW i \in Slots, Broken(i) \/ CancelFile(i)
  PROVE  Goes(i)
<1>1. PICK c \in {"failed", "invalid"} : slot' = [slot EXCEPT ![i] = Failed(slot[i], c)]
  BY DEF Broken, CancelFile, Put
<1>2. slot[i].st \in Busy /\ UNCHANGED <<stored, ghost, cached>> /\ slot[i] \in SlotType
  BY DEF Broken, CancelFile, NetStep, Busy, IInv, TypeOK
<1> DEFINE s == Failed(slot[i], c)
<1>3. /\ s.st = "ready" /\ s.code = c /\ s.link = slot[i].link /\ s.kind = slot[i].kind
      /\ s.host = slot[i].host /\ s.locked = slot[i].locked /\ s.early = slot[i].early
      /\ s.out = slot[i].out /\ s.final = slot[i].final
  BY <1>2 DEF Failed, SlotType
<1> HIDE DEF s
<1>4. Frame(i) /\ slot'[i] = s
  BY <1>1, OneSlot DEF s
<1>5. Advances(i)
  BY <1>2, <1>3, <1>4, AdvancesTo
<1>6. Coherent(slot[i], cached) => Coherent(s, cached')
  BY <1>2, <1>3 DEF Coherent, Busy, OnWire
<1> QED BY <1>2, <1>4, <1>5, <1>6 DEF Goes

(* The transfer goes on. *)
LEMMA GoesOnAdvance ==
  ASSUME IInv, NEW i \in Slots,
         Connected(i) \/ Handshake(i) \/ Headers(i) \/ OpenOutput(i)
  PROVE  Goes(i)
<1>1. slot[i].st \in Busy /\ UNCHANGED <<stored, ghost, cached>> /\ slot[i] \in SlotType
  BY DEF Connected, Handshake, Headers, OpenOutput, NetStep, Busy, OnWire, IInv, TypeOK
<1>2. CASE Connected(i) \/ Handshake(i)
  <2>1. PICK a \in {"handshake", "secured", "headers"} :
          /\ slot' = [slot EXCEPT ![i].st = a]
          /\ a = "handshake" => slot[i].link \in SecureLinks
    BY <1>2 DEF Connected, Handshake
  <2> DEFINE s == [slot[i] EXCEPT !.st = a]
  <2>2. slot' = [slot EXCEPT ![i] = s]
    BY <2>1
  <2>3. /\ s.st = a /\ s.code = slot[i].code /\ s.link = slot[i].link /\ s.kind = slot[i].kind
        /\ s.host = slot[i].host /\ s.locked = slot[i].locked /\ s.early = slot[i].early
        /\ s.out = slot[i].out /\ s.final = slot[i].final
    BY <1>1 DEF SlotType
  <2> HIDE DEF s
  <2>4. Frame(i) /\ slot'[i] = s
    BY <2>2, OneSlot
  <2>5. Advances(i)
    BY <1>1, <2>3, <2>4, AdvancesTo DEF Busy, OnWire
  <2>6. Coherent(slot[i], cached) => Coherent(s, cached')
    BY <1>1, <2>1, <2>3 DEF Coherent, Busy, OnWire
  <2> QED BY <1>1, <2>4, <2>5, <2>6 DEF Goes
<1>3. CASE Headers(i)
  <2>1. PICK c \in Positive, k \in BOOLEAN :
          slot' = [slot EXCEPT ![i].st = "transfer", ![i].code = c, ![i].ka = k]
    BY <1>3 DEF Headers
  <2> DEFINE s == [slot[i] EXCEPT !.st = "transfer", !.code = c, !.ka = k]
  <2>2. slot' = [slot EXCEPT ![i] = s]
    BY <2>1 DEF IInv, TypeOK
  <2>3. /\ s.st = "transfer" /\ s.link = slot[i].link /\ s.kind = slot[i].kind
        /\ s.host = slot[i].host /\ s.locked = slot[i].locked /\ s.early = slot[i].early
        /\ s.out = slot[i].out /\ s.final = slot[i].final
    BY <1>1 DEF SlotType
  <2> HIDE DEF s
  <2>4. Frame(i) /\ slot'[i] = s
    BY <2>2, OneSlot
  <2>5. Advances(i)
    BY <1>1, <2>3, <2>4, AdvancesTo DEF Busy, OnWire
  <2>6. Coherent(slot[i], cached) => Coherent(s, cached')
    BY <1>1, <2>1, <2>3 DEF Coherent, Busy, OnWire
  <2> QED BY <1>1, <2>4, <2>5, <2>6 DEF Goes
<1>4. CASE OpenOutput(i)
  <2> DEFINE s == [slot[i] EXCEPT !.out = slot[i].kind]
  <2>1. slot' = [slot EXCEPT ![i] = s] /\ slot[i].st = "transfer"
    BY <1>4 DEF OpenOutput
  <2>2. /\ s.st = slot[i].st /\ s.code = slot[i].code
        /\ s.link = slot[i].link /\ s.kind = slot[i].kind
        /\ s.host = slot[i].host /\ s.locked = slot[i].locked /\ s.early = slot[i].early
        /\ s.out = slot[i].kind /\ s.final = slot[i].final
    BY <1>1 DEF SlotType
  <2> HIDE DEF s
  <2>3. Frame(i) /\ slot'[i] = s
    BY <2>1, OneSlot
  <2>4. Advances(i)
    BY <1>1, <2>2, <2>3, AdvancesTo
  <2>5. Coherent(slot[i], cached) => Coherent(s, cached')
    BY <1>1, <2>1, <2>2 DEF Coherent, Busy, OnWire
  <2> QED BY <1>1, <2>3, <2>4, <2>5 DEF Goes
<1> QED BY <1>2, <1>3, <1>4

(* The copy of the cache, and the result of a thread. *)
LEMMA LocalAdvance ==
  ASSUME IInv, NEW i \in Slots, NotModified(i) \/ FtpCollect(i)
  PROVE  Goes(i)
<1>1. slot[i].st \in Busy /\ UNCHANGED <<stored, ghost>> /\ slot[i] \in SlotType
  BY DEF NotModified, FtpCollect, NetStep, Busy, OnWire, IInv, TypeOK
<1>2. CASE NotModified(i)
  <2>1. PICK c \in Positive \cup {"invalid"}, k \in BOOLEAN :
          LET s == [slot[i] EXCEPT !.st = "ready", !.code = c, !.ka = k]
          IN  /\ slot' = [slot EXCEPT ![i] = [s EXCEPT !.final = c # "invalid"]]
              /\ cached' = cached \cup Offered(s)
    BY <1>2 DEF NotModified
  <2> DEFINE s == [slot[i] EXCEPT !.st = "ready", !.code = c, !.ka = k]
             d == [s EXCEPT !.final = c # "invalid"]
  <2>2. slot' = [slot EXCEPT ![i] = d] /\ cached' = cached \cup Offered(s)
    BY <2>1
  <2>3. /\ s.st = "ready" /\ s.link = slot[i].link /\ s.kind = slot[i].kind
        /\ s.code = c /\ s.final = slot[i].final
        /\ d.st = "ready" /\ d.link = slot[i].link /\ d.kind = slot[i].kind
        /\ d.host = slot[i].host /\ d.locked = slot[i].locked /\ d.early = slot[i].early
        /\ d.out = slot[i].out /\ d.code = c
    BY <1>1 DEF SlotType
  <2> HIDE DEF d, s
  <2>4. Frame(i) /\ slot'[i] = d
    BY <2>2, OneSlot
  <2>5. Advances(i)
    BY <1>1, <2>3, <2>4, AdvancesTo
  <2>6. Coherent(slot[i], cached) => Coherent(d, cached')
    BY <1>1, <2>2, <2>3 DEF Coherent, Busy, OnWire, Offered
  <2> QED BY <1>1, <2>2, <2>4, <2>5, <2>6 DEF Goes
<1>3. CASE FtpCollect(i)
  <2> DEFINE s == [slot[i] EXCEPT !.st = "ready"]
             d == [s EXCEPT !.final = s.code = "ok"]
  <2>1. slot' = [slot EXCEPT ![i] = d] /\ cached' = cached \cup Offered(s)
    BY <1>3 DEF FtpCollect
  <2>2. /\ s.st = "ready" /\ s.link = slot[i].link /\ s.kind = slot[i].kind
        /\ s.code = slot[i].code /\ s.final = slot[i].final
        /\ d.st = "ready" /\ d.link = slot[i].link /\ d.kind = slot[i].kind
        /\ d.host = slot[i].host /\ d.locked = slot[i].locked /\ d.early = slot[i].early
        /\ d.out = slot[i].out /\ d.code = slot[i].code
    BY <1>1 DEF SlotType
  <2> HIDE DEF d, s
  <2>3. Frame(i) /\ slot'[i] = d
    BY <2>1, OneSlot
  <2>4. Advances(i)
    BY <1>1, <2>2, <2>3, AdvancesTo
  <2>5. Coherent(slot[i], cached) => Coherent(d, cached')
    BY <1>1, <2>1, <2>2 DEF Coherent, Busy, OnWire, Offered
  <2> QED BY <1>1, <2>1, <2>3, <2>4, <2>5 DEF Goes
<1> QED BY <1>2, <1>3

(* The body ends. *)
LEMMA BodyAdvance ==
  ASSUME IInv, NEW i \in Slots, ChunkEnd(i) \/ \E short \in BOOLEAN : BodyEnd(i, short)
  PROVE  Goes(i)
<1> DEFINE s == [slot[i] EXCEPT !.st = "ready"]
           d == [s EXCEPT !.final = @ \/ s.kind # "delayed"]
           f(c) == [d EXCEPT !.code = c]
<1>1. /\ slot[i].st = "transfer" /\ slot[i].st \in Busy
      /\ UNCHANGED <<stored, ghost>> /\ slot[i] \in SlotType /\ InUse(slot[i])
      /\ slot[i].link \in Links
  BY DEF ChunkEnd, BodyEnd, NetStep, Busy, OnWire, IInv, TypeOK, InUse, SlotsSound, Sound
<1>2. /\ s \in SlotType /\ s.st = "ready" /\ s.link = slot[i].link /\ s.kind = slot[i].kind
      /\ s.code = slot[i].code /\ s.final = slot[i].final
      /\ s.host = slot[i].host /\ s.locked = slot[i].locked /\ s.early = slot[i].early
      /\ s.out = slot[i].out
  BY <1>1 DEF SlotType, Statuses
<1>3. /\ d \in SlotType /\ d.st = "ready" /\ d.link = slot[i].link /\ d.kind = slot[i].kind
      /\ d.host = slot[i].host /\ d.locked = slot[i].locked /\ d.early = slot[i].early
      /\ d.out = slot[i].out /\ d.code = slot[i].code
      /\ d.final = (slot[i].final \/ slot[i].kind # "delayed")
  BY <1>2 DEF SlotType
<1>4. \E c \in {"failed", "invalid"} :
        \/ MayDeleteHttp(i, f(c)) /\ cached' \in {cached, cached \cup Offered(s)}
        \/ slot' = [slot EXCEPT ![i] = f(c)] /\ cached' = cached
        \/ (MayDeleteHttp(i, d) \/ slot' = [slot EXCEPT ![i] = d])
           /\ cached' = cached \cup Offered(s)
  BY DEF ChunkEnd, BodyEnd, MayDeleteHttp
<1> HIDE DEF d
<1>5. PICK c \in {"failed", "invalid"} :
        \/ MayDeleteHttp(i, f(c)) /\ cached' \in {cached, cached \cup Offered(s)}
        \/ slot' = [slot EXCEPT ![i] = f(c)] /\ cached' = cached
        \/ (MayDeleteHttp(i, d) \/ slot' = [slot EXCEPT ![i] = d])
           /\ cached' = cached \cup Offered(s)
  BY <1>4
<1>6. PICK u \in {d, f(c)} :
        /\ MayDeleteHttp(i, u) \/ slot' = [slot EXCEPT ![i] = u]
        /\ u = f(c) \/ (u = d /\ cached' = cached \cup Offered(s))
        /\ cached' \in {cached, cached \cup Offered(s)}
  BY <1>5
<1>7. /\ u \in SlotType /\ u.st = "ready" /\ u.link = slot[i].link /\ u.kind = slot[i].kind
      /\ u.host = slot[i].host /\ u.locked = slot[i].locked /\ u.early = slot[i].early
      /\ u.out = slot[i].out
      /\ u.code = c \/ (u = d /\ cached' = cached \cup Offered(s))
  BY <1>3, <1>6 DEF SlotType, Codes
<1>8. PICK v \in SlotType : Frame(i) /\ slot'[i] = v /\ Alike(v, u)
  <2>1. CASE MayDeleteHttp(i, u)
    <3>1. Frame(i) /\ slot'[i] = Hangup(u)
      BY <1>1, <1>7, <2>1, MayDeleteHttps DEF IInv
    <3>2. Hangup(u) \in SlotType /\ Alike(Hangup(u), u)
      BY <1>7, HangupType DEF Alike, Hangup, SlotType
    <3> QED BY <3>1, <3>2
  <2>2. CASE slot' = [slot EXCEPT ![i] = u]
    <3>1. Alike(u, u)
      BY DEF Alike
    <3> QED BY <1>7, <2>2, <3>1, OneSlot
  <2> QED BY <1>6, <2>1, <2>2
<1>9. Advances(i)
  BY <1>1, <1>7, <1>8, AdvancesTo DEF Alike
<1> HIDE DEF s, f
<1>10. Coherent(slot[i], cached) => Coherent(v, cached')
  <2>1. SUFFICES ASSUME Coherent(slot[i], cached)
                 PROVE  Coherent(v, cached')
    OBVIOUS
  <2>2. v.st = "ready" /\ v.link = slot[i].link /\ v.kind = slot[i].kind
        /\ v.out = slot[i].out /\ v.code = u.code /\ v.final = u.final
    BY <1>7, <1>8 DEF Alike
  <2>3. ~slot[i].final
    BY <1>1, <2>1 DEF Coherent
  <2>4. v.code = "ok" /\ slot[i].kind # "delayed" => slot[i].link \in cached'
    BY <1>2, <1>3, <1>7, <2>2, <2>3 DEF Offered
  <2> QED BY <2>1, <2>2, <2>4 DEF Coherent, Busy, OnWire
<1>11. cached \subseteq cached'
  BY <1>6
<1> QED BY <1>8, <1>9, <1>10, <1>11 DEF Goes

(* A thread ends: the state of its slot. *)
LEMMA ThreadAdvances ==
  ASSUME IInv, NEW t \in ftp, FtpThreadEnds(t), eng.mode # "end"
  PROVE  t.b \in Slots /\ Goes(t.b)
<1>1. PICK c \in {"ok", "failed"} :
        slot' = [slot EXCEPT ![t.b].st = "ftpready", ![t.b].code = c]
  BY DEF FtpThreadEnds
<1>2. /\ t.b \in Slots /\ slot[t.b] \in SlotType /\ slot[t.b].st = "ftp"
      /\ UNCHANGED <<stored, ghost, cached>>
  BY DEF IInv, TypeOK, Threads, FtpThreadEnds
<1> DEFINE i == t.b
           s == [slot[i] EXCEPT !.st = "ftpready", !.code = c]
<1>3. slot' = [slot EXCEPT ![i] = s]
  BY <1>1, <1>2 DEF IInv, TypeOK
<1>4. /\ s.st = "ftpready" /\ s.link = slot[i].link /\ s.kind = slot[i].kind
      /\ s.host = slot[i].host /\ s.locked = slot[i].locked /\ s.early = slot[i].early
      /\ s.out = slot[i].out /\ s.final = slot[i].final
  BY <1>2 DEF SlotType
<1> HIDE DEF s
<1>5. Frame(i) /\ slot'[i] = s
  BY <1>2, <1>3, OneSlot
<1>6. Advances(i)
  BY <1>2, <1>4, <1>5, AdvancesTo DEF Busy
<1>7. slot[i].link \in FtpLinks
  BY <1>2 DEF IInv, SlotsSound, Sound
<1>8. Coherent(slot[i], cached) => Coherent(s, cached')
  BY <1>2, <1>4, <1>7 DEF Coherent, Busy, OnWire
<1> QED BY <1>2, <1>5, <1>6, <1>8 DEF Goes

(* Every event of a transfer: its slot goes on or ends. *)
LEMMA Advancing ==
  ASSUME IInv, NEW i \in Slots, Events(i) \/ CancelFile(i)
  PROVE  Goes(i) /\ UNCHANGED <<lk, eng, budget, call>>
<1>1. Goes(i)
  BY FailsAdvance, GoesOnAdvance, LocalAdvance, BodyAdvance DEF Events
<1>2. UNCHANGED <<lk, eng, budget, call>>
  BY DEF Events, CancelFile, Broken, Connected, Handshake, Headers, NotModified,
         OpenOutput, BodyEnd, ChunkEnd, FtpCollect, NetStep
<1> QED BY <1>1, <1>2

(* No entry of l: in a slot, on the disk, or as a key that was left. *)
NoEntry(l) ==
  /\ \A q \in Slots : InUse(slot[q]) => slot[q].link # l
  /\ \A s \in stored : s.link # l
  /\ \A k \in ghost : k[1] # l

(* Each link has one entry at most. *)
Distinct ==
  /\ \A p, q \in Slots :
       InUse(slot[p]) /\ InUse(slot[q]) /\ slot[p].link = slot[q].link => p = q
  /\ \A q \in Slots, s \in stored : InUse(slot[q]) => slot[q].link # s.link
  /\ \A q \in Slots, k \in ghost : InUse(slot[q]) => slot[q].link # k[1]
  /\ \A s, t \in stored : s.link = t.link => s = t
  /\ \A s \in stored, k \in ghost : s.link # k[1]
  /\ \A j, k \in ghost : j[1] = k[1] => j = k

(* The modes of hts_wait_delayed, and those in which a link has no record. *)
TypeModes == {"type", "retype"}
NewModes == TypeModes \cup {"hold", "record"}

(* The call adds an entry. *)
Adding == call.at # "idle" /\ call.op \in {"add", "addif"}

(* A link is only added when it has no entry, under its final name unless  *)
(* its type is awaited.                                                    *)
AddsNew ==
  Adding =>
    /\ NoEntry(call.link)
    /\ lk[call.link] \in {"new", "recorded"}
    /\ call.link \notin UntypedLinks \/ lk[call.link] = "recorded" => call.kind = "final"
    /\ lk[call.link] = "new" => eng.mode \in TypeModes /\ eng.link = call.link

(* While a type is asked for, nothing else is added. *)
TypeCalls ==
  eng.mode \in TypeModes =>
    /\ budget = 0
    /\ call.at # "idle" => Adding /\ call.link = eng.link

(* A link without its name has an entry only while its type is awaited. *)
Unasked ==
  \A l \in Links :
    lk[l] = "new" /\ ~(eng.mode \in NewModes /\ eng.link = l) => NoEntry(l)

(* A file written in the background has no entry left. *)
DoneGone == \A l \in Links : lk[l] = "done" => NoEntry(l)

(* The link the engine waits for is on the heap, and not taken yet. *)
Awaited == eng.mode \in {"begin", "fetch"} => lk[eng.link] \in {"recorded", "done"}

(* Link l has its final name. *)
Named(l) == lk[l] \notin {"new", "refused"} \/ (eng.mode = "record" /\ eng.link = l)

(* A link that has its final name is not fetched under another. *)
FinalNames ==
  /\ \A q \in Slots : InUse(slot[q]) /\ Named(slot[q].link) => slot[q].kind = "final"
  /\ \A s \in stored : Named(s.link) => s.kind = "final"
  /\ \A k \in ghost : k[2] = "final"

(* The engine locks the slot of the link it is about. *)
LocksOwn ==
  \A q \in Slots :
    InUse(slot[q]) /\ slot[q].locked =>
      slot[q].link = eng.link /\ eng.mode \in {"hold", "fetch"}

(* The early flag is on while the link has no name. *)
EarlyNew ==
  \A q \in Slots :
    InUse(slot[q]) /\ lk[slot[q].link] = "new" =>
      slot[q].early \/ (eng.mode \in TypeModes /\ call.at = "idle")

(* The inductive invariant of the entries. *)
EntryInv ==
  /\ Distinct /\ AddsNew /\ TypeCalls /\ Unasked /\ DoneGone /\ Awaited
  /\ FinalNames /\ LocksOwn /\ EarlyNew

(* Entries only go. *)
Fewer ==
  /\ \A q \in Slots :
       InUse(slot'[q]) =>
         /\ InUse(slot[q])
         /\ slot'[q].link = slot[q].link /\ slot'[q].kind = slot[q].kind
         /\ slot'[q].locked = slot[q].locked /\ slot'[q].early = slot[q].early
  /\ stored' \subseteq stored
  /\ ghost' \subseteq ghost

-----------------------------------------------------------------------------
(* Entries *)

(* A transfer under way uses its slot. *)
LEMMA BusyInUse ==
  ASSUME NEW s, s.st \in Busy \cup {"ready"}
  PROVE  InUse(s)
BY DEF Busy, OnWire, InUse

(* Steps after which entries are the same, go on, or are released. *)
LEMMA FewerEntries ==
  ASSUME \/ Calm
         \/ \E p \in Slots : Advances(p) \/ Releases(p)
         \/ UNCHANGED <<slot, stored, ghost>>
  PROVE  Fewer
<1>1. CASE Calm
  BY <1>1 DEF Calm, Fewer, Same, Alike, InUse
<1>2. CASE \E p \in Slots : Advances(p)
  BY <1>2, BusyInUse DEF Advances, Fewer, Rest, Same, Alike, InUse
<1>3. CASE \E p \in Slots : Releases(p)
  BY <1>3 DEF Releases, Fewer, Rest, Same, Alike, InUse
<1>4. CASE UNCHANGED <<slot, stored, ghost>>
  BY <1>4 DEF Fewer
<1> QED BY <1>1, <1>2, <1>3, <1>4

(* With fewer entries they remain distinct, and none appears. *)
LEMMA FewerDistinct ==
  ASSUME Fewer, Distinct
  PROVE  Distinct' /\ \A l : NoEntry(l) => NoEntry(l)'
<1>1. Distinct'
  BY DEF Fewer, Distinct
<1>2. \A l : NoEntry(l) => NoEntry(l)'
  BY DEF Fewer, NoEntry
<1> QED BY <1>1, <1>2

(* The link of the only entry that goes has none left. *)
LEMMA LastEntry ==
  ASSUME Distinct, NEW p \in Slots, Releases(p), NEW m, m = slot[p].link
  PROVE  NoEntry(m)'
<1>1. /\ ~InUse(slot'[p]) /\ InUse(slot[p])
      /\ \A q \in Slots \ {p} : InUse(slot'[q]) => InUse(slot[q]) /\ slot'[q].link = slot[q].link
      /\ UNCHANGED <<stored, ghost>>
  BY DEF Releases, Rest, Same, Alike, InUse
<1> QED BY <1>1 DEF Distinct, NoEntry

(* What the engine knows of the links, and its mode, stay. *)
LEMMA SteadyEntries ==
  ASSUME EntryInv, Fewer, UNCHANGED <<lk, eng>>, GoesOn,
         eng.mode \in TypeModes => budget' = budget
  PROVE  EntryInv'
<1>1. Distinct' /\ \A l : NoEntry(l) => NoEntry(l)'
  BY FewerDistinct DEF EntryInv
<1>2. Adding' => Adding /\ call'.link = call.link /\ call'.kind = call.kind
  BY DEF GoesOn, Adding
<1>3. AddsNew'
  BY <1>1, <1>2 DEF EntryInv, AddsNew
<1>4. TypeCalls'
  BY DEF EntryInv, TypeCalls, GoesOn, Adding
<1>5. Unasked' /\ DoneGone' /\ Awaited'
  BY <1>1 DEF EntryInv, Unasked, DoneGone, Awaited
<1>6. FinalNames'
  BY DEF EntryInv, FinalNames, Named, Fewer
<1>7. LocksOwn' /\ EarlyNew'
  BY DEF EntryInv, LocksOwn, EarlyNew, Fewer, GoesOn
<1> QED BY <1>1, <1>3, <1>4, <1>5, <1>6, <1>7 DEF EntryInv

(* Steps of the pool that leave no new entry. *)
LEMMA SteadySteps ==
  ASSUME IInv, EntryInv,
         \/ SweepAlive \/ SweepOther \/ ParkReady \/ TrimAlive
         \/ StoreReady /\ UNCHANGED <<slot, stored, ghost>>
         \/ \E i \in Slots : Events(i) \/ CancelFile(i)
         \/ AddIfNotExists \/ WaitReturns \/ StartFill \/ FillEnds
         \/ \E t \in ftp : FtpThreadEnds(t)
         \/ StopMirror \/ UNCHANGED vars
  PROVE  EntryInv'
<1>1. CASE \/ SweepAlive \/ SweepOther \/ ParkReady \/ TrimAlive
           \/ StoreReady /\ UNCHANGED <<slot, stored, ghost>>
  BY <1>1, CleanCalm, FewerEntries, SteadyEntries
<1>2. CASE \E i \in Slots : Events(i) \/ CancelFile(i)
  BY <1>2, Advancing, FewerEntries, SteadyEntries DEF Goes, GoesOn
<1>3. CASE AddIfNotExists \/ WaitReturns
  <2>1. /\ UNCHANGED <<slot, stored, ghost, lk, eng, budget>>
        /\ call' = Idle \/ (call.at = "exist" /\ call' = [call EXCEPT !.op = "add", !.at = "sweep"])
    BY <1>3 DEF AddIfNotExists, WaitReturns
  <2>2. call \in CallType /\ (call.at = "exist" => call.op = "addif")
    BY DEF IInv, TypeOK, Control
  <2>3. CASE call' = Idle
    BY <2>1, <2>3, FewerEntries, SteadyEntries DEF GoesOn, Idle
  <2>4. CASE call.at = "exist" /\ call' = [call EXCEPT !.op = "add", !.at = "sweep"]
    <3>1. GoesOn
      BY <2>2, <2>4 DEF GoesOn, CallType
    <3> QED BY <2>1, <3>1, FewerEntries, SteadyEntries
  <2> QED BY <2>1, <2>3, <2>4
<1>4. CASE StartFill \/ FillEnds \/ StopMirror \/ UNCHANGED vars
  <2>1. /\ UNCHANGED <<slot, stored, ghost, lk, eng, call>>
        /\ eng.mode \in TypeModes => budget' = budget
    BY <1>4 DEF StartFill, FillEnds, StopMirror, vars, TypeModes, EntryInv, TypeCalls
  <2> QED BY <2>1, FewerEntries, SteadyEntries DEF GoesOn
<1>5. CASE \E t \in ftp : FtpThreadEnds(t)
  <2>1. PICK t \in ftp : FtpThreadEnds(t)
    BY <1>5
  <2>2. UNCHANGED <<lk, eng, call, budget, stored, ghost>>
    BY <2>1 DEF FtpThreadEnds
  <2>3. CASE eng.mode = "end"
    <3>1. slot' = slot
      BY <2>1, <2>3 DEF FtpThreadEnds
    <3> QED BY <2>2, <3>1, FewerEntries, SteadyEntries DEF GoesOn
  <2>4. CASE eng.mode # "end"
    BY <2>1, <2>2, <2>4, ThreadAdvances, FewerEntries, SteadyEntries DEF Goes, GoesOn
  <2> QED BY <2>3, <2>4
<1> QED BY <1>1, <1>2, <1>3, <1>4, <1>5

(* The link of a file written in the background is done: it has no entry   *)
(* left, and was not being added.                                          *)
LEMMA SweepWrittenEntries ==
  ASSUME IInv, EntryInv, SweepWritten
  PROVE  EntryInv'
<1> DEFINE i == call.i
<1>0. PICK m \in Links : m = slot[i].link
  BY SweepReleases
<1>1. /\ i \in Slots /\ Releases(i) /\ InUse(slot[i]) /\ m \in Links
      /\ UNCHANGED <<eng, budget>> /\ GoesOn /\ call'.at # "idle" /\ lk \in [Links -> LinkStates]
      /\ lk' = lk \/ (lk[m] = "recorded" /\ lk' = [lk EXCEPT ![m] = "done"])
  BY <1>0, SweepReleases DEF Releases, IInv, TypeOK
<1>2. Fewer
  BY <1>1, FewerEntries
<1>3. CASE lk' = lk
  BY <1>1, <1>2, <1>3, SteadyEntries
<1>4. CASE lk[m] = "recorded" /\ lk' = [lk EXCEPT ![m] = "done"]
  <2>1. Distinct' /\ \A l : NoEntry(l) => NoEntry(l)'
    BY <1>2, FewerDistinct DEF EntryInv
  <2>2. NoEntry(m)'
    BY <1>0, <1>1, LastEntry DEF EntryInv
  <2>3. /\ lk'[m] = "done"
        /\ \A l \in Links : l # m => lk'[l] = lk[l]
    BY <1>1, <1>4
  <2> HIDE DEF i
  <2>4. Adding' => Adding /\ call'.link = call.link /\ call'.kind = call.kind
                   /\ call.link \in Links
    BY <1>1 DEF GoesOn, Adding, IInv, Control
  <2>5. Adding => call.link # m
    BY <1>0, <1>1 DEF EntryInv, AddsNew, NoEntry
  <2>6. AddsNew'
    BY <1>1, <2>1, <2>3, <2>4, <2>5 DEF EntryInv, AddsNew
  <2>7. TypeCalls'
    BY <1>1 DEF EntryInv, TypeCalls, GoesOn, Adding
  <2>8. Unasked' /\ DoneGone'
    BY <1>1, <2>1, <2>2, <2>3 DEF EntryInv, Unasked, DoneGone
  <2>9. Awaited'
    BY <1>1, <1>4, <2>3 DEF EntryInv, Awaited, IInv, Control
  <2>10. \A q \in Slots : InUse(slot[q]) => slot[q].link \in Links
    BY DEF IInv, SlotsSound, Sound
  <2>11. \A s \in stored : s.link \in Links
    BY DEF IInv, StoredSound
  <2>12. \A l \in Links : Named(l)' => Named(l)
    BY <1>1, <1>4, <2>3 DEF Named
  <2>13. FinalNames'
    BY <1>2, <2>10, <2>11, <2>12 DEF EntryInv, FinalNames, Fewer
  <2>14. LocksOwn' /\ EarlyNew'
    BY <1>1, <1>2, <2>3, <2>10 DEF EntryInv, LocksOwn, EarlyNew, Fewer, GoesOn
  <2> QED BY <2>1, <2>6, <2>7, <2>8, <2>9, <2>13, <2>14 DEF EntryInv
<1> QED BY <1>1, <1>3, <1>4

(* An entry that leaves its slot for the disk remains the only one.        *)
LEMMA StoreReadyEntries ==
  ASSUME IInv, EntryInv, StoreReady
  PROVE  EntryInv'
<1> DEFINE i == call.i
           m == slot[i].link
<1>1. CASE UNCHANGED <<slot, stored, ghost>>
  BY <1>1, SteadySteps
<1>2. CASE ~UNCHANGED <<slot, stored, ghost>>
  <2>1. /\ i \in Slots /\ slot[i].st = "ready" /\ m \in Links
        /\ ~InUse(slot'[i])
        /\ \A q \in Slots \ {i} : slot'[q] = slot[q]
        /\ stored' \subseteq stored \cup {slot[i]} /\ ghost' \subseteq ghost
        /\ UNCHANGED <<lk, eng, budget>> /\ GoesOn /\ call'.at # "idle"
    BY <1>2, StoreMoves
  <2>2. InUse(slot[i])
    BY <2>1 DEF InUse
  <2>3. Distinct'
    BY <2>1, <2>2 DEF EntryInv, Distinct
  <2>4. \A l : NoEntry(l) => NoEntry(l)'
    BY <2>1, <2>2 DEF NoEntry
  <2>5. Adding' => Adding /\ call'.link = call.link /\ call'.kind = call.kind
    BY <2>1 DEF GoesOn, Adding
  <2>6. AddsNew'
    BY <2>1, <2>4, <2>5 DEF EntryInv, AddsNew
  <2>7. TypeCalls'
    BY <2>1 DEF EntryInv, TypeCalls, GoesOn, Adding
  <2>8. Unasked' /\ DoneGone' /\ Awaited'
    BY <2>1, <2>4 DEF EntryInv, Unasked, DoneGone, Awaited
  <2>9. FinalNames'
    BY <2>1, <2>2 DEF EntryInv, FinalNames, Named
  <2>10. LocksOwn' /\ EarlyNew'
    BY <2>1 DEF EntryInv, LocksOwn, EarlyNew, GoesOn
  <2> QED BY <2>3, <2>6, <2>7, <2>8, <2>9, <2>10 DEF EntryInv
<1> QED BY <1>1, <1>2

(* A link that is added had no entry: it has one now. *)
LEMMA EnteringEntries ==
  ASSUME IInv, EntryInv,
         AddStopped \/ AddKnown \/ AddFtp \/ AddLive \/ AddConnect \/ AddRefused
  PROVE  EntryInv'
<1>1. /\ call.at = "fill" /\ call' = Idle /\ call.link \in Links
      /\ UNCHANGED <<lk, eng, budget>>
  BY Entering
<1>2. PICK q \in Slots, s \in SlotType : Enters(q, s)
  BY Entering
<1>3. /\ slot'[q].link = call.link /\ slot'[q].kind = call.kind /\ InUse(slot'[q])
      /\ ~slot'[q].locked /\ ~InUse(slot[q])
      /\ \A r \in Slots \ {q} :
           InUse(slot'[r]) =>
             /\ InUse(slot[r]) /\ slot'[r].link = slot[r].link /\ slot'[r].kind = slot[r].kind
             /\ slot'[r].locked = slot[r].locked /\ slot'[r].early = slot[r].early
      /\ UNCHANGED <<stored, ghost>>
  BY <1>2 DEF Enters, Rest, Same, Alike, InUse
<1>4. Adding /\ call'.at = "idle" /\ ~Adding'
  BY <1>1 DEF Adding, Idle, IInv, Control
<1>5. NoEntry(call.link) /\ lk[call.link] \in {"new", "recorded"}
      /\ (lk[call.link] = "recorded" => call.kind = "final")
      /\ (lk[call.link] = "new" => eng.mode \in TypeModes /\ eng.link = call.link)
  BY <1>4 DEF EntryInv, AddsNew
<1>6. Distinct'
  BY <1>3, <1>5 DEF EntryInv, Distinct, NoEntry
<1>7. \A l : NoEntry(l) /\ l # call.link => NoEntry(l)'
  BY <1>3 DEF NoEntry
<1>8. AddsNew' /\ TypeCalls' /\ Awaited'
  BY <1>1, <1>4 DEF EntryInv, AddsNew, TypeCalls, Awaited
<1>9. Unasked' /\ DoneGone'
  BY <1>1, <1>5, <1>7 DEF EntryInv, Unasked, DoneGone, NewModes
<1>10. FinalNames'
  BY <1>1, <1>3, <1>5 DEF EntryInv, FinalNames, Named, TypeModes
<1>11. LocksOwn' /\ EarlyNew'
  BY <1>1, <1>3, <1>4, <1>5 DEF EntryInv, LocksOwn, EarlyNew
<1> QED BY <1>6, <1>8, <1>9, <1>10, <1>11 DEF EntryInv

(* No slot is found: the link has no entry, and the mirror may give up. *)
LEMMA AddFullEntries ==
  ASSUME IInv, EntryInv, AddFull
  PROVE  EntryInv'
<1>1. /\ call.at = "fill" /\ call' = Idle /\ UNCHANGED <<slot, stored, ghost, lk>>
      /\ \/ eng' = eng
         \/ eng.mode \in TypeModes /\ eng' = [InMain EXCEPT !.mode = "panic"]
      /\ eng.mode \in TypeModes => budget' = budget
  BY DEF EntryInv, TypeCalls, AddFull, TypeModes
<1>2. Fewer /\ GoesOn
  BY <1>1, FewerEntries DEF GoesOn, Idle
<1>3. CASE eng' = eng
  BY <1>1, <1>2, <1>3, SteadyEntries
<1>4. CASE eng.mode \in TypeModes /\ eng' = [InMain EXCEPT !.mode = "panic"]
  <2>1. Distinct' /\ \A l : NoEntry(l) => NoEntry(l)'
    BY <1>2, FewerDistinct DEF EntryInv
  <2>2. eng'.mode = "panic" /\ ~Adding' /\ call'.at = "idle"
    BY <1>1, <1>4 DEF InMain, Adding, Idle
  <2>3. NoEntry(eng.link)
    BY <1>1, <1>4 DEF EntryInv, AddsNew, TypeCalls
  <2>4. AddsNew' /\ TypeCalls' /\ Awaited'
    BY <2>2 DEF AddsNew, TypeCalls, Awaited, TypeModes
  <2>5. Unasked' /\ DoneGone'
    BY <1>1, <2>1, <2>3 DEF EntryInv, Unasked, DoneGone
  <2>6. FinalNames'
    BY <1>1, <1>4, <2>2 DEF EntryInv, FinalNames, Named
  <2>7. LocksOwn'
    BY <1>1, <1>4, <2>2 DEF EntryInv, LocksOwn, TypeModes
  <2>8. EarlyNew'
    <3> SUFFICES ASSUME NEW q \in Slots, InUse(slot[q]), lk[slot[q].link] = "new"
                 PROVE  slot[q].early
      BY <1>1 DEF EarlyNew
    <3> QED BY <1>1 DEF EntryInv, EarlyNew
  <2> QED BY <2>1, <2>4, <2>5, <2>6, <2>7, <2>8 DEF EntryInv
<1> QED BY <1>1, <1>3, <1>4

(* The links of the entries. *)
LEMMA EntryLinks ==
  ASSUME IInv
  PROVE  /\ \A q \in Slots : InUse(slot[q]) => slot[q].link \in Links
         /\ \A s \in stored : s.link \in Links
         /\ \A k \in ghost : k = <<k[1], k[2]>> /\ k[1] \in Links
BY DEF IInv, SlotsSound, Sound, StoredSound, TypeOK

(* back_exist finds any entry of a link that has its name. *)
LEMMA NotExists ==
  ASSUME IInv, EntryInv, NEW l \in Links, lk[l] = "recorded", ~Exists(l, "final")
  PROVE  NoEntry(l)
<1>1. Named(l)
  BY DEF Named
<1>2. \A q \in Slots : InUse(slot[q]) => slot[q].link # l
  BY DEF Exists, InSlots, InUse
<1>3. \A s \in stored : s.link # l
  BY <1>1 DEF EntryInv, FinalNames, Exists, InStore
<1>4. \A k \in ghost : k[1] # l
  BY EntryLinks DEF EntryInv, FinalNames, Exists
<1> QED BY <1>2, <1>3, <1>4 DEF NoEntry

(* A call starts, or the engine turns to a link that has its name. *)
LEMMA StartsEntries ==
  ASSUME IInv, EntryInv, UNCHANGED <<slot, stored, ghost, lk>>,
         eng.mode \notin TypeModes, eng'.mode \notin TypeModes,
         eng' = eng \/ (eng.mode \notin NewModes /\ eng'.mode \notin NewModes),
         eng'.mode \in {"begin", "fetch"} => lk[eng'.link] \in {"recorded", "done"},
         eng.mode = "fetch" => eng'.mode = "fetch" /\ eng'.link = eng.link,
         Adding' =>
           /\ NoEntry(call'.link)
           /\ lk[call'.link] = "recorded"
           /\ call'.kind = "final"
  PROVE  EntryInv'
<1>1. Distinct' /\ \A l : NoEntry(l) => NoEntry(l)'
  BY FewerEntries, FewerDistinct DEF EntryInv
<1>2. AddsNew'
  <2>1. SUFFICES ASSUME Adding' PROVE (NoEntry(call.link)
                                       /\ lk[call.link] \in {"new", "recorded"}
                                       /\ (call.link \notin UntypedLinks \/ lk[call.link] = "recorded"
                                             => call.kind = "final")
                                       /\ (lk[call.link] = "new" =>
                                             eng.mode \in TypeModes /\ eng.link = call.link))'
    BY DEF AddsNew
  <2>2. NoEntry(call.link)'
    BY <2>1 DEF NoEntry
  <2> QED BY <2>1, <2>2
<1>3. TypeCalls' /\ Awaited'
  BY DEF TypeCalls, Awaited
<1>4. Unasked' /\ DoneGone'
  BY <1>1 DEF EntryInv, Unasked, DoneGone, NewModes
<1>5. FinalNames'
  BY DEF EntryInv, FinalNames, Named, NewModes
<1>6. LocksOwn'
  BY DEF EntryInv, LocksOwn, NewModes
<1>7. EarlyNew'
  BY DEF EntryInv, EarlyNew
<1> QED BY <1>1, <1>2, <1>3, <1>4, <1>5, <1>6, <1>7 DEF EntryInv

(* The engine starts a call of back_wait, or back_fill adds a link. *)
LEMMA CallsEntries ==
  ASSUME IInv, EntryInv,
         \/ MainWait \/ FetchWait \/ FetchPause \/ HoldWait
         \/ \E l \in Links : FillAdd(l) \/ BeginFetch(l)
  PROVE  EntryInv'
<1>1. CASE MainWait \/ FetchWait \/ FetchPause \/ HoldWait
  <2>1. /\ UNCHANGED <<slot, stored, ghost, lk>>
        /\ Begin("wait", NoLink, "final")
        /\ eng.mode \in {"main", "begin", "fetch", "hold", "record"}
        /\ \/ eng' = eng
           \/ eng.mode \in {"begin", "fetch"} /\ eng' = [eng EXCEPT !.mode = "fetch"]
    BY <1>1 DEF MainWait, FetchWait, FetchPause, HoldWait, Fetching, Holding, Calls
  <2>2. ~Adding'
    BY <2>1 DEF Begin, Adding
  <2>3. eng'.mode \in {eng.mode, "fetch"} /\ eng'.link = eng.link
        /\ (eng' = eng \/ (eng.mode \in {"begin", "fetch"} /\ eng'.mode = "fetch"))
        /\ (eng.mode = "fetch" => eng'.mode = "fetch")
    BY <2>1 DEF IInv, TypeOK, EngType
  <2>4. eng'.mode \in {"begin", "fetch"} => lk[eng'.link] \in {"recorded", "done"}
    BY <2>1, <2>3 DEF EntryInv, Awaited
  <2> QED BY <2>1, <2>2, <2>3, <2>4, StartsEntries DEF TypeModes, NewModes
<1>2. CASE \E l \in Links : FillAdd(l)
  <2>1. PICK l \in Links : FillAdd(l)
    BY <1>2
  <2>2. /\ UNCHANGED <<slot, stored, ghost, lk, eng>>
        /\ lk[l] = "recorded" /\ ~Exists(l, "final") /\ Begin("add", l, "final")
        /\ budget > 0
    BY <2>1 DEF FillAdd
  <2>3. call'.link = l /\ call'.kind = "final"
    BY <2>2 DEF Begin
  <2>4. NoEntry(l)
    BY <2>2, NotExists
  <2>5. eng.mode \notin TypeModes
    BY <2>2, PoolAssumption DEF EntryInv, TypeCalls, IInv, TypeOK
  <2>6. eng'.mode \in {"begin", "fetch"} => lk[eng'.link] \in {"recorded", "done"}
    BY <2>2 DEF EntryInv, Awaited
  <2> QED BY <2>2, <2>3, <2>4, <2>5, <2>6, StartsEntries
<1>3. CASE \E l \in Links : BeginFetch(l)
  <2>1. PICK l \in Links : BeginFetch(l)
    BY <1>3
  <2>2. /\ UNCHANGED <<slot, stored, ghost, lk>>
        /\ eng.mode = "main" /\ eng'.mode = "begin" /\ eng'.link = l
        /\ lk[l] = "recorded" /\ call.at = "idle"
        /\ IF Exists(l, "final") THEN call' = call ELSE Begin("add", l, "final")
    BY <2>1 DEF BeginFetch, Calls, Ready
  <2>3. Adding' => NoEntry(call'.link) /\ call'.link = l /\ call'.kind = "final"
    BY <2>2, NotExists DEF Begin, Adding
  <2> QED BY <2>2, <2>3, StartsEntries DEF TypeModes, NewModes
<1> QED BY <1>1, <1>2, <1>3

(* A link is added for its type: it had no entry. *)
LEMMA TypeCallEntries ==
  ASSUME IInv, EntryInv, Fewer, UNCHANGED lk, budget' = 0,
         NEW l \in Links, lk[l] = "new", NEW kd \in Kinds, l \in UntypedLinks,
         NoEntry(l)', Begin("addif", l, kd),
         eng'.mode \in TypeModes, eng'.link = l,
         eng.mode = "main" \/ (eng.mode \in TypeModes /\ eng.link = l /\ call.at = "idle")
  PROVE  EntryInv'
<1>1. Distinct' /\ \A m : NoEntry(m) => NoEntry(m)'
  BY FewerDistinct DEF EntryInv
<1>2. call'.link = l /\ call'.op = "addif" /\ call'.at = "sweep"
  BY DEF Begin
<1>3. AddsNew'
  <2>1. NoEntry(call.link)'
    BY <1>2 DEF NoEntry
  <2> QED BY <1>2, <2>1 DEF AddsNew
<1>4. TypeCalls' /\ Awaited'
  BY <1>2 DEF TypeCalls, Awaited, Adding, TypeModes
<1>5. Unasked' /\ DoneGone'
  BY <1>1 DEF EntryInv, Unasked, DoneGone, NewModes, TypeModes
<1>6. FinalNames'
  BY DEF EntryInv, FinalNames, Named, Fewer, TypeModes
<1>7. LocksOwn'
  BY DEF EntryInv, LocksOwn, Fewer, TypeModes
<1>8. EarlyNew'
  <2> SUFFICES ASSUME NEW q \in Slots, InUse(slot'[q]), lk[slot'[q].link] = "new"
               PROVE  slot'[q].early
    BY DEF EarlyNew
  <2>1. slot'[q].link # l /\ InUse(slot[q]) /\ slot'[q].link = slot[q].link
        /\ slot'[q].early = slot[q].early
    BY DEF NoEntry, Fewer
  <2>2. ~NoEntry(slot[q].link) /\ slot[q].link \in Links
    BY <2>1, EntryLinks DEF NoEntry
  <2>3. eng.mode = "main" => FALSE
    BY <2>1, <2>2 DEF EntryInv, Unasked, NewModes, TypeModes
  <2>4. eng.mode \in TypeModes => FALSE
    BY <2>1, <2>2 DEF EntryInv, Unasked, NewModes, TypeModes
  <2> QED BY <2>3, <2>4
<1> QED BY <1>1, <1>3, <1>4, <1>5, <1>6, <1>7, <1>8 DEF EntryInv

(* The type of a link is asked for. *)
LEMMA BeginTypeEntries ==
  ASSUME IInv, EntryInv, NEW l \in Links, BeginType(l)
  PROVE  EntryInv'
<1>1. /\ UNCHANGED <<slot, stored, ghost, lk, budget>> /\ budget = 0
      /\ eng.mode = "main" /\ lk[l] = "new" /\ Begin("addif", l, "delayed")
      /\ eng'.mode = "type" /\ eng'.link = l
  BY DEF BeginType, Calls, Ready
<1>2. Fewer
  BY <1>1, FewerEntries
<1>3. NoEntry(l)
  BY <1>1 DEF EntryInv, Unasked, NewModes, TypeModes
<1>4. NoEntry(l)'
  BY <1>2, <1>3, FewerDistinct DEF EntryInv
<1>5. l \in UntypedLinks
  BY <1>1 DEF IInv, Control
<1> QED BY <1>1, <1>2, <1>4, <1>5, TypeCallEntries DEF TypeModes, Kinds

(* A stored answer comes back into a slot, or leaves its key. *)
LEMMA ThawEntries ==
  ASSUME IInv, EntryInv, FetchThaw \/ ThawFails
  PROVE  EntryInv'
<1>1. /\ call.at = "idle" /\ call' = call /\ lk' = lk /\ budget' = budget
      /\ eng.mode \in {"begin", "fetch"} /\ eng'.mode = "fetch" /\ eng'.link = eng.link
      /\ InSlots(eng.link) = {} /\ eng.link \in Links
  BY DEF FetchThaw, ThawFails, Fetching, Ready, IInv, TypeOK, EngType, Control
<1>2. PICK s \in stored :
        /\ s.link = eng.link /\ s.kind = "final" /\ stored' = stored \ {s}
        /\ \/ \E q \in Slots : Wake(s, q) /\ ghost' = ghost
           \/ slot' = slot /\ ghost' = ghost \cup {<<s.link, s.kind>>}
  BY DEF FetchThaw, ThawFails, InStore, Wake
<1>3. lk[eng.link] = "recorded"
  BY <1>1, <1>2 DEF EntryInv, Awaited, DoneGone, NoEntry
<1>4. ~Adding' /\ TypeCalls' /\ Awaited'
  BY <1>1, <1>3 DEF Adding, TypeCalls, TypeModes, Awaited
<1>5. AddsNew'
  BY <1>4 DEF AddsNew
<1>6. CASE \E q \in Slots : Wake(s, q) /\ ghost' = ghost
  <2>1. PICK q \in Slots : Wake(s, q) /\ ghost' = ghost
    BY <1>6
  <2> DEFINE u == [s EXCEPT !.locked = TRUE]
  <2>2. s \in SlotType /\ s.st = "ready"
    BY DEF IInv, TypeOK, StoredSound
  <2>3. u.link = s.link /\ u.kind = "final" /\ u.st = "ready"
    BY <1>2, <2>2 DEF SlotType
  <2>4. q \in Search /\ slot' = [slot EXCEPT ![q] = u]
    BY <2>1 DEF Wake, Put
  <2> HIDE DEF u
  <2>5. ~InUse(slot[q]) /\ slot'[q] = u /\ InUse(u)
        /\ \A r \in Slots \ {q} : slot'[r] = slot[r]
    BY <2>3, <2>4, SearchFinds DEF IInv, TypeOK, InUse
  <2>6. Distinct'
    BY <1>2, <2>1, <2>3, <2>5 DEF EntryInv, Distinct
  <2>7. \A l : NoEntry(l) => NoEntry(l)'
    BY <1>2, <2>1, <2>3, <2>5 DEF NoEntry
  <2>8. Unasked' /\ DoneGone'
    BY <1>1, <1>3, <2>7 DEF EntryInv, Unasked, DoneGone, NewModes, TypeModes
  <2>9. FinalNames'
    BY <1>1, <1>2, <2>1, <2>3, <2>5 DEF EntryInv, FinalNames, Named
  <2>10. LocksOwn'
    BY <1>1, <1>2, <2>3, <2>5 DEF EntryInv, LocksOwn
  <2>11. EarlyNew'
    BY <1>1, <1>2, <1>3, <2>3, <2>5 DEF EntryInv, EarlyNew, TypeModes
  <2> QED BY <1>4, <1>5, <2>6, <2>8, <2>9, <2>10, <2>11 DEF EntryInv
<1>7. CASE slot' = slot /\ ghost' = ghost \cup {<<s.link, s.kind>>}
  <2>1. Distinct'
    BY <1>1, <1>2, <1>7 DEF EntryInv, Distinct, InSlots, InUse
  <2>2. \A l : NoEntry(l) => NoEntry(l)'
    BY <1>2, <1>7 DEF NoEntry
  <2>3. Unasked' /\ DoneGone'
    BY <1>1, <1>3, <2>2 DEF EntryInv, Unasked, DoneGone, NewModes, TypeModes
  <2>4. FinalNames'
    BY <1>1, <1>2, <1>7 DEF EntryInv, FinalNames, Named
  <2>5. LocksOwn' /\ EarlyNew'
    BY <1>1, <1>7 DEF EntryInv, LocksOwn, EarlyNew, TypeModes
  <2> QED BY <1>4, <1>5, <2>1, <2>3, <2>4, <2>5 DEF EntryInv
<1> QED BY <1>2, <1>6, <1>7

(* The engine is back in its main loop: no slot is locked, and what was    *)
(* recorded and banned, skipped or answered has its name.                  *)
LEMMA MainEntries ==
  ASSUME IInv, EntryInv, Distinct', \A l : NoEntry(l) => NoEntry(l)',
         \A q \in Slots : InUse(slot'[q]) =>
           /\ InUse(slot[q]) /\ slot'[q].link = slot[q].link
           /\ slot'[q].kind = slot[q].kind /\ ~slot'[q].locked
           /\ slot'[q].early = slot[q].early,
         stored' \subseteq stored, ghost' \subseteq ghost,
         call.at = "idle", call' = call, eng'.mode \in {"main", "end"},
         NEW m \in Links, eng.mode \notin NewModes \/ m = eng.link,
         lk' \in [Links -> LinkStates],
         \A l \in Links : l # m /\ lk'[l] # lk[l] => lk[l] = "recorded" /\ lk'[l] # "done",
         \A l \in Links : lk'[l] = "new" => lk[l] = "new",
         lk'[m] = "new" => NoEntry(m)',
         lk'[m] = "done" => lk[m] = "done",
         lk'[m] \notin {"new", "refused"} => Named(m)
  PROVE  EntryInv'
<1>1. ~Adding' /\ AddsNew' /\ TypeCalls' /\ Awaited'
  BY DEF Adding, AddsNew, TypeCalls, Awaited, TypeModes
<1>2. Unasked'
  <2> SUFFICES ASSUME NEW l \in Links, lk'[l] = "new"
               PROVE  NoEntry(l)'
    BY DEF Unasked
  <2>1. CASE l = m
    BY <2>1
  <2>2. CASE l # m
    BY <2>2 DEF EntryInv, Unasked
  <2> QED BY <2>1, <2>2
<1>3. DoneGone'
  <2> SUFFICES ASSUME NEW l \in Links, lk'[l] = "done"
               PROVE  NoEntry(l)'
    BY DEF DoneGone
  <2>1. lk[l] = "done"
    OBVIOUS
  <2> QED BY <2>1 DEF EntryInv, DoneGone
<1>4. \A l \in Links : lk'[l] \notin {"new", "refused"} => Named(l)
  BY DEF Named
<1>5. FinalNames'
  BY <1>4, EntryLinks DEF EntryInv, FinalNames, Named
<1>6. LocksOwn'
  BY DEF LocksOwn
<1>7. EarlyNew'
  <2> SUFFICES ASSUME NEW q \in Slots, InUse(slot'[q]), lk'[slot'[q].link] = "new"
               PROVE  slot'[q].early
    BY DEF EarlyNew
  <2>1. PICK l \in Links : l = slot'[q].link
    BY EntryLinks
  <2>3. ~NoEntry(l)'
    BY <2>1 DEF NoEntry
  <2>2. eng'.mode \notin NewModes
    BY DEF NewModes, TypeModes
  <2> QED BY <1>2, <2>1, <2>2, <2>3 DEF Unasked
<1>8. Distinct'
  OBVIOUS
<1> QED BY <1>1, <1>2, <1>3, <1>5, <1>6, <1>7, <1>8 DEF EntryInv

(* The link is skipped. *)
LEMMA FetchGoneEntries ==
  ASSUME IInv, EntryInv, FetchGone
  PROVE  EntryInv'
<1> DEFINE m == eng.link
<1>1. /\ call.at = "idle" /\ call' = call /\ UNCHANGED <<slot, stored, ghost>>
      /\ eng.mode \in {"begin", "fetch"} /\ eng'.mode = "main" /\ m \in Links
      /\ InSlots(m) = {}
      /\ lk' = IF lk[m] = "recorded" THEN [lk EXCEPT ![m] = "skipped"] ELSE lk
      /\ lk[m] \in {"recorded", "done"} /\ lk \in [Links -> LinkStates]
  BY DEF FetchGone, Fetching, Ready, InMain, IInv, Control, EntryInv, Awaited, TypeOK
<1>2. Distinct' /\ \A l : NoEntry(l) => NoEntry(l)'
  BY <1>1, FewerEntries, FewerDistinct DEF EntryInv
<1>3. \A q \in Slots : InUse(slot[q]) => ~slot[q].locked
  BY <1>1 DEF EntryInv, LocksOwn, InSlots, InUse
<1>4. /\ lk' \in [Links -> LinkStates]
      /\ \A l \in Links : l # m => lk'[l] = lk[l]
      /\ lk'[m] \in {"skipped", "done"} /\ (lk'[m] = "done" => lk[m] = "done")
      /\ Named(m)
  BY <1>1 DEF LinkStates, Named
<1> QED BY <1>1, <1>2, <1>3, <1>4, MainEntries DEF NewModes, TypeModes

-----------------------------------------------------------------------------
(* What the engine does with the answer it awaits *)

(* An entry is released. *)
LEMMA MayDeleteReleases ==
  ASSUME IInv, NEW b \in Slots, InUse(slot[b]), MayDelete(b) \/ Delete(b),
         UNCHANGED <<stored, ghost>>
  PROVE  Releases(b) /\ cached' = cached \cup Offered(slot[b])
<1>1. Frame(b) /\ ~InUse(slot'[b]) /\ cached' = cached \cup Offered(slot[b])
  BY MayDeletes DEF IInv, MayDelete
<1> QED BY <1>1, FrameRest DEF Releases

(* The answer of the current link is taken, retried or given up. *)
LEMMA Delivering ==
  ASSUME IInv, NEW b \in Slots, Deliver(b) \/ DeliverRetry(b) \/ DeliverError(b)
  PROVE  /\ Releases(b) /\ slot[b].st = "ready" /\ slot[b].link = eng.link
         /\ eng.link \in Links /\ eng.mode \in {"begin", "fetch"} /\ eng' = InMain
         /\ call.at = "idle" /\ budget = 0 /\ UNCHANGED <<call, budget>>
         /\ cached' = cached \cup Offered(slot[b])
         /\ \/ /\ slot[b].code \in Positive
               /\ lk' = [lk EXCEPT ![eng.link] =
                           IF slot[b].code = "ok" THEN "taken" ELSE "answered"]
            \/ slot[b].code \in {"failed", "error"} /\ lk' = lk
            \/ /\ slot[b].code \in {"failed", "invalid"}
               /\ lk' = [lk EXCEPT ![eng.link] = "failed"]
<1>1. Arrived(b) /\ (MayDelete(b) \/ Delete(b))
  BY DEF Deliver, DeliverRetry, DeliverError
<1>2. /\ InUse(slot[b]) /\ UNCHANGED <<stored, ghost, call, budget>>
      /\ slot[b].st = "ready" /\ slot[b].link = eng.link
      /\ eng.link \in Links /\ eng.mode \in {"begin", "fetch"} /\ eng' = InMain
      /\ call.at = "idle" /\ budget = 0
  BY <1>1, ArrivedSlot
<1>3. Releases(b) /\ cached' = cached \cup Offered(slot[b])
  BY <1>1, <1>2, MayDeleteReleases
<1> QED BY <1>2, <1>3 DEF Deliver, DeliverRetry, DeliverError, Settle

(* The links of a banned host, and their slots. *)
LEMMA Banning ==
  ASSUME IInv, NEW b \in Slots, DeliverBan(b)
  PROVE  /\ slot[b].st = "ready" /\ slot[b].link = eng.link /\ slot[b].code = "failed"
         /\ InUse(slot[b]) /\ slot'[b] = FreeSlot /\ ~InUse(slot'[b])
         /\ \A q \in Slots \ {b} :
              slot'[q] = IF OfHost(q, HostOf[eng.link]) THEN Failed(slot[q], "failed")
                         ELSE slot[q]
         /\ eng.link \in Links /\ eng.mode \in {"begin", "fetch"} /\ eng' = InMain
         /\ call.at = "idle" /\ budget = 0
         /\ UNCHANGED <<call, budget, stored, ghost, cached>>
         /\ lk' = [l \in Links |->
                     IF l = eng.link THEN "failed"
                     ELSE IF HostOf[l] = HostOf[eng.link] /\ lk[l] = "recorded"
                     THEN "banned" ELSE lk[l]]
<1>1. Arrived(b) /\ slot[b].code = "failed" /\ UNCHANGED cached
      /\ slot' = [q \in Slots |->
                    IF q = b THEN FreeSlot
                    ELSE IF OfHost(q, HostOf[eng.link]) THEN Failed(slot[q], "failed")
                    ELSE slot[q]]
      /\ lk' = [l \in Links |->
                  IF l = eng.link THEN "failed"
                  ELSE IF HostOf[l] = HostOf[eng.link] /\ lk[l] = "recorded"
                  THEN "banned" ELSE lk[l]]
  BY DEF DeliverBan
<1>2. ~InUse(FreeSlot)
  BY FreeSlotType DEF InUse
<1> QED BY <1>1, <1>2, ArrivedSlot

(* A slot that has failed is the same entry, ended. *)
LEMMA FailedAlike ==
  ASSUME NEW s \in SlotType, NEW c \in Codes
  PROVE  LET f == Failed(s, c)
         IN  /\ f.st = "ready" /\ f.code = c /\ f.link = s.link /\ f.kind = s.kind
             /\ f.host = s.host /\ f.out = s.out /\ f.final = s.final
             /\ f.locked = s.locked /\ f.early = s.early
BY DEF Failed, SlotType

(* The engine is done with the link: it has no entry any more, and is the  *)
(* only one that a slot was locked for.                                    *)
LEMMA ReleasedEntries ==
  ASSUME IInv, EntryInv, NEW b \in Slots, NEW m \in Links, m = eng.link,
         slot[b].link = m, Releases(b),
         call.at = "idle", call' = call, eng'.mode \in {"main", "end"},
         lk' \in [Links -> LinkStates],
         \A l \in Links : l # m => lk'[l] = lk[l],
         lk'[m] \notin {"new", "done"}, lk'[m] # "refused" => Named(m)
  PROVE  EntryInv'
<1>1. Fewer
  BY FewerEntries
<1>2. Distinct' /\ \A l : NoEntry(l) => NoEntry(l)'
  BY <1>1, FewerDistinct DEF EntryInv
<1>3. NoEntry(m)'
  BY LastEntry DEF EntryInv
<1>4. \A q \in Slots : InUse(slot'[q]) =>
        /\ InUse(slot[q]) /\ slot'[q].link = slot[q].link
        /\ slot'[q].kind = slot[q].kind /\ ~slot'[q].locked
        /\ slot'[q].early = slot[q].early
  <2> SUFFICES ASSUME NEW q \in Slots, InUse(slot'[q])
               PROVE  ~slot'[q].locked
    BY <1>1 DEF Fewer
  <2>1. slot'[q].link # m
    BY <1>3 DEF NoEntry
  <2> QED BY <1>1, <2>1 DEF Fewer, EntryInv, LocksOwn, IInv, TypeOK, SlotType
<1>5. stored' \subseteq stored /\ ghost' \subseteq ghost
  BY <1>1 DEF Fewer
<1> QED BY <1>2, <1>3, <1>4, <1>5, MainEntries

(* The answer is taken. *)
LEMMA DeliverEntries ==
  ASSUME IInv, EntryInv, NEW b \in Slots, Deliver(b) \/ DeliverRetry(b) \/ DeliverError(b)
  PROVE  EntryInv'
<1> DEFINE m == eng.link
<1>1. /\ Releases(b) /\ InUse(slot[b]) /\ slot[b].link = m /\ m \in Links
      /\ eng.mode \in {"begin", "fetch"} /\ eng'.mode = "main"
      /\ call.at = "idle" /\ call' = call /\ lk \in [Links -> LinkStates]
      /\ \/ lk' = lk
         \/ \E how \in {"taken", "answered", "failed"} : lk' = [lk EXCEPT ![m] = how]
  BY Delivering DEF InMain, Releases, IInv, TypeOK
<1>2. lk[m] = "recorded"
  BY <1>1 DEF EntryInv, Awaited, DoneGone, NoEntry
<1>3. /\ lk' \in [Links -> LinkStates]
      /\ \A l \in Links : l # m => lk'[l] = lk[l]
      /\ lk'[m] \in {"recorded", "taken", "answered", "failed"}
  BY <1>1, <1>2 DEF LinkStates
<1>4. Named(m)
  BY <1>2 DEF Named
<1> QED BY <1>1, <1>3, <1>4, ReleasedEntries

(* A host is banned. *)
LEMMA BanEntries ==
  ASSUME IInv, EntryInv, NEW b \in Slots, DeliverBan(b)
  PROVE  EntryInv'
<1> DEFINE m == eng.link
<1>1. /\ InUse(slot[b]) /\ slot[b].link = m /\ m \in Links /\ ~InUse(slot'[b])
      /\ eng.mode \in {"begin", "fetch"} /\ eng'.mode = "main"
      /\ call.at = "idle" /\ call' = call /\ UNCHANGED <<stored, ghost>>
      /\ lk' = [l \in Links |->
                  IF l = m THEN "failed"
                  ELSE IF HostOf[l] = HostOf[m] /\ lk[l] = "recorded"
                  THEN "banned" ELSE lk[l]]
  BY Banning DEF InMain
<1>2. \A q \in Slots \ {b} : slot'[q] \in {slot[q], Failed(slot[q], "failed")}
      /\ (InUse(slot'[q]) => InUse(slot[q]))
  BY Banning DEF OfHost, InUse
<1>3. \A q \in Slots : InUse(slot'[q]) =>
        /\ q # b /\ InUse(slot[q]) /\ slot'[q].link = slot[q].link
        /\ slot'[q].kind = slot[q].kind /\ slot'[q].locked = slot[q].locked
        /\ slot'[q].early = slot[q].early
  <2> SUFFICES ASSUME NEW q \in Slots \ {b}, InUse(slot'[q])
               PROVE  /\ slot'[q].link = slot[q].link
                      /\ slot'[q].kind = slot[q].kind /\ slot'[q].locked = slot[q].locked
                      /\ slot'[q].early = slot[q].early
    BY <1>1, <1>2
  <2>1. slot[q] \in SlotType /\ "failed" \in Codes
    BY DEF IInv, TypeOK, Codes
  <2> QED BY <1>2, <2>1, FailedAlike
<1>4. Fewer
  BY <1>1, <1>3 DEF Fewer
<1>5. Distinct' /\ \A l : NoEntry(l) => NoEntry(l)'
  BY <1>4, FewerDistinct DEF EntryInv
<1>6. \A q \in Slots : InUse(slot'[q]) => ~slot'[q].locked
  BY <1>1, <1>3 DEF EntryInv, LocksOwn, Distinct, IInv, TypeOK, SlotType
<1>7. lk[m] = "recorded"
  BY <1>1 DEF EntryInv, Awaited, DoneGone, NoEntry
<1>8. /\ lk' \in [Links -> LinkStates]
      /\ \A l \in Links : l # m /\ lk'[l] # lk[l] => lk[l] = "recorded" /\ lk'[l] # "done"
      /\ \A l \in Links : lk'[l] = "new" => lk[l] = "new"
      /\ lk'[m] = "failed"
  BY <1>1, <1>7 DEF LinkStates, IInv, TypeOK
<1>9. Named(m)
  BY <1>7 DEF Named
<1> HIDE DEF m
<1> QED BY <1>1, <1>3, <1>5, <1>6, <1>8, <1>9, MainEntries DEF m

-----------------------------------------------------------------------------
(* What the engine does with a link whose type it awaits *)

(* The slot is removed. *)
LEMMA Restarting ==
  ASSUME IInv, TypeRestart
  PROVE  /\ \E q \in Slots : Releases(q) /\ slot[q].link = eng.link /\ slot[q].code = "invalid"
         /\ eng.mode = "type" /\ eng.link \in Links /\ eng.link \in UntypedLinks
         /\ lk[eng.link] = "new"
         /\ call.at = "idle" /\ budget = 0 /\ UNCHANGED <<stored, ghost, cached, budget>>
         /\ \/ /\ eng' = [eng EXCEPT !.mode = "retype"]
               /\ Begin("addif", eng.link, "guessed")
               /\ UNCHANGED lk
            \/ /\ lk' = [lk EXCEPT ![eng.link] = "refused"]
               /\ eng' = InMain
               /\ UNCHANGED call
<1>1. PICK q \in InSlots(eng.link) :
        /\ slot[q].code = "invalid"
        /\ \/ /\ slot' = [slot EXCEPT ![q] = AliveSlot(slot[q].host, slot[q].soc)]
              /\ UNCHANGED open
           \/ Put(q, FreeSlot)
  BY DEF TypeRestart
<1>2. /\ eng.mode = "type" /\ budget = 0 /\ call.at = "idle"
      /\ UNCHANGED <<stored, ghost, cached, budget>>
  BY DEF TypeRestart, Typing, Ready
<1>3. InUse(slot[q]) /\ q \in Slots /\ slot[q].link = eng.link /\ eng.link \in Links
      /\ eng.link \in UntypedLinks
  BY <1>2, TypingSlot
<1>4. Frame(q) /\ ~InUse(slot'[q])
  BY <1>1, <1>3, KeepsAlive, Deletes, FreeSlotType DEF IInv, InUse
<1>5. Releases(q)
  BY <1>2, <1>3, <1>4, FrameRest DEF Releases
<1>6. lk[eng.link] = "new"
  BY <1>2 DEF IInv, Control
<1> QED BY <1>1, <1>2, <1>3, <1>5, <1>6 DEF TypeRestart, Settle

(* The slot is held, locked and early. *)
LEMMA TakesHold ==
  ASSUME IInv, TypeHold
  PROVE  /\ \E q \in Slots :
              /\ InUse(slot[q]) /\ slot[q].link = eng.link
              /\ \A r \in Slots \ {q} : slot'[r] = slot[r]
              /\ slot'[q] = [slot[q] EXCEPT !.early = TRUE, !.locked = TRUE]
              /\ slot[q] \in SlotType /\ eng'.b = q
         /\ eng.mode \in TypeModes /\ eng'.mode = "hold" /\ eng'.link = eng.link
         /\ eng.link \in Links /\ eng.link \in UntypedLinks
         /\ call.at = "idle" /\ budget = 0
         /\ UNCHANGED <<stored, ghost, cached, lk, call, budget>>
<1>1. PICK q \in InSlots(eng.link) :
        /\ eng' = [eng EXCEPT !.mode = "hold", !.b = q]
        /\ slot' = [slot EXCEPT ![q].early = TRUE, ![q].locked = TRUE]
  BY DEF TypeHold
<1>2. /\ eng.mode \in {"type", "retype"} /\ call.at = "idle" /\ budget = 0
      /\ UNCHANGED <<open, stored, ghost, ftp, lk, tries, cached, call, budget, stop>>
  BY DEF TypeHold, Typing, Ready
<1>3. q \in Slots /\ slot[q] \in SlotType /\ slot[q].link = eng.link /\ InUse(slot[q])
      /\ eng.link \in Links /\ eng.link \in UntypedLinks
  BY <1>2, TypingSlot
<1>4. eng'.mode = "hold" /\ eng'.link = eng.link /\ eng'.b = q
  BY <1>1 DEF IInv, TypeOK, EngType
<1>5. slot' = [slot EXCEPT ![q] = [slot[q] EXCEPT !.early = TRUE, !.locked = TRUE]]
  BY <1>1, <1>3 DEF IInv, TypeOK
<1> QED BY <1>2, <1>3, <1>4, <1>5 DEF IInv, TypeOK, TypeModes

(* The slot of the link takes its name. *)
LEMMA TakesName ==
  ASSUME IInv, HoldNamed
  PROVE  /\ eng.b \in Slots /\ InUse(slot[eng.b]) /\ slot[eng.b].link = eng.link
         /\ slot[eng.b] \in SlotType
         /\ ~Pending(slot[eng.b]) /\ slot[eng.b].code # "moved"
         /\ \A r \in Slots \ {eng.b} : slot'[r] = slot[r]
         /\ slot'[eng.b] = [slot[eng.b] EXCEPT !.locked = FALSE, !.kind = "final",
                              !.final = @ \/ slot[eng.b].st = "ready"]
         /\ cached' = cached \cup Offered(slot[eng.b])
         /\ eng.mode = "hold" /\ eng'.mode = "record" /\ eng'.link = eng.link
         /\ eng.link \in Links /\ eng.link \in UntypedLinks /\ lk[eng.link] = "new"
         /\ call.at = "idle" /\ budget = 0
         /\ UNCHANGED <<stored, ghost, lk, call, budget>>
<1>1. Holding /\ eng' = [eng EXCEPT !.mode = "record", !.b = NoSlot]
      /\ UNCHANGED <<stored, ghost, lk, call, budget>>
      /\ ~Pending(slot[eng.b]) /\ slot[eng.b].code # "moved"
      /\ cached' = cached \cup Offered(slot[eng.b])
      /\ slot' = [slot EXCEPT ![eng.b] =
                    [slot[eng.b] EXCEPT !.locked = FALSE, !.kind = "final",
                       !.final = @ \/ slot[eng.b].st = "ready"]]
  BY DEF HoldNamed
<1>2. /\ eng.b \in Slots /\ slot[eng.b].link = eng.link /\ InUse(slot[eng.b])
      /\ slot[eng.b] \in SlotType
      /\ eng.link \in Links /\ eng.link \in UntypedLinks
      /\ eng.mode = "hold" /\ call.at = "idle" /\ budget = 0
  BY <1>1, HoldingSlot, TypingSlot
<1>3. eng'.mode = "record" /\ eng'.link = eng.link
  BY <1>1 DEF IInv, TypeOK, EngType
<1>4. lk[eng.link] = "new"
  BY <1>2 DEF IInv, Control
<1> QED BY <1>1, <1>2, <1>3, <1>4 DEF IInv, TypeOK

(* The held slot is removed. *)
LEMMA LetsGo ==
  ASSUME IInv, HoldMoved \/ HoldCancelled
  PROVE  /\ eng.b \in Slots /\ Releases(eng.b) /\ slot[eng.b].link = eng.link
         /\ slot[eng.b] \in SlotType
         /\ HoldMoved => ~Pending(slot[eng.b]) /\ slot[eng.b].code = "moved"
         /\ HoldCancelled => slot'[eng.b] = FreeSlot
         /\ cached' = cached \cup Offered(slot[eng.b])
         /\ eng.mode = "hold" /\ eng.link \in Links /\ eng.link \in UntypedLinks
         /\ lk[eng.link] = "new" /\ call.at = "idle" /\ budget = 0
         /\ UNCHANGED <<call, budget>>
         /\ \/ lk' = [lk EXCEPT ![eng.link] = "refused"] /\ eng' = InMain
            \/ eng'.mode = "record" /\ eng'.link = eng.link /\ UNCHANGED lk
<1>1. /\ Holding /\ UNCHANGED <<stored, ghost, call, budget>>
      /\ MayDelete(eng.b) \/ Delete(eng.b)
      /\ \/ lk' = [lk EXCEPT ![eng.link] = "refused"] /\ eng' = InMain
         \/ eng' = [eng EXCEPT !.mode = "record", !.b = NoSlot] /\ UNCHANGED lk
  BY DEF HoldMoved, HoldCancelled, Settle
<1>2. /\ eng.b \in Slots /\ slot[eng.b].link = eng.link /\ InUse(slot[eng.b])
      /\ slot[eng.b] \in SlotType
      /\ eng.link \in Links /\ eng.link \in UntypedLinks
      /\ eng.mode = "hold" /\ call.at = "idle" /\ budget = 0
  BY <1>1, HoldingSlot, TypingSlot
<1>3. Releases(eng.b) /\ cached' = cached \cup Offered(slot[eng.b])
  BY <1>1, <1>2, MayDeleteReleases
<1>4. lk[eng.link] = "new"
  BY <1>2 DEF IInv, Control
<1>5. HoldCancelled => slot'[eng.b] = FreeSlot
  BY <1>2 DEF HoldCancelled, Delete, IInv, TypeOK
<1>6. HoldMoved => ~Pending(slot[eng.b]) /\ slot[eng.b].code = "moved"
  BY DEF HoldMoved
<1>7. \/ lk' = [lk EXCEPT ![eng.link] = "refused"] /\ eng' = InMain
      \/ eng'.mode = "record" /\ eng'.link = eng.link /\ UNCHANGED lk
  BY <1>1 DEF IInv, TypeOK, EngType
<1> QED BY <1>1, <1>2, <1>3, <1>4, <1>5, <1>6, <1>7

(* The slot of a refused link is left to itself. *)
LEMMA LeavesIt ==
  ASSUME IInv, HoldRefused
  PROVE  /\ eng.b \in Slots /\ InUse(slot[eng.b]) /\ slot[eng.b].link = eng.link
         /\ slot[eng.b] \in SlotType
         /\ \A r \in Slots \ {eng.b} : slot'[r] = slot[r]
         /\ slot'[eng.b] = [slot[eng.b] EXCEPT !.locked = FALSE]
         /\ lk' = [lk EXCEPT ![eng.link] = "refused"] /\ eng' = InMain
         /\ eng.mode = "hold" /\ eng.link \in Links /\ eng.link \in UntypedLinks
         /\ lk[eng.link] = "new" /\ call.at = "idle" /\ budget = 0
         /\ UNCHANGED <<stored, ghost, cached, call, budget>>
<1>1. /\ Holding /\ UNCHANGED <<stored, ghost, cached, call, budget>>
      /\ lk' = [lk EXCEPT ![eng.link] = "refused"] /\ eng' = InMain
      /\ slot' = [slot EXCEPT ![eng.b].locked = FALSE]
  BY DEF HoldRefused, Settle
<1>2. /\ eng.b \in Slots /\ slot[eng.b].link = eng.link /\ InUse(slot[eng.b])
      /\ slot[eng.b] \in SlotType
      /\ eng.link \in Links /\ eng.link \in UntypedLinks
      /\ eng.mode = "hold" /\ call.at = "idle" /\ budget = 0
  BY <1>1, HoldingSlot, TypingSlot
<1>3. lk[eng.link] = "new"
  BY <1>2 DEF IInv, Control
<1> QED BY <1>1, <1>2, <1>3 DEF IInv, TypeOK

-----------------------------------------------------------------------------
(* The entries, while the type of a link is awaited *)

(* The slot is removed, and added again or not. *)
LEMMA TypeRestartEntries ==
  ASSUME IInv, EntryInv, TypeRestart
  PROVE  EntryInv'
<1>0. PICK m \in Links : m = eng.link
  BY Restarting
<1>1. PICK q \in Slots : Releases(q) /\ slot[q].link = m
  BY <1>0, Restarting
<1>2. /\ eng.mode = "type" /\ m \in UntypedLinks /\ lk[m] = "new"
      /\ call.at = "idle" /\ budget = 0 /\ UNCHANGED <<stored, ghost, budget>>
  BY <1>0, Restarting
<1>3. CASE /\ eng' = [eng EXCEPT !.mode = "retype"]
           /\ Begin("addif", m, "guessed")
           /\ UNCHANGED lk
  <2>1. eng'.mode = "retype" /\ eng'.link = m
    BY <1>0, <1>3 DEF IInv, TypeOK, EngType
  <2>2. Fewer
    BY <1>1, FewerEntries
  <2>3. NoEntry(m)'
    BY <1>1, LastEntry DEF EntryInv
  <2> QED BY <1>0, <1>2, <1>3, <2>1, <2>2, <2>3, TypeCallEntries DEF TypeModes, Kinds
<1>4. CASE lk' = [lk EXCEPT ![m] = "refused"] /\ eng' = InMain /\ UNCHANGED call
  <2>1. /\ lk' \in [Links -> LinkStates] /\ lk'[m] = "refused"
        /\ \A l \in Links : l # m => lk'[l] = lk[l]
        /\ eng'.mode = "main"
    BY <1>4 DEF IInv, TypeOK, LinkStates, InMain
  <2> QED BY <1>0, <1>1, <1>2, <1>4, <2>1, ReleasedEntries
<1> QED BY <1>0, <1>3, <1>4, Restarting

(* The slot is held. *)
LEMMA TypeHoldEntries ==
  ASSUME IInv, EntryInv, TypeHold
  PROVE  EntryInv'
<1>1. PICK q \in Slots :
        /\ InUse(slot[q]) /\ slot[q].link = eng.link
        /\ \A r \in Slots \ {q} : slot'[r] = slot[r]
        /\ slot'[q] = [slot[q] EXCEPT !.early = TRUE, !.locked = TRUE]
        /\ slot[q] \in SlotType /\ eng'.b = q
  BY TakesHold
<1>2. /\ eng.mode \in TypeModes /\ eng'.mode = "hold" /\ eng'.link = eng.link
      /\ call.at = "idle" /\ UNCHANGED <<stored, ghost, lk, call>>
  BY TakesHold
<1>3. /\ slot'[q].link = slot[q].link /\ slot'[q].kind = slot[q].kind
      /\ slot'[q].st = slot[q].st /\ slot'[q].early
  BY <1>1 DEF SlotType
<1>4. \A r \in Slots : slot'[r].link = slot[r].link /\ slot'[r].kind = slot[r].kind
                       /\ (InUse(slot'[r]) <=> InUse(slot[r]))
  BY <1>1, <1>3 DEF InUse
<1>5. Distinct' /\ \A l : NoEntry(l) => NoEntry(l)'
  <2>1. Distinct'
    BY <1>2, <1>4 DEF EntryInv, Distinct
  <2>2. \A l : NoEntry(l) => NoEntry(l)'
    BY <1>2, <1>4 DEF NoEntry
  <2> QED BY <2>1, <2>2
<1>6. AddsNew' /\ TypeCalls' /\ Awaited'
  BY <1>2 DEF AddsNew, TypeCalls, Awaited, Adding, TypeModes
<1>7. Unasked' /\ DoneGone'
  BY <1>2, <1>5 DEF EntryInv, Unasked, DoneGone, NewModes
<1>8. FinalNames'
  BY <1>2, <1>4 DEF EntryInv, FinalNames, Named, TypeModes
<1>9. LocksOwn'
  BY <1>1, <1>2, <1>3, <1>4 DEF EntryInv, LocksOwn, TypeModes
<1>10. EarlyNew'
  <2> SUFFICES ASSUME NEW r \in Slots, InUse(slot'[r]), lk[slot'[r].link] = "new"
               PROVE  slot'[r].early
    BY <1>2 DEF EarlyNew
  <2>1. PICK m \in Links : m = slot[r].link
    BY <1>4, EntryLinks
  <2>2. ~NoEntry(m)
    BY <1>4, <2>1 DEF NoEntry
  <2>3. m = eng.link
    BY <1>4, <2>1, <2>2 DEF EntryInv, Unasked
  <2>4. InUse(slot[r]) /\ slot[r].link = slot[q].link
    BY <1>1, <1>4, <2>1, <2>3
  <2>5. r = q
    BY <1>1, <2>4 DEF EntryInv, Distinct
  <2> QED BY <1>3, <2>5
<1> QED BY <1>5, <1>6, <1>7, <1>8, <1>9, <1>10 DEF EntryInv

(* A held slot that takes its name, or none. *)
LEMMA ToRecordEntries ==
  ASSUME IInv, EntryInv, Distinct', \A l : NoEntry(l) => NoEntry(l)',
         \A q \in Slots : InUse(slot'[q]) =>
           /\ InUse(slot[q]) /\ slot'[q].link = slot[q].link
           /\ slot'[q].kind \in {slot[q].kind, "final"} /\ ~slot'[q].locked
           /\ slot'[q].early = slot[q].early
           /\ slot[q].link = eng.link => slot'[q].kind = "final",
         \A s \in stored : s.link # eng.link,
         UNCHANGED <<stored, ghost, lk, call>>, call.at = "idle",
         eng.mode = "hold", eng'.mode = "record", eng'.link = eng.link
  PROVE  EntryInv'
<1>1. AddsNew' /\ TypeCalls' /\ Awaited'
  BY DEF AddsNew, TypeCalls, Awaited, Adding, TypeModes
<1>2. Unasked' /\ DoneGone'
  BY DEF EntryInv, Unasked, DoneGone, NewModes
<1>3. FinalNames'
  BY DEF EntryInv, FinalNames, Named
<1>4. LocksOwn' /\ EarlyNew'
  BY DEF EntryInv, LocksOwn, EarlyNew, TypeModes
<1> QED BY <1>1, <1>2, <1>3, <1>4 DEF EntryInv

(* The link takes its final name. *)
LEMMA HoldNamedEntries ==
  ASSUME IInv, EntryInv, HoldNamed
  PROVE  EntryInv'
<1>0. PICK b \in Slots : b = eng.b
  BY TakesName
<1>1. /\ InUse(slot[b]) /\ slot[b].link = eng.link /\ slot[b] \in SlotType
      /\ \A r \in Slots \ {b} : slot'[r] = slot[r]
      /\ slot'[b] = [slot[b] EXCEPT !.locked = FALSE, !.kind = "final",
                       !.final = @ \/ slot[b].st = "ready"]
      /\ eng.mode = "hold" /\ eng'.mode = "record" /\ eng'.link = eng.link
      /\ call.at = "idle" /\ UNCHANGED <<stored, ghost, lk, call>>
  BY <1>0, TakesName
<1>2. /\ slot'[b].link = slot[b].link /\ slot'[b].kind = "final"
      /\ slot'[b].st = slot[b].st /\ slot'[b].early = slot[b].early /\ ~slot'[b].locked
  BY <1>1 DEF SlotType
<1>3. \A r \in Slots : slot'[r].link = slot[r].link
                       /\ (InUse(slot'[r]) <=> InUse(slot[r]))
  BY <1>1, <1>2 DEF InUse
<1>4. Distinct'
  BY <1>1, <1>3 DEF EntryInv, Distinct
<1>5. \A l : NoEntry(l) => NoEntry(l)'
  BY <1>1, <1>3 DEF NoEntry
<1>6. \A q \in Slots : InUse(slot'[q]) =>
        /\ InUse(slot[q]) /\ slot'[q].link = slot[q].link
        /\ slot'[q].kind \in {slot[q].kind, "final"} /\ ~slot'[q].locked
        /\ slot'[q].early = slot[q].early
        /\ slot[q].link = eng.link => slot'[q].kind = "final"
  <2> SUFFICES ASSUME NEW q \in Slots \ {b}, InUse(slot[q])
               PROVE  ~slot[q].locked /\ slot[q].link # eng.link
    BY <1>1, <1>2, <1>3
  <2> QED BY <1>1 DEF EntryInv, LocksOwn, Distinct, IInv, TypeOK, SlotType
<1>7. \A s \in stored : s.link # eng.link
  BY <1>1 DEF EntryInv, Distinct
<1> QED BY <1>1, <1>4, <1>5, <1>6, <1>7, ToRecordEntries

(* The held slot is removed. *)
LEMMA LetsGoEntries ==
  ASSUME IInv, EntryInv, HoldMoved \/ HoldCancelled
  PROVE  EntryInv'
<1>0. PICK b \in Slots, m \in Links : b = eng.b /\ m = eng.link
  BY LetsGo
<1>1. /\ Releases(b) /\ InUse(slot[b]) /\ slot[b].link = m
      /\ eng.mode = "hold" /\ call.at = "idle" /\ UNCHANGED <<call, stored, ghost>>
  BY <1>0, LetsGo DEF Releases
<1>2. CASE lk' = [lk EXCEPT ![m] = "refused"] /\ eng' = InMain
  <2>1. /\ lk' \in [Links -> LinkStates] /\ lk'[m] = "refused"
        /\ \A l \in Links : l # m => lk'[l] = lk[l]
        /\ eng'.mode = "main"
    BY <1>2 DEF IInv, TypeOK, LinkStates, InMain
  <2> QED BY <1>0, <1>1, <2>1, ReleasedEntries
<1>3. CASE eng'.mode = "record" /\ eng'.link = eng.link /\ UNCHANGED lk
  <2>1. Fewer
    BY <1>1, FewerEntries
  <2>2. Distinct' /\ \A l : NoEntry(l) => NoEntry(l)'
    BY <2>1, FewerDistinct DEF EntryInv
  <2>3. NoEntry(m)'
    BY <1>1, LastEntry DEF EntryInv
  <2>4. \A q \in Slots : InUse(slot'[q]) =>
          /\ InUse(slot[q]) /\ slot'[q].link = slot[q].link
          /\ slot'[q].kind \in {slot[q].kind, "final"} /\ ~slot'[q].locked
          /\ slot'[q].early = slot[q].early
          /\ slot[q].link = eng.link => slot'[q].kind = "final"
    <3> SUFFICES ASSUME NEW q \in Slots, InUse(slot'[q])
                 PROVE  ~slot'[q].locked /\ slot[q].link # m
      BY <1>0, <2>1 DEF Fewer
    <3>1. InUse(slot[q]) /\ slot'[q].link = slot[q].link /\ slot'[q].locked = slot[q].locked
      BY <2>1 DEF Fewer
    <3>2. slot[q].link # m
      BY <2>3, <3>1 DEF NoEntry
    <3> QED BY <1>0, <3>1, <3>2 DEF EntryInv, LocksOwn, IInv, TypeOK, SlotType
  <2>5. \A s \in stored : s.link # eng.link
    BY <1>0, <1>1 DEF EntryInv, Distinct
  <2> QED BY <1>1, <1>3, <2>2, <2>4, <2>5, ToRecordEntries
<1> QED BY <1>0, <1>2, <1>3, LetsGo

(* The type of the link is refused: its slot is left to itself. *)
LEMMA HoldRefusedEntries ==
  ASSUME IInv, EntryInv, HoldRefused
  PROVE  EntryInv'
<1>0. PICK b \in Slots, m \in Links : b = eng.b /\ m = eng.link
  BY LeavesIt
<1>1. /\ InUse(slot[b]) /\ slot[b].link = m /\ slot[b] \in SlotType
      /\ \A r \in Slots \ {b} : slot'[r] = slot[r]
      /\ slot'[b] = [slot[b] EXCEPT !.locked = FALSE]
      /\ eng.mode = "hold" /\ eng'.mode = "main"
      /\ lk' = [lk EXCEPT ![m] = "refused"]
      /\ call.at = "idle" /\ UNCHANGED <<stored, ghost, call>>
  BY <1>0, LeavesIt DEF InMain
<1>2. /\ slot'[b].link = slot[b].link /\ slot'[b].kind = slot[b].kind
      /\ slot'[b].st = slot[b].st /\ slot'[b].early = slot[b].early /\ ~slot'[b].locked
  BY <1>1 DEF SlotType
<1>3. \A r \in Slots : slot'[r].link = slot[r].link
                       /\ (InUse(slot'[r]) <=> InUse(slot[r]))
  BY <1>1, <1>2 DEF InUse
<1>4. Distinct'
  BY <1>1, <1>3 DEF EntryInv, Distinct
<1>5. \A l : NoEntry(l) => NoEntry(l)'
  BY <1>1, <1>3 DEF NoEntry
<1>6. \A q \in Slots : InUse(slot'[q]) =>
        /\ InUse(slot[q]) /\ slot'[q].link = slot[q].link
        /\ slot'[q].kind = slot[q].kind /\ ~slot'[q].locked
        /\ slot'[q].early = slot[q].early
  <2> SUFFICES ASSUME NEW q \in Slots \ {b}, InUse(slot[q])
               PROVE  ~slot[q].locked
    BY <1>1, <1>2, <1>3
  <2> QED BY <1>0, <1>1 DEF EntryInv, LocksOwn, Distinct, IInv, TypeOK, SlotType
<1>7. /\ lk' \in [Links -> LinkStates] /\ lk'[m] = "refused"
      /\ \A l \in Links : l # m => lk'[l] = lk[l]
  BY <1>1 DEF IInv, TypeOK, LinkStates
<1> QED BY <1>0, <1>1, <1>4, <1>5, <1>6, <1>7, MainEntries

(* The link is recorded. *)
LEMMA RecordEntries ==
  ASSUME IInv, EntryInv, Record
  PROVE  EntryInv'
<1>0. PICK m \in Links : m = eng.link
  BY DEF Record, IInv, Control
<1>1. /\ eng.mode = "record" /\ eng'.mode = "main" /\ call.at = "idle" /\ call' = call
      /\ UNCHANGED <<slot, stored, ghost>> /\ lk' = [lk EXCEPT ![m] = "recorded"]
  BY <1>0 DEF Record, Ready, Settle, InMain
<1>2. Fewer
  BY <1>1, FewerEntries
<1>3. Distinct' /\ \A l : NoEntry(l) => NoEntry(l)'
  BY <1>2, FewerDistinct DEF EntryInv
<1>4. \A q \in Slots : InUse(slot[q]) => ~slot[q].locked
  BY <1>1 DEF EntryInv, LocksOwn, IInv, TypeOK, SlotType
<1>5. /\ lk' \in [Links -> LinkStates] /\ lk'[m] = "recorded" /\ Named(m)
      /\ \A l \in Links : l # m => lk'[l] = lk[l]
  BY <1>0, <1>1 DEF IInv, TypeOK, LinkStates, Named
<1> QED BY <1>0, <1>1, <1>3, <1>4, <1>5, MainEntries

(* The mirror is over. *)
LEMMA FinishEntries ==
  ASSUME IInv, EntryInv, Finish
  PROVE  EntryInv'
<1>1. /\ eng'.mode = "end" /\ call.at = "idle" /\ call' = call /\ lk' = lk
      /\ \A q \in Slots : slot'[q] = FreeSlot
      /\ stored' = {} /\ ghost' = {}
  BY DEF Finish, Ready, InMain
<1>2. \A q \in Slots : ~InUse(slot'[q])
  BY <1>1, FreeSlotType DEF InUse
<1>3. Distinct' /\ \A l : NoEntry(l)'
  BY <1>1, <1>2 DEF Distinct, NoEntry
<1> QED BY <1>1, <1>2, <1>3 DEF EntryInv, AddsNew, TypeCalls, Unasked, DoneGone, Awaited,
         FinalNames, LocksOwn, EarlyNew, Adding, TypeModes

-----------------------------------------------------------------------------
(* Every step keeps the entries of the links apart. *)
LEMMA EntryInvariance ==
  ASSUME IInv, EntryInv, [Next]_vars
  PROVE  EntryInv'
<1>1. CASE CleanStep
  BY <1>1, SweepWrittenEntries, SteadySteps, StoreReadyEntries DEF CleanStep
<1>2. CASE AddStep
  BY <1>2, SteadySteps, EnteringEntries, AddFullEntries DEF AddStep
<1>3. CASE WaitReturns \/ FillEnds \/ StartFill \/ \E l \in Links : FillAdd(l)
  BY <1>3, SteadySteps, CallsEntries
<1>4. CASE \E i \in Slots : Events(i) \/ CancelFile(i)
  BY <1>4, SteadySteps
<1>5. CASE MainWait \/ FetchPause \/ \E l \in Links : BeginFetch(l) \/ BeginType(l)
  BY <1>5, CallsEntries, BeginTypeEntries
<1>6. CASE FetchStep
  BY <1>6, CallsEntries, ThawEntries, FetchGoneEntries, DeliverEntries, BanEntries DEF FetchStep
<1>7. CASE TypeStep
  BY <1>7, TypeRestartEntries, TypeHoldEntries, CallsEntries, HoldNamedEntries,
     LetsGoEntries, HoldRefusedEntries, RecordEntries DEF TypeStep
<1>8. CASE Finish
  BY <1>8, FinishEntries
<1>9. CASE (\E t \in ftp : FtpThreadEnds(t)) \/ StopMirror \/ Terminated \/ UNCHANGED vars
  BY <1>9, SteadySteps DEF Terminated
<1> QED
  BY <1>1, <1>2, <1>3, <1>4, <1>5, <1>6, <1>7, <1>8, <1>9 DEF Next, EngineStep

(* Nothing is in the pool at the start. *)
LEMMA EntriesInitially == Init => EntryInv
<1> SUFFICES ASSUME Init
             PROVE  EntryInv
  OBVIOUS
<1>1. \A q \in Slots : ~InUse(slot[q])
  BY FreeSlotType DEF Init, InUse
<1>2. Distinct /\ \A l : NoEntry(l)
  BY <1>1 DEF Init, Distinct, NoEntry
<1>3. eng.mode = "main" /\ call.at = "idle" /\ ghost = {} /\ stored = {}
  BY DEF Init, InMain, Idle
<1> QED BY <1>1, <1>2, <1>3 DEF EntryInv, AddsNew, TypeCalls, Unasked, DoneGone, Awaited,
         FinalNames, LocksOwn, EarlyNew, Adding, TypeModes

(* The entries of the links are apart in every state. *)
LEMMA EntriesInductive == Spec => [](IInv /\ EntryInv)
<1>1. Init => IInv /\ EntryInv
  BY Initially, EntriesInitially
<1>2. IInv /\ EntryInv /\ [Next]_vars => (IInv /\ EntryInv)'
  BY Invariance, EntryInvariance
<1> QED BY <1>1, <1>2, PTL DEF Spec

(* A set of one element at most. *)
LEMMA AtMostOne ==
  ASSUME NEW S, \A x, y \in S : x = y
  PROVE  S = {} \/ Cardinality(S) = 1
<1> SUFFICES ASSUME NEW x \in S
             PROVE  Cardinality(S) = 1
  OBVIOUS
<1>1. S = {x}
  OBVIOUS
<1> QED BY <1>1, FS_Singleton

(* "unexpected duplicate" (htsback.c:273) never happens: a link has one     *)
(* entry at most, whatever is added, swapped out, read back or removed.    *)
THEOREM OneEntryEach == Spec => []OneEntry
<1>1. ASSUME EntryInv
      PROVE  OneEntry
  <2> SUFFICES ASSUME NEW l \in Links
               PROVE  Cardinality(InSlots(l)) + Cardinality({s \in stored : s.link = l})
                        + Cardinality({k \in ghost : k[1] = l}) <= 1
    BY DEF OneEntry
  <2> DEFINE A == InSlots(l)
             B == {s \in stored : s.link = l}
             C == {k \in ghost : k[1] = l}
  <2>1. /\ \A q, r \in A : q = r
        /\ \A s, t \in B : s = t
        /\ \A j, k \in C : j = k
    BY <1>1 DEF EntryInv, Distinct, InSlots, InUse
  <2>2. (A = {} \/ B = {}) /\ (A = {} \/ C = {}) /\ (B = {} \/ C = {})
    BY <1>1 DEF EntryInv, Distinct, InSlots, InUse
  <2> HIDE DEF A, B, C
  <2>3. (A = {} \/ Cardinality(A) = 1) /\ (B = {} \/ Cardinality(B) = 1)
        /\ (C = {} \/ Cardinality(C) = 1) /\ Cardinality({}) = 0
    BY <2>1, AtMostOne, FS_EmptySet
  <2>4. Cardinality(A) + Cardinality(B) + Cardinality(C) <= 1
    BY <2>2, <2>3
  <2> QED BY <2>4 DEF A, B, C
<1> QED BY <1>1, EntriesInductive, PTL

(* Every entry says of its link what is so, and a good answer that settled *)
(* its link was handed to the cache, unless the link had no name at first. *)
AnswerInv ==
  /\ \A q \in Slots : InUse(slot[q]) => Coherent(slot[q], cached)
  /\ \A s \in stored : Coherent(s, cached)
  /\ \A l \in Links \ UntypedLinks : lk[l] \in {"taken", "done"} => l \in cached

-----------------------------------------------------------------------------
(* Answers and the cache *)

(* A coherent entry stays so when more links are cached. *)
LEMMA CoherentMore ==
  ASSUME NEW s, NEW t, Coherent(s, cached), Alike(t, s), cached \subseteq cached'
  PROVE  Coherent(t, cached')
BY DEF Coherent, Alike

(* The answer of a link that had its name is cached once it is released.   *)
LEMMA AnswerGoesToCache ==
  ASSUME NEW s, InUse(s), Coherent(s, cached), s.link \notin UntypedLinks,
         s.st = "ready", s.code = "ok", cached' = cached \cup Offered(s)
  PROVE  s.link \in cached'
BY DEF Coherent, Offered

(* Steps that change no entry, or release one, and settle no link well.    *)
LEMMA CalmAnswers ==
  ASSUME AnswerInv, cached \subseteq cached', stored' \subseteq stored,
         \A q \in Slots : Same(q) \/ ~InUse(slot'[q]) \/ Coherent(slot'[q], cached'),
         \A l \in Links \ UntypedLinks :
           lk'[l] \in {"taken", "done"} /\ lk'[l] # lk[l] => l \in cached'
  PROVE  AnswerInv'
<1>1. \A q \in Slots : InUse(slot'[q]) => Coherent(slot'[q], cached')
  <2> SUFFICES ASSUME NEW q \in Slots, InUse(slot'[q]), Same(q)
               PROVE  Coherent(slot'[q], cached')
    OBVIOUS
  <2>1. InUse(slot[q]) /\ Alike(slot'[q], slot[q])
    BY DEF Same, Alike, InUse
  <2> QED BY <2>1, CoherentMore DEF AnswerInv
<1>2. \A s \in stored' : Coherent(s, cached')
  BY DEF AnswerInv, Coherent
<1> QED BY <1>1, <1>2 DEF AnswerInv

(* Steps of the pool and of the threads. *)
LEMMA PoolAnswers ==
  ASSUME IInv, AnswerInv,
         \/ SweepAlive \/ SweepOther \/ ParkReady \/ TrimAlive
         \/ StoreReady
         \/ \E i \in Slots : Events(i) \/ CancelFile(i)
         \/ AddIfNotExists \/ AddFull \/ WaitReturns \/ StartFill \/ FillEnds
         \/ \E t \in ftp : FtpThreadEnds(t)
         \/ MainWait \/ FetchWait \/ FetchPause \/ HoldWait
         \/ \E l \in Links : FillAdd(l) \/ BeginFetch(l) \/ BeginType(l)
         \/ StopMirror \/ UNCHANGED vars
  PROVE  AnswerInv'
<1>1. CASE \/ SweepAlive \/ SweepOther \/ ParkReady \/ TrimAlive
           \/ StoreReady /\ UNCHANGED <<slot, stored, ghost>>
  BY <1>1, CleanCalm, CalmAnswers DEF Calm
<1>2. CASE StoreReady /\ ~UNCHANGED <<slot, stored, ghost>>
  <2>1. /\ call.i \in Slots /\ slot[call.i].st = "ready" /\ ~InUse(slot'[call.i])
        /\ \A q \in Slots \ {call.i} : slot'[q] = slot[q]
        /\ stored' \subseteq stored \cup {slot[call.i]} /\ UNCHANGED <<lk, cached>>
    BY <1>2, StoreMoves
  <2>2. InUse(slot[call.i])
    BY <2>1 DEF InUse
  <2> QED BY <2>1, <2>2 DEF AnswerInv
<1>3. CASE \E i \in Slots : Events(i) \/ CancelFile(i)
  <2>1. PICK i \in Slots : Goes(i) /\ lk' = lk
    BY <1>3, Advancing
  <2>2. InUse(slot[i])
    BY <2>1, BusyInUse DEF Goes, Advances
  <2>3. Coherent(slot'[i], cached')
    BY <2>1, <2>2 DEF Goes, AnswerInv
  <2> QED BY <2>1, <2>3, CalmAnswers DEF Goes, Advances, Rest
<1>4. CASE \/ AddIfNotExists \/ AddFull \/ WaitReturns \/ StartFill \/ FillEnds
           \/ MainWait \/ FetchWait \/ FetchPause \/ HoldWait
           \/ \E l \in Links : FillAdd(l) \/ BeginFetch(l) \/ BeginType(l)
           \/ StopMirror \/ UNCHANGED vars
  <2>1. UNCHANGED <<slot, stored, lk, cached>>
    BY <1>4 DEF AddIfNotExists, AddFull, WaitReturns, StartFill, FillEnds, MainWait,
       FetchWait, FetchPause, HoldWait, FillAdd, BeginFetch, BeginType, StopMirror, vars, Calls
  <2> QED BY <2>1 DEF AnswerInv
<1>5. CASE \E t \in ftp : FtpThreadEnds(t)
  <2>1. PICK t \in ftp : FtpThreadEnds(t)
    BY <1>5
  <2>2. UNCHANGED <<lk, stored, cached>>
    BY <2>1 DEF FtpThreadEnds
  <2>3. CASE eng.mode = "end"
    BY <2>1, <2>2, <2>3 DEF FtpThreadEnds, AnswerInv
  <2>4. CASE eng.mode # "end"
    <3>1. t.b \in Slots /\ Goes(t.b)
      BY <2>1, <2>4, ThreadAdvances
    <3>2. Coherent(slot'[t.b], cached')
      BY <3>1, BusyInUse DEF Goes, Advances, AnswerInv
    <3> QED BY <2>2, <3>1, <3>2, CalmAnswers DEF Goes, Advances, Rest
  <2> QED BY <2>3, <2>4
<1> QED BY <1>1, <1>2, <1>3, <1>4, <1>5

(* An entry that is added. *)
LEMMA EnteringAnswers ==
  ASSUME IInv, EntryInv, AnswerInv,
         AddStopped \/ AddKnown \/ AddFtp \/ AddLive \/ AddConnect \/ AddRefused
  PROVE  AnswerInv'
<1>1. PICK q \in Slots, s \in SlotType :
        /\ Enters(q, s) /\ Fresh(s) /\ cached \subseteq cached'
        /\ s.final /\ s.code = "ok" /\ s.kind # "delayed" => s.link \in cached'
  BY Entering
<1>2. call.at = "fill" /\ UNCHANGED lk
  BY Entering
<1>3. Adding
  BY <1>2 DEF Adding, IInv, Control
<1>4. s.link \notin UntypedLinks => s.kind = "final"
  BY <1>1, <1>3 DEF EntryInv, AddsNew, Fresh
<1>5. Coherent(s, cached')
  BY <1>1, <1>4 DEF Fresh, Coherent, Busy, OnWire
<1>6. slot'[q] = s /\ stored' = stored
  BY <1>1 DEF Enters
<1>7. \A r \in Slots \ {q} : Same(r)
  BY <1>1 DEF Enters, Rest
<1> QED BY <1>1, <1>2, <1>5, <1>6, <1>7, CalmAnswers

(* A link whose answer is written or taken is cached. *)
LEMMA SettlingAnswers ==
  ASSUME IInv, EntryInv, AnswerInv,
         SweepWritten \/ \E b \in Slots : Deliver(b) \/ DeliverRetry(b) \/ DeliverError(b)
  PROVE  AnswerInv'
<1>1. PICK p \in Slots, m \in Links :
        /\ Releases(p) /\ slot[p].link = m /\ slot[p].st = "ready"
        /\ cached' = cached \cup Offered(slot[p])
        /\ \A l \in Links : lk'[l] # lk[l] =>
             l = m /\ (lk'[m] \in {"taken", "done"} => slot[p].code = "ok")
  <2>1. CASE SweepWritten
    <3>1. /\ call.i \in Slots /\ Releases(call.i)
          /\ slot[call.i].st = "ready" /\ slot[call.i].code = "ok"
          /\ slot[call.i].link \in Links
          /\ \/ lk' = lk
             \/ lk' = [lk EXCEPT ![slot[call.i].link] = "done"]
          /\ cached' = cached \cup Offered(slot[call.i])
      BY <2>1, SweepReleases
    <3>2. \A l \in Links : lk'[l] # lk[l] => l = slot[call.i].link
      BY <3>1 DEF IInv, TypeOK
    <3> QED BY <3>1, <3>2
  <2>2. CASE \E b \in Slots : Deliver(b) \/ DeliverRetry(b) \/ DeliverError(b)
    <3>1. PICK b \in Slots : Deliver(b) \/ DeliverRetry(b) \/ DeliverError(b)
      BY <2>2
    <3>2. /\ Releases(b) /\ slot[b].st = "ready" /\ slot[b].link = eng.link
          /\ eng.link \in Links /\ cached' = cached \cup Offered(slot[b])
          /\ \/ lk' = lk
             \/ lk' = [lk EXCEPT ![eng.link] = "failed"]
             \/ lk' = [lk EXCEPT ![eng.link] =
                         IF slot[b].code = "ok" THEN "taken" ELSE "answered"]
      BY <3>1, Delivering
    <3>3. \A l \in Links : lk'[l] # lk[l] =>
            l = eng.link /\ (lk'[l] \in {"taken", "done"} => slot[b].code = "ok")
      BY <3>2 DEF IInv, TypeOK
    <3> QED BY <3>2, <3>3
  <2> QED BY <2>1, <2>2
<1>2. InUse(slot[p]) /\ ~InUse(slot'[p]) /\ stored' = stored /\ Rest(p)
  BY <1>1 DEF Releases
<1>3. slot[p].code = "ok" /\ m \notin UntypedLinks => m \in cached'
  BY <1>1, <1>2, AnswerGoesToCache DEF AnswerInv
<1> QED BY <1>1, <1>2, <1>3, CalmAnswers DEF Rest

(* The engine settles a link otherwise, or reads its answer back. *)
LEMMA EngineAnswers ==
  ASSUME IInv, AnswerInv,
         \/ FetchThaw \/ ThawFails \/ FetchGone \/ \E b \in Slots : DeliverBan(b)
         \/ TypeRestart \/ TypeHold \/ HoldNamed \/ HoldMoved \/ HoldCancelled
         \/ HoldRefused \/ Record \/ Finish
  PROVE  AnswerInv'
<1>1. CASE FetchThaw
  <2>1. PICK s \in stored, q \in Slots : Wake(s, q)
    BY <1>1 DEF FetchThaw, InStore
  <2> DEFINE u == [s EXCEPT !.locked = TRUE]
  <2>2. s \in SlotType
    BY DEF IInv, TypeOK
  <2>3. Coherent(u, cached)
    BY <2>2 DEF AnswerInv, Coherent, SlotType
  <2>4. slot'[q] = u /\ \A r \in Slots \ {q} : slot'[r] = slot[r]
    BY <2>1 DEF Wake, Put, IInv, TypeOK
  <2>5. stored' \subseteq stored /\ UNCHANGED <<cached, lk>>
    BY <1>1, <2>1 DEF Wake, FetchThaw
  <2> QED BY <2>3, <2>4, <2>5 DEF AnswerInv
<1>2. CASE ThawFails \/ FetchGone \/ Record
  <2>1. /\ UNCHANGED <<slot, cached>> /\ stored' \subseteq stored
        /\ \/ lk' = lk
           \/ \E how \in {"skipped", "recorded"} : lk' = [lk EXCEPT ![eng.link] = how]
    BY <1>2 DEF ThawFails, FetchGone, Record, Settle
  <2>2. \A l \in Links : lk'[l] # lk[l] => lk'[l] \in {"skipped", "recorded"}
    BY <2>1 DEF IInv, TypeOK
  <2> QED BY <2>1, <2>2 DEF AnswerInv
<1>3. CASE \E b \in Slots : DeliverBan(b)
  <2>1. PICK b \in Slots : DeliverBan(b)
    BY <1>3
  <2>2. /\ ~InUse(slot'[b]) /\ UNCHANGED <<stored, cached>>
        /\ \A q \in Slots \ {b} :
             slot'[q] = IF OfHost(q, HostOf[eng.link]) THEN Failed(slot[q], "failed")
                        ELSE slot[q]
        /\ \A l \in Links : lk'[l] # lk[l] => lk'[l] \in {"failed", "banned"}
    BY <2>1, Banning
  <2>3. \A q \in Slots \ {b} : InUse(slot'[q]) => Coherent(slot'[q], cached)
    <3> SUFFICES ASSUME NEW q \in Slots \ {b}, OfHost(q, HostOf[eng.link])
                 PROVE  Coherent(slot'[q], cached)
      BY <2>2 DEF AnswerInv
    <3> DEFINE f == Failed(slot[q], "failed")
    <3>1. /\ f.st = "ready" /\ f.code = "failed" /\ f.link = slot[q].link
          /\ f.kind = slot[q].kind /\ f.out = slot[q].out
      BY FailedAlike DEF IInv, TypeOK, Codes
    <3>2. slot'[q] = f
      BY <2>2
    <3>3. Coherent(slot[q], cached)
      BY DEF OfHost, InUse, AnswerInv
    <3> HIDE DEF f
    <3> QED BY <3>1, <3>2, <3>3 DEF Coherent, Busy, OnWire
  <2> QED BY <2>2, <2>3 DEF AnswerInv
<1>4. CASE TypeRestart \/ HoldMoved \/ HoldCancelled
  <2>1. PICK p \in Slots : Releases(p)
    BY <1>4, Restarting, LetsGo
  <2>2. cached \subseteq cached'
    BY <1>4, Restarting, LetsGo
  <2>3. lk' = lk \/ lk' = [lk EXCEPT ![eng.link] = "refused"]
    BY <1>4, Restarting, LetsGo
  <2>4. \A l \in Links : lk'[l] # lk[l] => lk'[l] = "refused"
    BY <2>3 DEF IInv, TypeOK
  <2> QED BY <2>1, <2>2, <2>4, CalmAnswers DEF Releases, Rest
<1>5. CASE TypeHold
  <2>1. PICK q \in Slots :
          /\ InUse(slot[q]) /\ \A r \in Slots \ {q} : slot'[r] = slot[r]
          /\ slot'[q] = [slot[q] EXCEPT !.early = TRUE, !.locked = TRUE]
          /\ slot[q] \in SlotType
    BY <1>5, TakesHold
  <2>2. UNCHANGED <<stored, lk, cached>>
    BY <1>5, TakesHold
  <2>3. Coherent(slot'[q], cached)
    BY <2>1 DEF AnswerInv, Coherent, SlotType
  <2> QED BY <2>1, <2>2, <2>3 DEF AnswerInv
<1>6. CASE HoldNamed
  <2>1. PICK b \in Slots : b = eng.b
    BY <1>6, TakesName
  <2>2. /\ InUse(slot[b]) /\ slot[b].link \in UntypedLinks /\ slot[b] \in SlotType
        /\ \A r \in Slots \ {b} : slot'[r] = slot[r]
        /\ slot'[b] = [slot[b] EXCEPT !.locked = FALSE, !.kind = "final",
                         !.final = @ \/ slot[b].st = "ready"]
        /\ cached \subseteq cached' /\ UNCHANGED <<stored, lk>>
    BY <1>6, <2>1, TakesName
  <2>3. Coherent(slot'[b], cached')
    BY <2>2 DEF AnswerInv, Coherent, SlotType, Busy, OnWire
  <2> QED BY <2>2, <2>3, CalmAnswers DEF Same, Alike
<1>7. CASE HoldRefused
  <2>1. PICK b \in Slots : b = eng.b
    BY <1>7, LeavesIt
  <2>2. /\ InUse(slot[b]) /\ slot[b] \in SlotType
        /\ \A r \in Slots \ {b} : slot'[r] = slot[r]
        /\ slot'[b] = [slot[b] EXCEPT !.locked = FALSE]
        /\ UNCHANGED <<stored, cached>>
        /\ lk' = [lk EXCEPT ![eng.link] = "refused"]
    BY <1>7, <2>1, LeavesIt
  <2>3. Coherent(slot'[b], cached')
    BY <2>2 DEF AnswerInv, Coherent, SlotType
  <2>4. \A l \in Links : lk'[l] # lk[l] => lk'[l] = "refused"
    BY <2>2 DEF IInv, TypeOK
  <2> QED BY <2>2, <2>3, <2>4 DEF AnswerInv
<1>8. CASE Finish
  <2>1. /\ \A q \in Slots : ~InUse(slot'[q])
        /\ stored' = {} /\ lk' = lk /\ cached \subseteq cached'
    BY <1>8, FreeSlotType DEF Finish, InUse
  <2> QED BY <2>1, CalmAnswers
<1> QED BY <1>1, <1>2, <1>3, <1>4, <1>5, <1>6, <1>7, <1>8

(* Every step keeps the answers. *)
LEMMA AnswerInvariance ==
  ASSUME IInv, EntryInv, AnswerInv, [Next]_vars
  PROVE  AnswerInv'
<1>1. CASE CleanStep \/ AddStep
  BY <1>1, SettlingAnswers, PoolAnswers, EnteringAnswers DEF CleanStep, AddStep
<1>2. CASE FetchStep \/ TypeStep \/ Finish
  BY <1>2, PoolAnswers, SettlingAnswers, EngineAnswers DEF FetchStep, TypeStep
<1>3. CASE ~(CleanStep \/ AddStep \/ FetchStep \/ TypeStep \/ Finish)
  BY <1>3, PoolAnswers DEF Next, EngineStep, Terminated
<1> QED BY <1>1, <1>2, <1>3

(* The three invariants hold in every state. *)
LEMMA AnswersInductive == Spec => [](IInv /\ EntryInv /\ AnswerInv)
<1>1. Init => AnswerInv
  <2> SUFFICES ASSUME Init PROVE AnswerInv
    OBVIOUS
  <2>1. \A q \in Slots : ~InUse(slot[q])
    BY FreeSlotType DEF Init, InUse
  <2>2. \A l \in Links : lk[l] \in {"new", "recorded"}
    BY DEF Init
  <2> QED BY <2>1, <2>2 DEF AnswerInv, Init
<1>2. Init => IInv /\ EntryInv /\ AnswerInv
  BY <1>1, Initially, EntriesInitially
<1>3. IInv /\ EntryInv /\ AnswerInv /\ [Next]_vars => (IInv /\ EntryInv /\ AnswerInv)'
  BY Invariance, EntryInvariance, AnswerInvariance
<1> QED BY <1>2, <1>3, PTL DEF Spec

(* A link whose name was known when it was recorded is only declared       *)
(* written, or taken as a good answer, once its body went to the cache.    *)
THEOREM AnswersAreCached ==
  Spec => [](\A l \in Links \ UntypedLinks : lk[l] \in {"taken", "done"} => l \in cached)
<1>1. AnswerInv => \A l \in Links \ UntypedLinks : lk[l] \in {"taken", "done"} => l \in cached
  BY DEF AnswerInv
<1> QED BY <1>1, AnswersInductive, PTL

(* A mirror that awaits no type hands every good answer to the cache       *)
(* (back_finalize), on each path by which a slot is released.              *)
THEOREM AllAnswersCached ==
  ASSUME UntypedLinks = {}
  PROVE  Spec => []AnswerCached
<1>1. AnswerInv => AnswerCached
  BY DEF AnswerInv, AnswerCached
<1> QED BY <1>1, AnswersInductive, PTL

(* What back_clean declares written in the background is a complete answer *)
(* in a file that was opened under the final name of its link.             *)
LEMMA WritesAnswer ==
  ASSUME IInv, EntryInv, AnswerInv, [Next]_vars,
         NEW l \in Links \ UntypedLinks, lk'[l] = "done", lk[l] # "done"
  PROVE  \E q \in InSlots(l) :
           slot[q].st = "ready" /\ slot[q].code = "ok" /\ slot[q].out = "final"
<1>1. CASE SweepWritten
  <2>1. /\ call.i \in Slots /\ slot[call.i].st = "ready" /\ slot[call.i].code = "ok"
        /\ Finalizable(slot[call.i])
        /\ lk' = lk \/ lk' = [lk EXCEPT ![slot[call.i].link] = "done"]
    BY <1>1, SweepReleases
  <2>2. slot[call.i].link = l
    BY <2>1 DEF IInv, TypeOK
  <2>3. InUse(slot[call.i])
    BY <2>1 DEF InUse
  <2>4. slot[call.i].out = "final"
    BY <2>1, <2>2, <2>3 DEF AnswerInv, Coherent, Finalizable
  <2> QED BY <2>1, <2>2, <2>3, <2>4 DEF InSlots
<1>2. CASE \E b \in Slots : Deliver(b) \/ DeliverRetry(b) \/ DeliverError(b)
  <2>1. \/ lk' = lk
        \/ \E how \in {"taken", "answered", "failed"} : lk' = [lk EXCEPT ![eng.link] = how]
    BY <1>2 DEF Deliver, DeliverRetry, DeliverError, Settle
  <2> QED BY <2>1 DEF IInv, TypeOK
<1>3. CASE \E b \in Slots : DeliverBan(b)
  BY <1>3 DEF DeliverBan
<1>4. CASE TypeStep \/ FetchGone
  <2>1. \/ lk' = lk
        \/ \E how \in {"skipped", "refused", "recorded"} : lk' = [lk EXCEPT ![eng.link] = how]
    BY <1>4 DEF TypeStep, TypeRestart, TypeHold, HoldWait, HoldNamed, HoldMoved, HoldRefused,
       HoldCancelled, Record, FetchGone, Settle, Calls
  <2> QED BY <2>1 DEF IInv, TypeOK
<1>5. CASE ~(\/ SweepWritten \/ TypeStep \/ FetchGone
             \/ \E b \in Slots : \/ Deliver(b) \/ DeliverRetry(b) \/ DeliverError(b)
                                 \/ DeliverBan(b))
  <2>1. CASE CleanStep \/ AddStep \/ WaitReturns \/ FillEnds \/ StartFill
    BY <1>5, <2>1 DEF CleanStep, SweepAlive, SweepOther, ParkReady, TrimAlive, StoreReady,
       AddStep, AddIfNotExists, AddStopped, AddKnown, AddFtp, AddLive, AddConnect, AddRefused,
       AddFull, AddAt, WaitReturns, FillEnds, StartFill
  <2>2. CASE \E i \in Slots : Events(i) \/ CancelFile(i)
    BY <2>2, Advancing
  <2>3. CASE \/ \E m \in Links : FillAdd(m) \/ BeginFetch(m) \/ BeginType(m)
             \/ MainWait \/ FetchPause \/ FetchStep \/ Finish
    BY <1>5, <2>3 DEF FillAdd, BeginFetch, BeginType, MainWait, FetchPause, FetchStep, FetchWait,
       FetchThaw, ThawFails, Finish, Calls
  <2>4. CASE (\E t \in ftp : FtpThreadEnds(t)) \/ StopMirror \/ Terminated \/ UNCHANGED vars
    BY <2>4 DEF FtpThreadEnds, StopMirror, Terminated, vars
  <2> QED BY <1>5, <2>1, <2>2, <2>3, <2>4 DEF Next, EngineStep
<1> QED BY <1>1, <1>2, <1>3, <1>4, <1>5

(* The same in every behaviour, for the links that had their names. *)
THEOREM WrittenComplete ==
  Spec => [][\A l \in Links \ UntypedLinks :
               lk'[l] = "done" /\ lk[l] # "done" =>
                 \E q \in InSlots(l) :
                   slot[q].st = "ready" /\ slot[q].code = "ok" /\ slot[q].out = "final"]_vars
<1>1. IInv /\ EntryInv /\ AnswerInv /\ [Next]_vars =>
        [\A l \in Links \ UntypedLinks :
           lk'[l] = "done" /\ lk[l] # "done" =>
             \E q \in InSlots(l) :
               slot[q].st = "ready" /\ slot[q].code = "ok" /\ slot[q].out = "final"]_vars
  BY WritesAnswer
<1> QED BY <1>1, AnswersInductive, PTL DEF Spec

(* In a mirror that awaits no type every file is stored under its name.    *)
THEOREM AllWrittenUnderNames ==
  ASSUME UntypedLinks = {}
  PROVE  Spec => WrittenUnderItsName
<1>1. IInv /\ EntryInv /\ AnswerInv /\ [Next]_vars =>
        [\A l \in Links :
           lk'[l] = "done" /\ lk[l] # "done" =>
             \E q \in InSlots(l) :
               slot[q].st = "ready" /\ slot[q].code = "ok" /\ slot[q].out = "final"]_vars
  BY WritesAnswer
<1> QED BY <1>1, AnswersInductive, PTL DEF Spec, WrittenUnderItsName

(* An engine step that turns a held slot into a record. *)
LEMMA NamesAfterHeaders ==
  ASSUME UntypedLinks \cap SecureLinks = {}, IInv, EntryInv, AnswerInv, [Next]_vars,
         eng.mode = "hold", eng'.mode = "record", slot'[eng.b].st # "free"
  PROVE  slot[eng.b].st \in {"transfer", "ready"}
<1>1. HoldNamed \/ HoldMoved \/ HoldCancelled
  <2>1. CASE CleanStep \/ AddStep \/ WaitReturns \/ FillEnds \/ StartFill
    BY <2>1 DEF CleanStep, SweepWritten, SweepAlive, SweepOther, ParkReady, TrimAlive,
       StoreReady, AddStep, AddIfNotExists, AddStopped, AddKnown, AddFtp, AddLive, AddConnect,
       AddRefused, AddFull, AddAt, WaitReturns, FillEnds, StartFill
  <2>2. CASE \E i \in Slots : Events(i) \/ CancelFile(i)
    BY <2>2, Advancing
  <2>3. CASE \E m \in Links : FillAdd(m) \/ BeginFetch(m) \/ BeginType(m)
    BY <2>3 DEF FillAdd, BeginFetch, BeginType
  <2>4. CASE MainWait \/ FetchPause \/ FetchStep \/ Finish
    BY <2>4 DEF MainWait, FetchPause, FetchStep, FetchWait, FetchThaw, ThawFails, FetchGone,
       Fetching, Deliver, DeliverRetry, DeliverError, DeliverBan, Arrived, Finish
  <2>5. CASE TypeStep
    BY <2>5 DEF TypeStep, TypeRestart, TypeHold, Typing, HoldWait, HoldRefused, Record, InMain
  <2>6. CASE (\E t \in ftp : FtpThreadEnds(t)) \/ StopMirror \/ Terminated \/ UNCHANGED vars
    BY <2>6 DEF FtpThreadEnds, StopMirror, Terminated, vars
  <2> QED BY <2>1, <2>2, <2>3, <2>4, <2>5, <2>6 DEF Next, EngineStep
<1>2. PICK b \in Slots : b = eng.b
  BY <1>1, TakesName, LetsGo
<1>3. /\ InUse(slot[b]) /\ slot[b].link \in UntypedLinks /\ slot[b] \in SlotType
      /\ \/ ~Pending(slot[b])
         \/ slot'[b] = FreeSlot
  BY <1>1, <1>2, TakesName, LetsGo DEF Releases
<1>4. ~Pending(slot[b])
  BY <1>2, <1>3, FreeSlotType
<1>5. slot[b].st # "ftp"
  BY <1>3, TypedSlot DEF IInv
<1>6. slot[b].st \notin {"ftpready", "handshake"}
  BY <1>3, LinkAssumption DEF AnswerInv, Coherent
<1> QED BY <1>2, <1>3, <1>4, <1>5, <1>6 DEF Pending, InUse, SlotType, Statuses, Busy, OnWire

(* Unless an https link awaits its type (a run shows what happens then), a *)
(* link that keeps its transfer takes its name only once the headers have  *)
(* come or the transfer has ended (hts_wait_delayed).                      *)
THEOREM NamesFromHeaders ==
  ASSUME UntypedLinks \cap SecureLinks = {}
  PROVE  Spec => NamedFromHeaders
<1>1. IInv /\ EntryInv /\ AnswerInv /\ [Next]_vars =>
        [/\ eng.mode = "hold"
         /\ eng'.mode = "record"
         /\ slot'[eng.b].st # "free"
         => slot[eng.b].st \in {"transfer", "ready"}]_vars
  BY NamesAfterHeaders
<1> QED BY <1>1, AnswersInductive, PTL DEF Spec, NamedFromHeaders

(* The transfers of the other links. *)
Others(l) == Receiving \ InSlots(l)

(* The call adds the link that the engine is about. *)
OwnAdd ==
  Adding /\ eng.mode \in TypeModes \cup {"begin", "fetch"} /\ call.link = eng.link

(* An addition of back_fill that is under way. *)
Due == IF Adding /\ ~OwnAdd THEN 1 ELSE 0

(* What back_fill has planned keeps within the limit; only the link the    *)
(* engine waits for may exceed it, and only by itself.                     *)
Limits ==
  /\ OwnAdd => budget = 0
  /\ budget + Due > 0 => Cardinality(Receiving) + budget + Due <= MaxSoc
  /\ eng.mode \in {"begin", "fetch"} => Cardinality(Others(eng.link)) <= MaxSoc
  /\ eng.mode \in TypeModes => Cardinality(Others(eng.link)) < MaxSoc
  /\ eng.mode \notin {"begin", "fetch"} => Cardinality(Receiving) <= MaxSoc

(* The third loop of back_clean. *)
Trimmed ==
  /\ call.at = "trim" =>
       Overall <= MaxSoc + OneMore \/ \A q \in Alive : q >= call.i
  /\ call.at = "store" => Overall <= MaxSoc + OneMore \/ Alive = {}

(* The inductive invariant of the limits. *)
LimitInv == Limits /\ Trimmed

(* No transfer starts. *)
Narrows ==
  \A q \in Slots :
    slot'[q].st \in Busy => slot[q].st \in Busy /\ slot'[q].link = slot[q].link

-----------------------------------------------------------------------------
(* Sets of slots *)

(* Sets of slots are finite, and grow with what they contain. *)
LEMMA SlotSets ==
  /\ \A S \in SUBSET Slots : IsFiniteSet(S) /\ Cardinality(S) \in Nat
  /\ \A S, T \in SUBSET Slots : S \subseteq T => Cardinality(S) <= Cardinality(T)
  /\ \A S \in SUBSET Slots, q \in Slots : Cardinality(S \cup {q}) <= Cardinality(S) + 1
<1>1. IsFiniteSet(Slots)
  BY PoolAssumption, FS_Interval DEF Slots
<1>2. \A S \in SUBSET Slots : IsFiniteSet(S) /\ Cardinality(S) \in Nat
  BY <1>1, FS_Subset, FS_CardinalityType
<1>3. \A S, T \in SUBSET Slots : S \subseteq T => Cardinality(S) <= Cardinality(T)
  BY <1>2, FS_Subset
<1>4. ASSUME NEW S \in SUBSET Slots, NEW q \in Slots
      PROVE  Cardinality(S \cup {q}) <= Cardinality(S) + 1
  BY <1>2, FS_AddElement
<1> QED BY <1>2, <1>3, <1>4

(* The sets of transfers. *)
LEMMA TransferSets ==
  /\ Receiving \in SUBSET Slots /\ Receiving' \in SUBSET Slots
  /\ Alive \in SUBSET Slots /\ Alive' \in SUBSET Slots
  /\ \A l : Others(l) \in SUBSET Slots /\ Others(l)' \in SUBSET Slots
  /\ \A l : Others(l) \subseteq Receiving /\ Others(l)' \subseteq Receiving'
  /\ \A l : \A q \in Slots :
       q \in Others(l) <=> slot[q].st \in Busy /\ slot[q].link # l
  /\ \A l : \A q \in Slots :
       q \in Others(l)' <=> slot'[q].st \in Busy /\ slot'[q].link # l
BY DEF Receiving, Alive, Others, InSlots, Busy, OnWire

(* Without a new transfer no set of them grows. *)
LEMMA NarrowsSets ==
  ASSUME Narrows
  PROVE  /\ Cardinality(Receiving') <= Cardinality(Receiving)
         /\ Cardinality(Receiving') \in Nat /\ Cardinality(Receiving) \in Nat
         /\ \A l : /\ Cardinality(Others(l)') <= Cardinality(Others(l))
                   /\ Cardinality(Others(l)') \in Nat /\ Cardinality(Others(l)) \in Nat
<1>1. Receiving' \subseteq Receiving
  BY DEF Narrows, Receiving
<1>2. ASSUME NEW l
      PROVE  Others(l)' \subseteq Others(l)
  BY DEF Narrows, Others, Receiving, InSlots, Busy, OnWire
<1>3. /\ Receiving \in SUBSET Slots /\ Receiving' \in SUBSET Slots
      /\ \A l : Others(l) \in SUBSET Slots /\ Others(l)' \in SUBSET Slots
  BY TransferSets
<1>4. /\ Cardinality(Receiving') <= Cardinality(Receiving)
      /\ Cardinality(Receiving') \in Nat /\ Cardinality(Receiving) \in Nat
  BY <1>1, <1>3, SlotSets
<1>5. ASSUME NEW l
      PROVE  /\ Cardinality(Others(l)') <= Cardinality(Others(l))
             /\ Cardinality(Others(l)') \in Nat /\ Cardinality(Others(l)) \in Nat
  BY <1>2, <1>3, SlotSets
<1> QED BY <1>4, <1>5

-----------------------------------------------------------------------------
(* The limit of connections *)

(* A sum within the limit stays so when its terms shrink. *)
LEMMA Sums ==
  ASSUME NEW r \in Nat, NEW s \in Nat, NEW b \in Nat, NEW c \in Nat,
         NEW d \in Nat, NEW e \in Nat, s <= r, c <= b, e <= d,
         b + d > 0 => r + b + d <= MaxSoc
  PROVE  c + e > 0 => s + c + e <= MaxSoc
BY PoolAssumption

(* Steps that start no transfer, and plan none. *)
LEMMA NarrowsLimits ==
  ASSUME IInv, Limits, Narrows, eng' = eng, budget' \in 0 .. budget,
         Adding' => Adding /\ call'.link = call.link
  PROVE  Limits'
<1>1. budget \in Nat /\ budget' \in Nat /\ MaxSoc \in Nat /\ budget' <= budget
  BY PoolAssumption DEF IInv, TypeOK
<1>0. OwnAdd' => OwnAdd
  BY DEF OwnAdd
<1>2. Due' \in 0 .. 1 /\ Due \in 0 .. 1 /\ Due' <= Due
  BY DEF OwnAdd, Due
<1>3. budget' + Due' > 0 => Cardinality(Receiving') + budget' + Due' <= MaxSoc
  <2>1. PICK r \in Nat, s \in Nat : r = Cardinality(Receiving) /\ s = Cardinality(Receiving')
                                    /\ s <= r
    BY NarrowsSets
  <2>2. PICK b \in Nat, c \in Nat : b = budget /\ c = budget' /\ c <= b
    BY <1>1
  <2>3. PICK d \in Nat, e \in Nat : d = Due /\ e = Due' /\ e <= d
    BY <1>2
  <2>4. b + d > 0 => r + b + d <= MaxSoc
    BY <2>1, <2>2, <2>3 DEF Limits
  <2>5. c + e > 0 => s + c + e <= MaxSoc
    BY <2>1, <2>2, <2>3, <2>4, Sums
  <2> QED BY <2>1, <2>2, <2>3, <2>5
<1>4. PICK l \in Links \cup {NoLink} : l = eng.link
  BY DEF IInv, TypeOK, EngType
<1>5. /\ Cardinality(Others(l)') <= Cardinality(Others(l))
      /\ Cardinality(Others(l)') \in Nat /\ Cardinality(Others(l)) \in Nat
  BY NarrowsSets
<1>6. eng'.mode \in {"begin", "fetch"} => Cardinality(Others(l)') <= MaxSoc
  BY <1>1, <1>4, <1>5 DEF Limits
<1>7. eng'.mode \in TypeModes => Cardinality(Others(l)') < MaxSoc
  BY <1>1, <1>4, <1>5 DEF Limits
<1>8. eng'.mode \notin {"begin", "fetch"} => Cardinality(Receiving') <= MaxSoc
  BY <1>1, NarrowsSets DEF Limits
<1>9. OwnAdd' => budget' = 0
  BY <1>0, <1>1 DEF Limits
<1>10. Others(l)' = Others(eng.link)'
  BY <1>4
<1> QED BY <1>3, <1>6, <1>7, <1>8, <1>9, <1>10 DEF Limits

(* The limits when nothing is planned. *)
LEMMA NothingDue ==
  ASSUME budget' = 0, Due' = 0, Cardinality(Receiving') \in Nat,
         NEW l, l = eng'.link,
         eng'.mode \in {"begin", "fetch"} => Cardinality(Others(l)') <= MaxSoc,
         eng'.mode \in TypeModes => Cardinality(Others(l)') < MaxSoc,
         eng'.mode \notin {"begin", "fetch"} => Cardinality(Receiving') <= MaxSoc
  PROVE  Limits'
<1>1. Others(eng.link)' = Others(l)'
  BY DEF Others, InSlots
<1>2. ~(budget' + Due' > 0)
  OBVIOUS
<1> QED BY <1>1, <1>2 DEF Limits

(* The engine leaves a link. *)
LEMMA SettledLimits ==
  ASSUME IInv, Limits, Narrows, ~Adding', budget' = 0,
         eng'.mode \notin TypeModes \cup {"begin", "fetch"},
         \/ eng.mode \notin {"begin", "fetch"}
         \/ \A q \in Slots : slot'[q].st \in Busy => slot'[q].link # eng.link
  PROVE  Limits'
<1>1. Due' = 0
  BY DEF Due
<1>2. PICK l \in Links \cup {NoLink} : l = eng.link
  BY DEF IInv, TypeOK, EngType
<1>3. PICK m, r, s : m = Cardinality(Others(l)) /\ r = Cardinality(Receiving)
                     /\ s = Cardinality(Receiving')
  OBVIOUS
<1>4. m \in Nat /\ r \in Nat /\ s \in Nat /\ s <= r
  BY <1>3, NarrowsSets
<1>5. CASE eng.mode \notin {"begin", "fetch"}
  <2>1. r <= MaxSoc
    BY <1>3, <1>5 DEF Limits
  <2>2. s <= MaxSoc
    BY <1>4, <2>1, PoolAssumption
  <2> QED BY <1>1, <1>3, <1>4, <2>2, NothingDue
<1>6. CASE eng.mode \in {"begin", "fetch"}
  <2>1. m <= MaxSoc
    BY <1>2, <1>3, <1>6 DEF Limits
  <2>2. Receiving' \subseteq Others(l)
    BY <1>2, <1>6 DEF Narrows, Receiving, Others, InSlots
  <2>3. s <= m
    BY <1>3, <2>2, TransferSets, SlotSets
  <2>4. s <= MaxSoc
    BY <1>4, <2>1, <2>3, PoolAssumption
  <2> QED BY <1>1, <1>3, <1>4, <2>4, NothingDue
<1> QED BY <1>5, <1>6

(* The engine turns to a link, or adds it. *)
LEMMA TurnsLimits ==
  ASSUME IInv, Narrows, budget' = 0, NEW l, l = eng'.link,
         Adding' => call'.link = l,
         \/ eng'.mode \in {"begin", "fetch"} /\ Cardinality(Others(l)) <= MaxSoc
         \/ /\ eng'.mode \in TypeModes /\ Cardinality(Others(l)) < MaxSoc
            /\ Cardinality(Receiving) <= MaxSoc
  PROVE  Limits'
<1>1. Due' = 0
  BY DEF Due, OwnAdd
<1>2. PICK m, n, r, s : /\ m = Cardinality(Others(l)) /\ r = Cardinality(Receiving)
                        /\ n = Cardinality(Others(l)') /\ s = Cardinality(Receiving')
  OBVIOUS
<1>3. m \in Nat /\ n \in Nat /\ r \in Nat /\ s \in Nat /\ s <= r /\ n <= m
  BY <1>2, NarrowsSets
<1>4. CASE eng'.mode \in {"begin", "fetch"} /\ m <= MaxSoc
  <2>1. n <= MaxSoc
    BY <1>3, <1>4, PoolAssumption
  <2> QED BY <1>1, <1>2, <1>3, <1>4, <2>1, NothingDue DEF TypeModes
<1>5. CASE eng'.mode \in TypeModes /\ m < MaxSoc /\ r <= MaxSoc
  <2>1. n < MaxSoc /\ s <= MaxSoc
    BY <1>3, <1>5, PoolAssumption
  <2> QED BY <1>1, <1>2, <1>3, <1>5, <2>1, NothingDue DEF TypeModes
<1> QED BY <1>2, <1>4, <1>5

(* A link that is added: back_fill had planned it, or it is the one the    *)
(* engine is about.                                                        *)
LEMMA EnteringLimits ==
  ASSUME IInv, EntryInv, Limits,
         AddStopped \/ AddKnown \/ AddFtp \/ AddLive \/ AddConnect \/ AddRefused
  PROVE  Limits'
<1>1. PICK q \in Slots, u \in SlotType : Enters(q, u)
  BY Entering
<1>2. call.at = "fill" /\ call' = Idle /\ UNCHANGED <<eng, budget>> /\ call.link \in Links
  BY Entering
<1>3. Adding /\ ~Adding'
  BY <1>2 DEF Adding, Idle, IInv, Control
<1>4. Due' = 0
  BY <1>3 DEF Due
<1>5. PICK l \in Links : l = call.link
  BY <1>2
<1>6. NoEntry(l)
  BY <1>3, <1>5 DEF EntryInv, AddsNew, NoEntry
<1>7. /\ slot'[q].link = l
      /\ \A p \in Slots \ {q} : slot'[p].st \in Busy =>
           slot[p].st \in Busy /\ slot'[p].link = slot[p].link
  BY <1>1, <1>5, BusyInUse DEF Enters, Rest, Same, Alike
<1>8. Receiving' \subseteq Receiving \cup {q}
  BY <1>7 DEF Receiving
<1>9. Receiving' \subseteq Others(l) \cup {q} /\ Others(l)' \subseteq Others(l)
  <2>1. \A p \in Slots : slot[p].st \in Busy => slot[p].link # l
    BY <1>6, BusyInUse DEF NoEntry
  <2>2. Receiving \subseteq Others(l)
    BY <2>1 DEF Receiving, Others, InSlots
  <2>3. Others(l)' \subseteq Others(l)
    <3>1. \A p \in Slots : p \in Others(l)' => slot'[p].st \in Busy /\ slot'[p].link # l
      BY TransferSets
    <3>2. \A p \in Slots : slot[p].st \in Busy /\ slot[p].link # l => p \in Others(l)
      BY TransferSets
    <3> QED BY <1>7, <3>1, <3>2, TransferSets
  <2> QED BY <1>8, <2>2, <2>3
<1>10. PICK m, n, r, s : /\ m = Cardinality(Others(l)) /\ r = Cardinality(Receiving)
                         /\ n = Cardinality(Others(l)') /\ s = Cardinality(Receiving')
  OBVIOUS
<1>11. /\ m \in Nat /\ n \in Nat /\ r \in Nat /\ s \in Nat
       /\ s <= r + 1 /\ s <= m + 1 /\ n <= m /\ n <= s
  <2>1. /\ Receiving \in SUBSET Slots /\ Receiving' \in SUBSET Slots
        /\ Others(l) \in SUBSET Slots /\ Others(l)' \in SUBSET Slots
        /\ Others(l)' \subseteq Receiving'
    BY TransferSets
  <2>2. m \in Nat /\ n \in Nat /\ r \in Nat /\ s \in Nat /\ n <= m /\ n <= s
    BY <1>9, <1>10, <2>1, SlotSets
  <2>3. /\ s <= Cardinality(Receiving \cup {q})
        /\ s <= Cardinality(Others(l) \cup {q})
    BY <1>8, <1>9, <1>10, <2>1, SlotSets
  <2>4. /\ Cardinality(Receiving \cup {q}) <= r + 1
        /\ Cardinality(Others(l) \cup {q}) <= m + 1
        /\ Cardinality(Receiving \cup {q}) \in Nat /\ Cardinality(Others(l) \cup {q}) \in Nat
    BY <1>10, <2>1, SlotSets
  <2> QED BY <2>2, <2>3, <2>4
<1>12. CASE OwnAdd
  <2>1. eng'.link = l /\ budget' = 0 /\ eng.mode \in TypeModes \cup {"begin", "fetch"}
    BY <1>2, <1>5, <1>12 DEF OwnAdd, Limits
  <2>2. eng.mode \in {"begin", "fetch"} => n <= MaxSoc
    BY <1>2, <1>10, <1>11, <2>1, PoolAssumption DEF Limits
  <2>3. eng.mode \in TypeModes => m < MaxSoc
    BY <1>2, <1>10, <2>1 DEF Limits
  <2>4. eng.mode \in TypeModes => n < MaxSoc /\ s <= MaxSoc
    BY <1>11, <2>3, PoolAssumption
  <2> QED BY <1>2, <1>4, <1>10, <1>11, <2>1, <2>2, <2>4, NothingDue
<1>13. CASE ~OwnAdd
  <2>1. Due = 1
    BY <1>3, <1>13 DEF Due
  <2>2. PICK b \in Nat : b = budget
    BY PoolAssumption DEF IInv, TypeOK
  <2>3. r + b + 1 <= MaxSoc
    BY <1>10, <2>1, <2>2 DEF Limits
  <2>4. s + b <= MaxSoc /\ s <= MaxSoc
    BY <1>11, <2>2, <2>3, PoolAssumption
  <2>5. eng.mode \notin TypeModes
    BY <1>2, <1>3, <1>13 DEF EntryInv, TypeCalls, OwnAdd
  <2>6. PICK k \in Links \cup {NoLink} : k = eng.link
    BY DEF IInv, TypeOK, EngType
  <2>7. PICK o : o = Cardinality(Others(k)')
    OBVIOUS
  <2>8. o \in Nat /\ o <= s
    BY <1>10, <2>7, TransferSets, SlotSets
  <2>9. o <= MaxSoc
    BY <1>11, <2>4, <2>8, PoolAssumption
  <2>10. Others(eng.link)' = Others(k)'
    BY <1>2, <2>6 DEF Others, InSlots
  <2>11. budget' + Due' > 0 => Cardinality(Receiving') + budget' + Due' <= MaxSoc
    BY <1>2, <1>4, <1>10, <1>11, <2>2, <2>4
  <2>12. ~OwnAdd'
    BY <1>3 DEF OwnAdd
  <2> QED BY <1>2, <1>10, <2>4, <2>5, <2>7, <2>9, <2>10, <2>11, <2>12 DEF Limits
<1> QED BY <1>12, <1>13

(* Steps that start no transfer. *)
LEMMA CalmNarrows ==
  ASSUME \/ Calm
         \/ \E p \in Slots : Advances(p) \/ Releases(p)
         \/ slot' = slot
  PROVE  Narrows
<1>1. CASE Calm
  BY <1>1, BusyInUse DEF Calm, Narrows, Same, Alike
<1>2. CASE \E p \in Slots : Advances(p) \/ Releases(p)
  BY <1>2, BusyInUse DEF Advances, Releases, Narrows, Rest, Same, Alike
<1>3. CASE slot' = slot
  BY <1>3 DEF Narrows
<1> QED BY <1>1, <1>2, <1>3

(* Steps of the pool, of the threads and of the user. *)
LEMMA PoolLimits ==
  ASSUME IInv, Limits,
         \/ CleanStep
         \/ \E i \in Slots : Events(i) \/ CancelFile(i)
         \/ AddIfNotExists \/ WaitReturns \/ FillEnds \/ MainWait \/ HoldWait
         \/ \E t \in ftp : FtpThreadEnds(t)
         \/ StopMirror \/ UNCHANGED vars
  PROVE  Limits'
<1>0. budget \in Nat /\ budget \in 0 .. budget /\ 0 \in 0 .. budget
  BY PoolAssumption DEF IInv, TypeOK
<1>1. CASE \/ SweepAlive \/ SweepOther \/ ParkReady \/ TrimAlive
           \/ StoreReady /\ UNCHANGED <<slot, stored, ghost>>
  BY <1>0, <1>1, CleanCalm, CalmNarrows, NarrowsLimits DEF GoesOn, Adding
<1>2. CASE StoreReady /\ ~UNCHANGED <<slot, stored, ghost>>
  <2>1. /\ ~InUse(slot'[call.i]) /\ \A q \in Slots \ {call.i} : slot'[q] = slot[q]
        /\ UNCHANGED <<eng, budget>> /\ (Adding' => Adding /\ call'.link = call.link)
    BY <1>2, StoreMoves DEF GoesOn, Adding
  <2>2. Narrows
    BY <2>1, BusyInUse DEF Narrows
  <2> QED BY <1>0, <2>1, <2>2, NarrowsLimits
<1>3. CASE SweepWritten
  BY <1>0, <1>3, SweepReleases, CalmNarrows, NarrowsLimits DEF GoesOn, Adding
<1>4. CASE \E i \in Slots : Events(i) \/ CancelFile(i)
  BY <1>0, <1>4, Advancing, CalmNarrows, NarrowsLimits DEF Goes, Adding
<1>5. CASE AddIfNotExists \/ WaitReturns \/ FillEnds \/ MainWait \/ HoldWait
           \/ StopMirror \/ UNCHANGED vars
  <2>1. UNCHANGED <<slot, eng>> /\ budget' \in {0, budget}
    BY <1>5 DEF AddIfNotExists, WaitReturns, FillEnds, MainWait, HoldWait, StopMirror, vars, Calls
  <2>2. Adding' => Adding /\ call'.link = call.link
    <3>1. CASE AddIfNotExists
      BY <3>1 DEF AddIfNotExists, Adding, Idle, IInv, Control, TypeOK, CallType
    <3>2. CASE WaitReturns \/ FillEnds \/ MainWait \/ HoldWait \/ StopMirror \/ UNCHANGED vars
      BY <3>2 DEF WaitReturns, FillEnds, MainWait, HoldWait, StopMirror, vars, Adding, Idle, Begin
    <3> QED BY <1>5, <3>1, <3>2
  <2> QED BY <1>0, <2>1, <2>2, CalmNarrows, NarrowsLimits
<1>6. CASE \E t \in ftp : FtpThreadEnds(t)
  <2>1. PICK t \in ftp : FtpThreadEnds(t)
    BY <1>6
  <2>2. UNCHANGED <<eng, call, budget>> /\ (slot' = slot \/ \E i \in Slots : Advances(i))
    BY <2>1, ThreadAdvances DEF FtpThreadEnds, Goes
  <2> QED BY <1>0, <2>2, CalmNarrows, NarrowsLimits DEF Adding
<1> QED BY <1>1, <1>2, <1>3, <1>4, <1>5, <1>6 DEF CleanStep

(* back_fill plans what the limit leaves. *)
LEMMA FillLimits ==
  ASSUME IInv, EntryInv, Limits,
         StartFill \/ \E l \in Links : FillAdd(l)
  PROVE  Limits'
<1>1. PICK k \in Links \cup {NoLink} : k = eng.link
  BY DEF IInv, TypeOK, EngType
<1>2. PICK r, o : r = Cardinality(Receiving) /\ o = Cardinality(Others(k))
  OBVIOUS
<1>3. r \in Nat
  BY <1>2, TransferSets, SlotSets
<1>4. UNCHANGED <<slot, eng>> /\ call.at = "idle"
  BY DEF StartFill, FillAdd, Ready
<1>5. /\ Receiving' = Receiving /\ Others(eng.link)' = Others(k)
  BY <1>1, <1>4 DEF Receiving, Others, InSlots
<1>6. CASE StartFill
  <2>1. ~Adding' /\ ~OwnAdd' /\ Due' = 0
    BY <1>6 DEF StartFill, Ready, Adding, OwnAdd, Due
  <2>2. budget' = Pluggable /\ Pluggable > 0
    BY <1>6 DEF StartFill
  <2>3. Pluggable \in Nat /\ r + Pluggable <= MaxSoc
    <3>1. PICK f \in Nat : f = Cardinality(Free)
      BY SlotSets DEF Free
    <3> QED BY <1>2, <1>3, <2>2, <3>1, PoolAssumption DEF Pluggable
  <2>4. PICK p \in Nat : p = Pluggable
    BY <2>3
  <2>5. r + p + 0 <= MaxSoc
    BY <1>3, <2>3, <2>4, PoolAssumption
  <2>6. budget' + Due' > 0 => Cardinality(Receiving') + budget' + Due' <= MaxSoc
    BY <1>2, <1>5, <2>1, <2>2, <2>4, <2>5
  <2> QED BY <1>1, <1>2, <1>4, <1>5, <2>1, <2>6 DEF Limits
<1>7. CASE \E l \in Links : FillAdd(l)
  <2>1. PICK l \in Links : FillAdd(l)
    BY <1>7
  <2>2. PICK b \in Nat : b = budget
    BY PoolAssumption DEF IInv, TypeOK
  <2>3. /\ b > 0 /\ budget' = b - 1
        /\ eng.mode \in {"begin", "fetch"} => l # eng.link
        /\ call'.link = l /\ call'.at = "sweep" /\ call'.op = "add"
    BY <2>1, <2>2 DEF FillAdd, Begin
  <2>4. eng.mode \notin TypeModes
    BY <2>2, <2>3 DEF EntryInv, TypeCalls
  <2>5. ~OwnAdd' /\ Due' = 1
    BY <1>4, <2>3, <2>4 DEF OwnAdd, Due, Adding
  <2>6. ~Adding /\ Due = 0
    BY <1>4 DEF Adding, Due
  <2>7. r + b <= MaxSoc
    BY <1>2, <1>3, <2>2, <2>3, <2>6 DEF Limits
  <2>8. r + (b - 1) + 1 <= MaxSoc
    BY <1>3, <2>2, <2>3, <2>7, PoolAssumption
  <2>9. budget' + Due' > 0 => Cardinality(Receiving') + budget' + Due' <= MaxSoc
    BY <1>2, <1>5, <2>3, <2>5, <2>8
  <2> QED BY <1>1, <1>2, <1>4, <1>5, <2>5, <2>9 DEF Limits
<1> QED BY <1>6, <1>7

(* The engine waits for a link. *)
LEMMA FetchLimits ==
  ASSUME IInv, EntryInv, Limits,
         \/ FetchWait \/ FetchPause \/ FetchThaw \/ ThawFails
         \/ \E l \in Links : BeginFetch(l)
  PROVE  Limits'
<1>1. CASE FetchWait \/ FetchPause \/ FetchThaw \/ ThawFails
  <2>1. /\ eng.mode \in {"begin", "fetch"} /\ eng'.mode = "fetch" /\ eng'.link = eng.link
        /\ budget' = 0
    BY <1>1 DEF FetchWait, FetchPause, FetchThaw, ThawFails, Fetching, Ready, Calls,
       IInv, TypeOK, EngType
  <2>2. ~Adding'
    BY <1>1 DEF FetchWait, FetchPause, FetchThaw, ThawFails, Fetching, Ready, Begin, Adding
  <2>3. Narrows
    <3>1. CASE FetchThaw
      <4>1. PICK s \in stored, q \in Slots : Wake(s, q)
        BY <3>1 DEF FetchThaw, InStore
      <4> DEFINE u == [s EXCEPT !.locked = TRUE]
      <4>2. u.st = "ready"
        BY DEF IInv, TypeOK, StoredSound, SlotType
      <4>3. slot'[q] = u /\ \A p \in Slots \ {q} : slot'[p] = slot[p]
        BY <4>1 DEF Wake, Put, IInv, TypeOK
      <4> HIDE DEF u
      <4> QED BY <4>2, <4>3 DEF Narrows, Busy, OnWire
    <3>2. CASE FetchWait \/ FetchPause \/ ThawFails
      BY <3>2, CalmNarrows DEF FetchWait, FetchPause, ThawFails, Calls
    <3> QED BY <1>1, <3>1, <3>2
  <2>4. PICK l \in Links \cup {NoLink} : l = eng.link
    BY DEF IInv, TypeOK, EngType
  <2>5. Cardinality(Others(l)) <= MaxSoc
    BY <2>1, <2>4 DEF Limits
  <2> QED BY <2>1, <2>2, <2>3, <2>4, <2>5, TurnsLimits
<1>2. CASE \E l \in Links : BeginFetch(l)
  <2>1. PICK l \in Links : BeginFetch(l)
    BY <1>2
  <2>2. /\ eng.mode = "main" /\ eng'.mode = "begin" /\ eng'.link = l /\ slot' = slot
        /\ budget' = 0 /\ (Adding' => call'.link = l)
    BY <2>1 DEF BeginFetch, Ready, Calls, Begin, Adding
  <2>3. PICK m, r : m = Cardinality(Others(l)) /\ r = Cardinality(Receiving)
    OBVIOUS
  <2>4. m \in Nat /\ r \in Nat /\ m <= r
    BY <2>3, TransferSets, SlotSets
  <2>5. r <= MaxSoc
    BY <2>2, <2>3 DEF Limits
  <2>6. m <= MaxSoc
    BY <2>4, <2>5, PoolAssumption
  <2> QED BY <2>2, <2>3, <2>6, CalmNarrows, TurnsLimits
<1> QED BY <1>1, <1>2

(* The engine adds a link for its type. *)
LEMMA TypeLimits ==
  ASSUME IInv, EntryInv, Limits, TypeRestart \/ \E l \in Links : BeginType(l)
  PROVE  Limits'
<1>1. CASE \E l \in Links : BeginType(l)
  <2>1. PICK l \in Links : BeginType(l)
    BY <1>1
  <2>2. /\ eng.mode = "main" /\ eng'.mode = "type" /\ eng'.link = l /\ slot' = slot
        /\ budget' = 0 /\ call'.link = l /\ Cardinality(Receiving) < MaxSoc
    BY <2>1 DEF BeginType, Ready, Calls, Begin
  <2>3. PICK m, r : m = Cardinality(Others(l)) /\ r = Cardinality(Receiving)
    OBVIOUS
  <2>4. m \in Nat /\ r \in Nat /\ m <= r
    BY <2>3, TransferSets, SlotSets
  <2>5. m < MaxSoc /\ r <= MaxSoc
    BY <2>2, <2>3, <2>4, PoolAssumption
  <2> QED BY <2>2, <2>3, <2>5, CalmNarrows, TurnsLimits DEF TypeModes
<1>2. CASE TypeRestart
  <2>1. PICK m \in Links : m = eng.link
    BY <1>2, Restarting
  <2>2. eng.mode = "type" /\ budget' = 0 /\ call.at = "idle" /\ Narrows
    BY <1>2, Restarting, CalmNarrows
  <2>3. CASE eng' = [eng EXCEPT !.mode = "retype"] /\ Begin("addif", m, "guessed")
    <3>1. eng'.mode = "retype" /\ eng'.link = m /\ call'.link = m
      BY <2>1, <2>3 DEF Begin, IInv, TypeOK, EngType
    <3>2. Cardinality(Others(m)) < MaxSoc /\ Cardinality(Receiving) <= MaxSoc
      BY <2>1, <2>2 DEF Limits, TypeModes
    <3> QED BY <2>2, <3>1, <3>2, TurnsLimits DEF TypeModes
  <2>4. CASE eng' = InMain /\ UNCHANGED call
    BY <2>2, <2>4, SettledLimits DEF InMain, Adding, TypeModes
  <2> QED BY <1>2, <2>1, <2>3, <2>4, Restarting
<1> QED BY <1>1, <1>2

(* The engine leaves a link. *)
LEMMA LeavesLimits ==
  ASSUME IInv, EntryInv, Limits,
         \/ AddFull \/ FetchGone
         \/ \E b \in Slots : Deliver(b) \/ DeliverRetry(b) \/ DeliverError(b) \/ DeliverBan(b)
         \/ TypeHold \/ HoldNamed \/ HoldMoved \/ HoldCancelled \/ HoldRefused
         \/ Record \/ Finish
  PROVE  Limits'
<1>1. CASE AddFull
  <2>1. /\ slot' = slot /\ budget' = 0 /\ call' = Idle
        /\ \/ eng' = eng
           \/ eng.mode \in TypeModes /\ eng'.mode = "panic"
    BY <1>1 DEF AddFull, TypeModes, InMain
  <2>2. Narrows /\ ~Adding' /\ 0 \in 0 .. budget
    BY <2>1, CalmNarrows, PoolAssumption DEF Adding, Idle, IInv, TypeOK
  <2>3. CASE eng' = eng
    BY <2>1, <2>2, <2>3, NarrowsLimits
  <2>4. CASE eng.mode \in TypeModes /\ eng'.mode = "panic"
    BY <2>1, <2>2, <2>4, SettledLimits DEF TypeModes
  <2> QED BY <2>1, <2>3, <2>4
<1>2. CASE FetchGone
  <2>1. /\ slot' = slot /\ budget' = 0 /\ call' = call /\ call.at = "idle" /\ eng'.mode = "main"
        /\ InSlots(eng.link) = {}
    BY <1>2 DEF FetchGone, Fetching, Ready, InMain
  <2>2. \A q \in Slots : slot'[q].st \in Busy => slot'[q].link # eng.link
    BY <2>1 DEF InSlots, Busy, OnWire
  <2> QED BY <2>1, <2>2, CalmNarrows, SettledLimits DEF Adding, TypeModes
<1>3. CASE \E b \in Slots : Deliver(b) \/ DeliverRetry(b) \/ DeliverError(b)
  <2>1. PICK b \in Slots : Deliver(b) \/ DeliverRetry(b) \/ DeliverError(b)
    BY <1>3
  <2>2. /\ Releases(b) /\ InUse(slot[b]) /\ slot[b].link = eng.link /\ eng'.mode = "main"
        /\ budget' = 0 /\ call' = call /\ call.at = "idle"
    BY <2>1, Delivering DEF InMain, Releases
  <2>3. \A q \in Slots : slot'[q].st \in Busy => slot'[q].link # eng.link
    BY <2>2, BusyInUse DEF Releases, Rest, Same, Alike, EntryInv, Distinct
  <2> QED BY <2>2, <2>3, CalmNarrows, SettledLimits DEF Adding, TypeModes
<1>4. CASE \E b \in Slots : DeliverBan(b)
  <2>1. PICK b \in Slots : DeliverBan(b)
    BY <1>4
  <2>2. /\ InUse(slot[b]) /\ slot[b].link = eng.link /\ eng'.mode = "main"
        /\ ~InUse(slot'[b]) /\ budget' = 0 /\ call' = call /\ call.at = "idle"
        /\ \A q \in Slots \ {b} : slot'[q] \in {slot[q], Failed(slot[q], "failed")}
    BY <2>1, Banning DEF InMain
  <2>3. \A q \in Slots : Failed(slot[q], "failed").st = "ready"
    BY FailedAlike DEF IInv, TypeOK, Codes
  <2>4. \A q \in Slots : slot'[q].st \in Busy => q # b /\ slot'[q] = slot[q]
    BY <2>2, <2>3, BusyInUse DEF Busy, OnWire
  <2>5. Narrows
    BY <2>4 DEF Narrows
  <2>6. \A q \in Slots : slot'[q].st \in Busy => slot'[q].link # eng.link
    BY <2>2, <2>4, BusyInUse DEF EntryInv, Distinct
  <2> QED BY <2>2, <2>5, <2>6, SettledLimits DEF Adding, TypeModes
<1>5. CASE TypeHold \/ HoldNamed \/ HoldRefused
  <2>1. /\ budget' = 0 /\ call' = call /\ call.at = "idle"
        /\ eng.mode \in TypeModes \cup {"hold"} /\ eng'.mode \in {"hold", "record", "main"}
    <3>1. CASE TypeHold
      BY <3>1, TakesHold
    <3>2. CASE HoldNamed
      BY <3>2, TakesName
    <3>3. CASE HoldRefused
      BY <3>3, LeavesIt DEF InMain
    <3> QED BY <1>5, <3>1, <3>2, <3>3
  <2>2. PICK b \in Slots :
          /\ InUse(slot[b]) /\ slot[b] \in SlotType
          /\ \A r \in Slots \ {b} : slot'[r] = slot[r]
          /\ \/ slot'[b] = [slot[b] EXCEPT !.early = TRUE, !.locked = TRUE]
             \/ slot'[b] = [slot[b] EXCEPT !.locked = FALSE]
             \/ slot'[b] = [slot[b] EXCEPT !.locked = FALSE, !.kind = "final",
                              !.final = @ \/ slot[b].st = "ready"]
    BY <1>5, TakesHold, TakesName, LeavesIt
  <2>3. slot'[b].st = slot[b].st /\ slot'[b].link = slot[b].link
    BY <2>2 DEF SlotType
  <2>4. Narrows
    BY <2>2, <2>3 DEF Narrows
  <2> QED BY <2>1, <2>4, SettledLimits DEF Adding, TypeModes
<1>6. CASE HoldMoved \/ HoldCancelled
  <2>1. /\ eng.b \in Slots /\ Releases(eng.b) /\ eng.mode = "hold"
        /\ budget' = 0 /\ call' = call /\ call.at = "idle" /\ eng'.mode \in {"record", "main"}
    BY <1>6, LetsGo DEF InMain
  <2> QED BY <2>1, CalmNarrows, SettledLimits DEF Adding, TypeModes
<1>7. CASE Record
  BY <1>7, CalmNarrows, SettledLimits DEF Record, Ready, InMain, Adding, TypeModes
<1>8. CASE Finish
  <2>1. /\ budget' = 0 /\ call' = call /\ call.at = "idle" /\ eng.mode = "main"
        /\ eng'.mode = "end" /\ \A q \in Slots : slot'[q].st = "free"
    BY <1>8, FreeSlotType DEF Finish, Ready, InMain
  <2>2. Narrows
    BY <2>1 DEF Narrows, Busy, OnWire
  <2> QED BY <2>1, <2>2, SettledLimits DEF Adding, TypeModes
<1> QED BY <1>1, <1>2, <1>3, <1>4, <1>5, <1>6, <1>7, <1>8

(* Every step keeps the limits. *)
LEMMA LimitsInvariance ==
  ASSUME IInv, EntryInv, Limits, [Next]_vars
  PROVE  Limits'
<1>1. CASE CleanStep \/ WaitReturns \/ FillEnds \/ MainWait
           \/ (\E i \in Slots : Events(i) \/ CancelFile(i))
           \/ (\E t \in ftp : FtpThreadEnds(t)) \/ StopMirror \/ Terminated \/ UNCHANGED vars
  BY <1>1, PoolLimits DEF Terminated
<1>2. CASE AddStep
  BY <1>2, PoolLimits, EnteringLimits, LeavesLimits DEF AddStep
<1>3. CASE StartFill \/ \E l \in Links : FillAdd(l)
  BY <1>3, FillLimits
<1>4. CASE FetchPause \/ \E l \in Links : BeginFetch(l) \/ BeginType(l)
  BY <1>4, FetchLimits, TypeLimits
<1>5. CASE FetchStep
  BY <1>5, FetchLimits, LeavesLimits DEF FetchStep
<1>6. CASE TypeStep \/ Finish
  BY <1>6, TypeLimits, LeavesLimits, PoolLimits DEF TypeStep
<1> QED BY <1>1, <1>2, <1>3, <1>4, <1>5, <1>6 DEF Next, EngineStep

(* The steps that reach the third loop of back_clean or the fourth, or what*)
(* follows them in an addition.                                            *)
LEMMA TrimPlaces ==
  ASSUME IInv, [Next]_vars, call'.at \in {"trim", "store", "exist", "fill"}
  PROVE  \/ ParkReady \/ TrimAlive \/ StoreReady
         \/ \E t \in ftp : FtpThreadEnds(t)
         \/ StopMirror \/ UNCHANGED vars
<1>1. CASE SweepWritten \/ SweepAlive \/ SweepOther
  <2>1. Turn("park") /\ call.at = "sweep" /\ call \in CallType
    BY <1>1 DEF SweepWritten, SweepAlive, SweepOther, IInv, TypeOK
  <2>2. call'.at \in {"sweep", "park"}
    BY <2>1 DEF Turn, CallType
  <2> QED BY <2>2
<1>2. CASE AddStep
  <2>1. /\ call' \in {Idle, [call EXCEPT !.op = "add", !.at = "sweep"]}
        /\ call \in CallType
    BY <1>2 DEF AddStep, AddIfNotExists, AddStopped, AddKnown, AddFtp, AddLive, AddConnect,
       AddRefused, AddFull, AddAt, IInv, TypeOK
  <2>2. CASE call' = Idle
    BY <2>2 DEF Idle
  <2>3. CASE call' = [call EXCEPT !.op = "add", !.at = "sweep"]
    BY <2>1, <2>3 DEF CallType
  <2> QED BY <2>1, <2>2, <2>3
<1>3. CASE \E i \in Slots : Events(i) \/ CancelFile(i)
  <2>1. call' = call /\ call.at \in {"net", "idle"}
    BY <1>3, Advancing DEF Events, CancelFile, Ready, Broken, Connected, Handshake, Headers,
       NotModified, OpenOutput, BodyEnd, ChunkEnd, FtpCollect, NetStep
  <2> QED BY <2>1
<1>4. CASE \/ WaitReturns \/ FillEnds \/ StartFill \/ MainWait \/ FetchPause
           \/ \E l \in Links : FillAdd(l) \/ BeginFetch(l) \/ BeginType(l)
  <2>1. call'.at \in {"idle", "sweep"}
    BY <1>4 DEF WaitReturns, FillEnds, StartFill, MainWait, FetchPause, FillAdd, BeginFetch,
       BeginType, Idle, Begin, Ready, Fetching
  <2> QED BY <2>1
<1>5. CASE FetchStep
  <2>1. call'.at \in {"idle", "sweep"}
    BY <1>5 DEF FetchStep, FetchWait, FetchThaw, ThawFails, FetchGone, Deliver, DeliverRetry,
       DeliverError, DeliverBan, Arrived, Fetching, Ready, Begin
  <2> QED BY <2>1
<1>6. CASE TypeStep \/ Finish
  <2>1. CASE TypeRestart
    <3>1. call'.at = "sweep" \/ (call' = call /\ call.at = "idle")
      BY <2>1 DEF TypeRestart, Typing, Ready, Begin
    <3> QED BY <3>1
  <2>2. CASE HoldWait
    BY <2>2 DEF HoldWait, Begin
  <2>3. CASE \/ TypeHold \/ HoldNamed \/ HoldMoved \/ HoldRefused \/ HoldCancelled
             \/ Record \/ Finish
    <3>1. call' = call /\ call.at = "idle"
      BY <2>3 DEF TypeHold, HoldNamed, HoldMoved, HoldRefused, HoldCancelled, Record, Finish,
         Typing, Holding, Ready
    <3> QED BY <3>1
  <2> QED BY <1>6, <2>1, <2>2, <2>3 DEF TypeStep
<1> QED BY <1>1, <1>2, <1>3, <1>4, <1>5, <1>6 DEF Next, EngineStep, CleanStep, Terminated

(* Idle connections go until the limit is kept, or none is left. *)
LEMMA TrimmedInvariance ==
  ASSUME IInv, Trimmed, [Next]_vars
  PROVE  Trimmed'
<1> SUFFICES ASSUME call'.at \in {"trim", "store"}
             PROVE  Trimmed'
  BY DEF Trimmed
<1> DEFINE i == call.i
<1>1. i \in Slots /\ call \in CallType /\ Slots \subseteq Nat /\ BackMax \in Nat
  BY Values DEF IInv, TypeOK, CallType
<1>2. CASE ParkReady
  <2>1. call.at = "park" /\ Turn("trim")
    BY <1>2 DEF ParkReady
  <2>2. call'.at = "trim" /\ call'.i = 0
    BY <1>1, <2>1 DEF Turn, CallType
  <2>3. \A q \in Alive' : q \in Nat /\ q >= 0
    BY <1>1, TransferSets
  <2> QED BY <2>2, <2>3 DEF Trimmed
<1>3. CASE TrimAlive
  <2>1. call.at = "trim" /\ Turn("store")
    BY <1>3 DEF TrimAlive
  <2>2. \/ i + 1 < BackMax /\ call'.at = "trim" /\ call'.i = i + 1
        \/ i + 1 >= BackMax /\ call'.at = "store"
    BY <1>1, <2>1 DEF Turn, CallType
  <2>3. Overall <= MaxSoc + OneMore \/ \A q \in Alive : q >= i
    BY <2>1 DEF Trimmed
  <2>4. CASE slot[i].st = "alive" /\ Overall > MaxSoc + OneMore
    <3>1. Delete(i)
      BY <1>3, <2>4 DEF TrimAlive
    <3>2. slot'[i].st = "free" /\ \A q \in Slots \ {i} : slot'[q] = slot[q]
      BY <1>1, <3>1, FreeSlotType DEF Delete, IInv, TypeOK
    <3>3. ~(Overall <= MaxSoc + OneMore)
      <4>1. PICK n : n = Overall
        OBVIOUS
      <4>2. n \in Nat
        BY <4>1, TransferSets, SlotSets DEF Overall
      <4> QED BY <2>4, <4>1, <4>2, PoolAssumption
    <3>4. \A q \in Alive' : q \in Slots /\ q # i /\ q >= i
      BY <2>3, <3>2, <3>3 DEF Alive
    <3>5. \A q \in Alive' : q >= i + 1
      <4> SUFFICES ASSUME NEW q \in Alive'
                   PROVE  q >= i + 1
        OBVIOUS
      <4>1. q \in Nat /\ i \in Nat /\ q # i /\ q >= i
        BY <1>1, <3>4
      <4> HIDE DEF i
      <4> QED BY <4>1
    <3>6. i + 1 >= BackMax => Alive' = {}
      BY <1>1, <3>5, TransferSets DEF Slots
    <3> QED BY <2>2, <3>5, <3>6 DEF Trimmed
  <2>5. CASE ~(slot[i].st = "alive" /\ Overall > MaxSoc + OneMore)
    <3>1. slot' = slot
      BY <1>3, <2>5 DEF TrimAlive
    <3>2. Alive' = Alive /\ Receiving' = Receiving /\ Overall' = Overall
      BY <3>1 DEF Alive, Receiving, Overall
    <3>3. CASE Overall <= MaxSoc + OneMore
      BY <2>2, <3>2, <3>3 DEF Trimmed
    <3>4. CASE ~(Overall <= MaxSoc + OneMore)
      <4>1. PICK n : n = Overall
        OBVIOUS
      <4>2. n \in Nat
        BY <4>1, TransferSets, SlotSets DEF Overall
      <4>3. n > MaxSoc + OneMore
        BY <3>4, <4>1, <4>2, PoolAssumption
      <4>4. slot[i].st # "alive"
        BY <2>5, <4>1, <4>3
      <4>5. \A q \in Alive : q \in Slots /\ q # i /\ q >= i
        BY <2>3, <3>4, <4>4 DEF Alive
      <4>6. \A q \in Alive : q >= i + 1
        <5> SUFFICES ASSUME NEW q \in Alive
                     PROVE  q >= i + 1
          OBVIOUS
        <5>1. q \in Nat /\ i \in Nat /\ q # i /\ q >= i
          BY <1>1, <4>5
        <5> HIDE DEF i
        <5> QED BY <5>1
      <4>7. i + 1 >= BackMax => Alive = {}
        BY <1>1, <4>6, TransferSets DEF Slots
      <4> QED BY <2>2, <3>2, <4>6, <4>7 DEF Trimmed
    <3> QED BY <3>3, <3>4
  <2> QED BY <2>4, <2>5
<1>4. CASE StoreReady
  <2>1. call.at = "store" /\ call'.at = "store"
    <3>1. \/ call' = [call EXCEPT !.i = i + 1]
          \/ call' = [call EXCEPT !.at = Body[call.op], !.i = 0]
      BY <1>4 DEF StoreReady
    <3>2. Body[call.op] \in {"net", "fill", "exist"}
      BY <1>1 DEF Body, CallType, Ops
    <3> QED BY <1>1, <1>4, <3>1, <3>2 DEF StoreReady, CallType
  <2>2. \A q \in Slots :
          /\ slot'[q].st = "alive" <=> slot[q].st = "alive"
          /\ slot'[q].st \in Busy <=> slot[q].st \in Busy
    <3>1. CASE slot' = slot
      BY <3>1
    <3>2. CASE ~(slot' = slot)
      BY <1>4, <3>2, StoreMoves, FreeSlotType DEF Busy, OnWire
    <3> QED BY <3>1, <3>2
  <2>3. Alive' = Alive /\ Receiving' = Receiving /\ Overall' = Overall
    BY <2>2 DEF Alive, Receiving, Overall
  <2> QED BY <2>1, <2>3 DEF Trimmed
<1>5. CASE (\E t \in ftp : FtpThreadEnds(t)) \/ StopMirror \/ UNCHANGED vars
  <2>1. call' = call
    BY <1>5 DEF FtpThreadEnds, StopMirror, vars
  <2>2. \A q \in Slots :
          /\ slot'[q].st = "alive" <=> slot[q].st = "alive"
          /\ slot'[q].st \in Busy <=> slot[q].st \in Busy
    <3>1. CASE slot' = slot
      BY <3>1
    <3>2. CASE ~(slot' = slot)
      <4>1. PICK t \in ftp : FtpThreadEnds(t) /\ eng.mode # "end"
        BY <1>5, <3>2 DEF FtpThreadEnds, StopMirror, vars
      <4>2. PICK c : slot' = [slot EXCEPT ![t.b].st = "ftpready", ![t.b].code = c]
        BY <4>1 DEF FtpThreadEnds
      <4>3. t.b \in Slots /\ slot[t.b].st = "ftp" /\ slot \in [Slots -> SlotType]
        BY <4>1 DEF IInv, TypeOK, Threads
      <4>4. slot'[t.b].st = "ftpready" /\ \A q \in Slots \ {t.b} : slot'[q] = slot[q]
        BY <4>2, <4>3 DEF SlotType
      <4> QED BY <4>3, <4>4 DEF Busy, OnWire
    <3> QED BY <3>1, <3>2
  <2>3. Alive' = Alive /\ Receiving' = Receiving /\ Overall' = Overall
    BY <2>2 DEF Alive, Receiving, Overall
  <2> QED BY <2>1, <2>3 DEF Trimmed
<1> QED BY <1>2, <1>3, <1>4, <1>5, TrimPlaces

(* The limits hold in every state. *)
LEMMA LimitsInductive == Spec => [](IInv /\ EntryInv /\ AnswerInv /\ LimitInv)
<1>1. ASSUME Init
      PROVE  LimitInv
  <2>1. Receiving = {}
    BY <1>1, FreeSlotType DEF Init, Receiving, Busy, OnWire
  <2>2. Cardinality(Receiving) = 0
    BY <2>1, FS_EmptySet
  <2>3. ~Adding /\ Due = 0 /\ eng.mode = "main" /\ call.at = "idle" /\ budget = 0
    BY <1>1 DEF Init, Adding, Idle, Due, InMain
  <2> QED BY <2>2, <2>3, PoolAssumption DEF LimitInv, Limits, Trimmed, OwnAdd, TypeModes
<1>2. Init => IInv /\ EntryInv /\ LimitInv
  BY <1>1, Initially, EntriesInitially
<1>3. IInv /\ EntryInv /\ LimitInv /\ [Next]_vars => (IInv /\ EntryInv /\ LimitInv)'
  BY Invariance, EntryInvariance, LimitsInvariance, TrimmedInvariance DEF LimitInv
<1> QED BY <1>2, <1>3, AnswersInductive, PTL DEF Spec

(* Transfers never exceed the limit of the user by more than the link the  *)
(* engine waits for, whatever back_fill plans and the type tests add, and  *)
(* back_clean leaves the idle connections within the limit.                *)
THEOREM WithinLimits == Spec => []LimitsKept
<1>1. ASSUME IInv, EntryInv, LimitInv
      PROVE  LimitsKept
  <2>1. PICK l \in Links \cup {NoLink} : l = eng.link
    BY <1>1 DEF IInv, TypeOK, EngType
  <2>2. PICK m, r : m = Cardinality(Others(l)) /\ r = Cardinality(Receiving)
    OBVIOUS
  <2>3. m \in Nat /\ r \in Nat
    BY <2>2, TransferSets, SlotSets
  <2>4. r <= MaxSoc + 1
    <3>1. CASE eng.mode \notin {"begin", "fetch"}
      <4>1. r <= MaxSoc
        BY <1>1, <2>2, <3>1 DEF LimitInv, Limits
      <4> QED BY <2>3, <4>1, PoolAssumption
    <3>2. CASE eng.mode \in {"begin", "fetch"}
      <4>1. m <= MaxSoc
        BY <1>1, <2>1, <2>2, <3>2 DEF LimitInv, Limits
      <4>2. PICK q \in Slots : Receiving \subseteq Others(l) \cup {q}
        <5>1. 0 \in Slots
          BY Values
        <5>2. \A p, q \in Slots : p \in InSlots(l) /\ q \in InSlots(l) => p = q
          BY <1>1 DEF EntryInv, Distinct, InSlots, InUse
        <5> QED BY <5>1, <5>2 DEF Others, InSlots
      <4>3. r <= Cardinality(Others(l) \cup {q}) /\ Cardinality(Others(l) \cup {q}) <= m + 1
            /\ Cardinality(Others(l) \cup {q}) \in Nat
        BY <2>2, <4>2, TransferSets, SlotSets
      <4> QED BY <2>3, <4>1, <4>3, PoolAssumption
    <3> QED BY <3>1, <3>2
  <2> QED BY <1>1, <2>2, <2>4 DEF LimitsKept, LimitInv, Trimmed
<1>2. IInv /\ EntryInv /\ LimitInv => LimitsKept
  BY <1>1
<1> QED BY <1>2, LimitsInductive, PTL

-----------------------------------------------------------------------------
(* The pool as its callers see it *)

(* What an entry says of the transfer of its link. *)
Says(s) ==
  IF s.st \in Busy THEN "active"
  ELSE IF s.code \in {"ok", "moved"} THEN "good"
  ELSE IF s.code = "error" THEN "error"
  ELSE "bad"

(* The only entry of a link says what its transfer is. *)
LEMMA TransferSays ==
  ASSUME Distinct, NEW l
  PROVE  /\ \A q \in Slots : InUse(slot[q]) /\ slot[q].link = l => Transfer(l) = Says(slot[q])
         /\ \A s \in stored : s.link = l => Transfer(l) = Says(s)
         /\ /\ \A q \in Slots : InUse(slot[q]) => slot[q].link # l
            /\ \A s \in stored : s.link # l
            => Transfer(l) = "none"
<1>1. ASSUME NEW q \in Slots, InUse(slot[q]), slot[q].link = l
      PROVE  Transfer(l) = Says(slot[q])
  <2>1. Entry(l) = {slot[q]}
    BY <1>1 DEF Entry, InSlots, InUse, Distinct
  <2> QED BY <2>1 DEF Transfer, Says
<1>2. ASSUME NEW s \in stored, s.link = l
      PROVE  Transfer(l) = Says(s)
  <2>1. Entry(l) = {s}
    BY <1>2 DEF Entry, InSlots, InUse, Distinct
  <2> QED BY <2>1 DEF Transfer, Says
<1>3. ASSUME \A q \in Slots : InUse(slot[q]) => slot[q].link # l, \A s \in stored : s.link # l
      PROVE  Transfer(l) = "none"
  BY <1>3 DEF Transfer, Entry, InSlots, InUse
<1> QED BY <1>1, <1>2, <1>3

(* So it is after the step. *)
LEMMA TransferSaysNext ==
  ASSUME Distinct', NEW l
  PROVE  /\ \A q \in Slots : InUse(slot'[q]) /\ slot'[q].link = l => Transfer(l)' = Says(slot'[q])
         /\ \A s \in stored' : s.link = l => Transfer(l)' = Says(s)
         /\ /\ \A q \in Slots : InUse(slot'[q]) => slot'[q].link # l
            /\ \A s \in stored' : s.link # l
            => Transfer(l)' = "none"
<1>1. ASSUME NEW q \in Slots, InUse(slot'[q]), slot'[q].link = l
      PROVE  Transfer(l)' = Says(slot'[q])
  <2>1. Entry(l)' = {slot'[q]}
    BY <1>1 DEF Entry, InSlots, InUse, Distinct
  <2> QED BY <2>1 DEF Transfer, Says
<1>2. ASSUME NEW s \in stored', s.link = l
      PROVE  Transfer(l)' = Says(s)
  <2>1. Entry(l)' = {s}
    BY <1>2 DEF Entry, InSlots, InUse, Distinct
  <2> QED BY <2>1 DEF Transfer, Says
<1>3. ASSUME \A q \in Slots : InUse(slot'[q]) => slot'[q].link # l, \A s \in stored' : s.link # l
      PROVE  Transfer(l)' = "none"
  BY <1>3 DEF Transfer, Entry, InSlots, InUse
<1> QED BY <1>1, <1>2, <1>3

(* A step that leaves the entry of a link alone leaves its transfer alone. *)
LEMMA TransferKept ==
  ASSUME NEW l, stored' = stored,
         \A q \in Slots :
           \/ ~(InUse(slot[q]) /\ slot[q].link = l) /\ ~(InUse(slot'[q]) /\ slot'[q].link = l)
           \/ /\ slot'[q].link = slot[q].link /\ slot'[q].st = slot[q].st
              /\ slot'[q].code = slot[q].code
  PROVE  Transfer(l)' = Transfer(l)
<1>1. \A q \in Slots : q \in InSlots(l)' <=> q \in InSlots(l)
  BY DEF InSlots, InUse
<1>2. InSlots(l)' = InSlots(l) /\ InSlots(l) \subseteq Slots
  BY <1>1 DEF InSlots
<1>3. \A q \in InSlots(l) : slot'[q].st = slot[q].st /\ slot'[q].code = slot[q].code
  BY DEF InSlots, InUse
<1>4. Entry(l)' = {} <=> Entry(l) = {}
  BY <1>2 DEF Entry
<1>5. \A S : (\E s \in Entry(l)' : s.st \in S) <=> (\E s \in Entry(l) : s.st \in S)
  BY <1>2, <1>3 DEF Entry
<1>6. \A C : (\E s \in Entry(l)' : s.code \in C) <=> (\E s \in Entry(l) : s.code \in C)
  BY <1>2, <1>3 DEF Entry
<1>7. (\E s \in Entry(l)' : s.code = "error") <=> (\E s \in Entry(l) : s.code = "error")
  BY <1>2, <1>3 DEF Entry
<1> QED BY <1>4, <1>5, <1>6, <1>7 DEF Transfer

(* The other slots are the same entries: other links keep their transfers. *)
LEMMA RestTransfers ==
  ASSUME NEW p, Rest(p), stored' = stored, NEW l,
         p \in Slots => /\ InUse(slot[p]) => slot[p].link # l
                        /\ InUse(slot'[p]) => slot'[p].link # l
  PROVE  Transfer(l)' = Transfer(l)
BY TransferKept DEF Rest, Same, Alike

(* A step about one link. *)
LEMMA BecomesOf ==
  ASSUME NEW m \in Links, NEW x, NEW f, Transfer(m)' = x, FateOf(m)' = f,
         \A l \in Links \ {m} : Transfer(l)' = Transfer(l) /\ FateOf(l)' = FateOf(l)
  PROVE  D!Becomes(m, x, f)
BY DEF D!Becomes

(* A step that changes nothing the callers see. *)
LEMMA Unseen ==
  ASSUME \A l \in Links : Transfer(l)' = Transfer(l), lk' = lk
  PROVE  UNCHANGED D!vars
BY DEF D!vars, FateOf

(* Steps that change no entry. *)
LEMMA QuietPromise ==
  ASSUME IInv,
         \/ SweepAlive \/ SweepOther \/ ParkReady \/ TrimAlive
         \/ StoreReady /\ UNCHANGED <<slot, stored, ghost>>
         \/ AddIfNotExists \/ AddFull \/ WaitReturns \/ StartFill \/ FillEnds
         \/ MainWait \/ FetchWait \/ FetchPause \/ HoldWait
         \/ \E l \in Links : FillAdd(l) \/ BeginFetch(l) \/ BeginType(l)
         \/ StopMirror \/ UNCHANGED vars
  PROVE  UNCHANGED D!vars
<1>1. (\A q \in Slots : Same(q)) /\ stored' = stored /\ lk' = lk
  <2>1. CASE \/ SweepAlive \/ SweepOther \/ ParkReady \/ TrimAlive
             \/ StoreReady /\ UNCHANGED <<slot, stored, ghost>>
    BY <2>1, CleanCalm DEF Calm
  <2>2. CASE \/ AddIfNotExists \/ AddFull \/ WaitReturns \/ StartFill \/ FillEnds
             \/ MainWait \/ FetchWait \/ FetchPause \/ HoldWait
             \/ \E l \in Links : FillAdd(l) \/ BeginFetch(l) \/ BeginType(l)
             \/ StopMirror \/ UNCHANGED vars
    <3>1. slot' = slot /\ stored' = stored /\ lk' = lk
      BY <2>2 DEF AddIfNotExists, AddFull, WaitReturns, StartFill, FillEnds, MainWait,
         FetchWait, FetchPause, HoldWait, FillAdd, BeginFetch, BeginType, StopMirror, Calls, vars
    <3> QED BY <3>1 DEF Same, Alike
  <2> QED BY <2>1, <2>2
<1>2. \A l \in Links : Transfer(l)' = Transfer(l)
  BY <1>1, TransferKept DEF Same, Alike
<1> QED BY <1>1, <1>2, Unseen

(* A transfer goes on, unseen, or its answer arrives. *)
LEMMA AdvancePromise ==
  ASSUME IInv, EntryInv, EntryInv', NEW i \in Slots, Advances(i), lk' = lk
  PROVE  [D!Next]_(D!vars)
<1>0. slot[i].link \in Links /\ InUse(slot[i]) /\ InUse(slot'[i])
  BY EntryLinks, BusyInUse DEF Advances
<1> PICK m \in Links : m = slot[i].link
  BY <1>0
<1>1. /\ InUse(slot[i]) /\ InUse(slot'[i]) /\ slot'[i].link = m /\ slot[i].link = m
  BY <1>0 DEF Advances
<1>2. \A l \in Links \ {m} : Transfer(l)' = Transfer(l)
  BY <1>1, RestTransfers DEF Advances
<1>3. Transfer(m) = Says(slot[i])
  BY <1>1, TransferSays DEF EntryInv
<1>4. Transfer(m)' = Says(slot'[i])
  BY <1>1, TransferSaysNext DEF EntryInv
<1>5. Transfer(m) = "active"
  BY <1>3 DEF Advances, Says
<1>6. CASE slot'[i].st \in Busy
  <2>1. Transfer(m)' = Transfer(m)
    BY <1>4, <1>5, <1>6 DEF Says
  <2> QED BY <1>2, <2>1, Unseen
<1>7. CASE slot'[i].st \notin Busy
  <2>1. Transfer(m)' \in D!Answers
    BY <1>4, <1>7 DEF Says, D!Answers
  <2>2. D!Becomes(m, Transfer(m)', FateOf(m))
    <3>1. \A l \in Links : FateOf(l)' = FateOf(l)
      BY DEF FateOf
    <3> QED BY <1>1, <1>2, <3>1, BecomesOf
  <2>3. D!Arrive(m)
    <3> QED BY <1>1, <1>5, <2>1, <2>2 DEF D!Arrive
  <2> QED BY <1>1, <2>3 DEF D!Next
<1> QED BY <1>6, <1>7

(* The events of back_wait, a cancelled file, the end of a thread. *)
LEMMA EventsPromise ==
  ASSUME IInv, EntryInv, EntryInv',
         \/ \E i \in Slots : Events(i) \/ CancelFile(i)
         \/ \E t \in ftp : FtpThreadEnds(t)
  PROVE  [D!Next]_(D!vars)
<1>1. ASSUME NEW i \in Slots, Events(i) \/ CancelFile(i)
      PROVE  [D!Next]_(D!vars)
  <2>1. Advances(i) /\ lk' = lk
    BY <1>1, Advancing DEF Goes
  <2> QED BY <2>1, AdvancePromise
<1>2. ASSUME NEW t \in ftp, FtpThreadEnds(t)
      PROVE  [D!Next]_(D!vars)
  <2>1. CASE eng.mode = "end"
    <3>1. slot' = slot /\ stored' = stored /\ lk' = lk
      BY <1>2, <2>1 DEF FtpThreadEnds
    <3>2. \A l \in Links : Transfer(l)' = Transfer(l)
      BY <3>1, TransferKept
    <3> QED BY <3>1, <3>2, Unseen
  <2>2. CASE eng.mode # "end"
    <3>1. t.b \in Slots /\ Advances(t.b)
      BY <1>2, <2>2, ThreadAdvances DEF Goes
    <3>2. lk' = lk
      BY <1>2 DEF FtpThreadEnds
    <3> QED BY <3>1, <3>2, AdvancePromise
  <2> QED BY <2>1, <2>2
<1> QED BY <1>1, <1>2

(* An answer written in the background is given back. *)
LEMMA WritePromise ==
  ASSUME IInv, EntryInv, EntryInv', SweepWritten
  PROVE  D!Next
<1> PICK i, m : i = call.i /\ m = slot[i].link
  OBVIOUS
<1>1. /\ i \in Slots /\ Releases(i) /\ slot[i].st = "ready" /\ slot[i].code = "ok"
      /\ Finalizable(slot[i]) /\ m \in Links /\ call.at = "sweep"
      /\ lk' = IF OnHeap(slot[i]) /\ lk[m] = "recorded" THEN [lk EXCEPT ![m] = "done"] ELSE lk
  BY SweepReleases
<1>2. InUse(slot[i]) /\ lk \in [Links -> LinkStates]
  BY <1>1 DEF InUse, IInv, TypeOK
<1>3. Transfer(m) = "good"
  <2>1. Transfer(m) = Says(slot[i])
    BY <1>1, <1>2, TransferSays DEF EntryInv
  <2> QED BY <1>1, <2>1 DEF Says, Busy, OnWire
<1>4. Transfer(m)' = "none"
  <2>1. NoEntry(m)'
    BY <1>1, LastEntry DEF EntryInv
  <2>2. /\ \A q \in Slots : InUse(slot'[q]) => slot'[q].link # m
        /\ \A s \in stored' : s.link # m
    BY <2>1 DEF NoEntry
  <2> QED BY <2>2, TransferSaysNext DEF EntryInv
<1>5. \A l \in Links \ {m} : Transfer(l)' = Transfer(l)
  BY <1>1, RestTransfers DEF Releases
<1>6. lk[m] # "new"
  <2>1. lk[m] = "new" => slot[i].early
    BY <1>1, <1>2 DEF EntryInv, EarlyNew
  <2>2. lk[m] = "new" => ~slot[i].early
    BY <1>1 DEF Finalizable, OnHeap
  <2> QED BY <2>1, <2>2
<1>7. lk[m] = "recorded" => OnHeap(slot[i])
  <2>1. lk[m] = "recorded" => slot[i].kind = "final"
    BY <1>1, <1>2 DEF EntryInv, FinalNames, Named
  <2> QED BY <2>1 DEF OnHeap
<1>8. lk' = IF lk[m] = "recorded" THEN [lk EXCEPT ![m] = "done"] ELSE lk
  BY <1>1, <1>7
<1>9. FateOf(m)' = IF FateOf(m) = "open" THEN "written" ELSE FateOf(m)
  <2>1. CASE lk[m] = "recorded"
    <3>1. lk'[m] = "done"
      BY <1>1, <1>2, <1>8, <2>1
    <3> QED BY <2>1, <3>1 DEF FateOf
  <2>2. CASE lk[m] # "recorded"
    BY <1>8, <2>2 DEF FateOf
  <2> QED BY <2>1, <2>2
<1>10. \A l \in Links \ {m} : FateOf(l)' = FateOf(l)
  BY <1>1, <1>2, <1>8 DEF FateOf
<1>11. D!Becomes(m, "none", IF FateOf(m) = "open" THEN "written" ELSE FateOf(m))
  BY <1>1, <1>4, <1>5, <1>9, <1>10, BecomesOf
<1>12. FateOf(m) # "new"
  BY <1>6 DEF FateOf
<1>13. D!Write(m)
  BY <1>1, <1>3, <1>11, <1>12 DEF D!Write
<1> QED BY <1>1, <1>13 DEF D!Next

(* A finished slot leaves for the disk: its answer is kept. *)
LEMMA StorePromise ==
  ASSUME IInv, EntryInv, EntryInv', StoreReady
  PROVE  UNCHANGED D!vars
<1>1. CASE UNCHANGED <<slot, stored, ghost>>
  BY <1>1, QuietPromise
<1>2. CASE ~UNCHANGED <<slot, stored, ghost>>
  <2> PICK i, m : i = call.i /\ m = slot[i].link
    OBVIOUS
  <2>1. /\ i \in Slots /\ Rest(i) /\ slot[i].st = "ready" /\ m \in Links
        /\ ~InUse(slot'[i]) /\ \A q \in Slots \ {i} : slot'[q] = slot[q]
        /\ stored' = (stored \ InStore(m, slot[i].kind)) \cup {slot[i]} /\ lk' = lk
    BY <1>2, StoreMoves
  <2>2. InUse(slot[i])
    BY <2>1 DEF InUse
  <2>3. Transfer(m)' = Transfer(m)
    <3>1. Transfer(m) = Says(slot[i])
      BY <2>1, <2>2, TransferSays DEF EntryInv
    <3>2. slot[i] \in stored'
      BY <2>1
    <3>3. Transfer(m)' = Says(slot[i])
      BY <3>2, TransferSaysNext DEF EntryInv
    <3> QED BY <3>1, <3>3
  <2>4. ASSUME NEW l \in Links \ {m}
        PROVE  Transfer(l)' = Transfer(l)
    <3>1. Entry(l)' = Entry(l)
      BY <2>1, <2>2, <2>4 DEF Entry, InSlots, InStore, InUse
    <3> QED BY <3>1 DEF Transfer
  <2> QED BY <2>1, <2>3, <2>4, Unseen
<1> QED BY <1>1, <1>2

(* A link that had no entry gets one. *)
LEMMA EnteringPromise ==
  ASSUME IInv, EntryInv, EntryInv',
         AddStopped \/ AddKnown \/ AddFtp \/ AddLive \/ AddConnect \/ AddRefused
  PROVE  D!Next
<1>1. PICK q \in Slots, s \in SlotType : Enters(q, s)
  BY Entering
<1>2. /\ call.at = "fill" /\ call.link \in Links /\ lk' = lk
  BY Entering
<1> PICK m \in Links : m = call.link
  BY <1>2
<1>3. Adding
  BY <1>2 DEF Adding, IInv, Control
<1>4. NoEntry(m) /\ lk[m] \in {"new", "recorded"}
  BY <1>3 DEF EntryInv, AddsNew
<1>5. Transfer(m) = "none"
  BY <1>4, TransferSays DEF EntryInv, NoEntry
<1>6. Transfer(m)' = Says(s)
  BY <1>1, TransferSaysNext DEF Enters, EntryInv
<1>7. \A l \in Links \ {m} : Transfer(l)' = Transfer(l)
  BY <1>1, RestTransfers DEF Enters
<1>8. Says(s) \in D!Transfers \ {"none"}
  BY DEF Says, D!Transfers, D!Answers
<1>9. \A l \in Links : FateOf(l)' = FateOf(l)
  BY <1>2 DEF FateOf
<1>10. FateOf(m) \in D!Wanted
  BY <1>4 DEF FateOf, D!Wanted
<1>11. D!Becomes(m, Says(s), FateOf(m))
  BY <1>2, <1>6, <1>7, <1>9, BecomesOf
<1>12. D!Start(m)
  BY <1>2, <1>5, <1>8, <1>10, <1>11 DEF D!Start
<1> QED BY <1>2, <1>12 DEF D!Next

(* A stored answer is read back into a slot: it is kept. *)
LEMMA ThawPromise ==
  ASSUME IInv, EntryInv, EntryInv', FetchThaw
  PROVE  UNCHANGED D!vars
<1>1. PICK s \in InStore(eng.link, "final"), q \in Slots : Wake(s, q)
  BY DEF FetchThaw
<1>2. /\ q \in Slots /\ ~InUse(slot[q]) /\ s \in stored /\ s.st = "ready" /\ lk' = lk
      /\ stored' = stored \ {s}
  BY <1>1, SearchFinds DEF Wake, InStore, FetchThaw, IInv, StoredSound
<1>3. slot' = [slot EXCEPT ![q] = [s EXCEPT !.locked = TRUE]]
  BY <1>1 DEF Wake, Put
<1>4. s \in SlotType /\ slot \in [Slots -> SlotType]
  BY <1>2 DEF IInv, TypeOK
<1>5. /\ slot'[q].st = s.st /\ slot'[q].link = s.link /\ slot'[q].code = s.code
      /\ \A r \in Slots \ {q} : slot'[r] = slot[r]
  BY <1>2, <1>3, <1>4 DEF SlotType
<1> PICK m : m = s.link
  OBVIOUS
<1>6. Transfer(m)' = Transfer(m)
  <2>1. Transfer(m) = Says(s)
    BY <1>2, TransferSays DEF EntryInv
  <2>2. InUse(slot'[q])
    BY <1>2, <1>5 DEF InUse
  <2>3. Transfer(m)' = Says(slot'[q])
    BY <1>2, <1>5, <2>2, TransferSaysNext DEF EntryInv
  <2> QED BY <1>5, <2>1, <2>3 DEF Says
<1>7. ASSUME NEW l \in Links \ {m}
      PROVE  Transfer(l)' = Transfer(l)
  <2>1. InSlots(l)' = InSlots(l)
    BY <1>2, <1>5, <1>7 DEF InSlots, InUse
  <2>2. q \notin InSlots(l)
    BY <1>2 DEF InSlots, InUse
  <2>3. Entry(l)' = Entry(l)
    BY <1>2, <1>5, <1>7, <2>1, <2>2 DEF Entry, InSlots
  <2> QED BY <2>3 DEF Transfer
<1> QED BY <1>2, <1>6, <1>7, Unseen

(* A step after which only link m may be settled otherwise, its transfer   *)
(* released or left alone.                                                 *)
LEMMA ReleasedPromise ==
  ASSUME IInv, EntryInv, EntryInv', NEW b \in Slots, Releases(b), NEW m \in Links,
         slot[b].link = m, \A l \in Links \ {m} : lk'[l] = lk[l],
         NEW f, FateOf(m)' = f
  PROVE  Transfer(m) = Says(slot[b]) /\ D!Becomes(m, "none", f)
<1>1. InUse(slot[b])
  BY DEF Releases
<1>2. Transfer(m) = Says(slot[b])
  BY <1>1, TransferSays DEF EntryInv
<1>3. Transfer(m)' = "none"
  <2>1. NoEntry(m)'
    BY LastEntry DEF EntryInv
  <2>2. /\ \A q \in Slots : InUse(slot'[q]) => slot'[q].link # m
        /\ \A s \in stored' : s.link # m
    BY <2>1 DEF NoEntry
  <2> QED BY <2>2, TransferSaysNext DEF EntryInv
<1>4. \A l \in Links \ {m} : Transfer(l)' = Transfer(l)
  BY RestTransfers DEF Releases
<1>5. \A l \in Links \ {m} : FateOf(l)' = FateOf(l)
  BY DEF FateOf
<1> QED BY <1>2, <1>3, <1>4, <1>5, BecomesOf

(* The link that is awaited is recorded while it has an entry. *)
LEMMA AwaitedRecorded ==
  ASSUME EntryInv, NEW b \in Slots, InUse(slot[b]), slot[b].link = eng.link,
         eng.link \in Links, eng.mode \in {"begin", "fetch"}
  PROVE  lk[eng.link] = "recorded"
BY DEF EntryInv, Awaited, DoneGone, NoEntry

(* The engine takes the answer. *)
LEMMA DeliverPromise ==
  ASSUME IInv, EntryInv, EntryInv', NEW b \in Slots,
         Deliver(b) \/ DeliverRetry(b) \/ DeliverError(b)
  PROVE  D!Next
<1> PICK m : m = eng.link
  OBVIOUS
<1>1. /\ Releases(b) /\ slot[b].st = "ready" /\ slot[b].link = m /\ m \in Links
      /\ eng.mode \in {"begin", "fetch"}
      /\ \/ /\ slot[b].code \in Positive
            /\ lk' = [lk EXCEPT ![m] = IF slot[b].code = "ok" THEN "taken" ELSE "answered"]
         \/ slot[b].code \in {"failed", "error"} /\ lk' = lk
         \/ /\ slot[b].code \in {"failed", "invalid"}
            /\ lk' = [lk EXCEPT ![m] = "failed"]
  BY Delivering
<1>2. lk[m] = "recorded" /\ lk \in [Links -> LinkStates]
  BY <1>1, AwaitedRecorded DEF Releases, IInv, TypeOK
<1>3. \A l \in Links \ {m} : lk'[l] = lk[l]
  BY <1>1, <1>2
<1>4. \A f : FateOf(m)' = f => Transfer(m) = Says(slot[b]) /\ D!Becomes(m, "none", f)
  BY <1>1, <1>3, ReleasedPromise
<1>5. FateOf(m) = "open"
  BY <1>2 DEF FateOf
<1>6. CASE /\ slot[b].code \in Positive
           /\ lk' = [lk EXCEPT ![m] = IF slot[b].code = "ok" THEN "taken" ELSE "answered"]
  <2>1. FateOf(m)' = "taken"
    <3>1. lk'[m] \in {"taken", "answered"}
      BY <1>1, <1>2, <1>6
    <3> QED BY <3>1 DEF FateOf
  <2>2. Transfer(m) = Says(slot[b]) /\ D!Becomes(m, "none", "taken")
    BY <1>4, <2>1
  <2>3. Transfer(m) \in {"good", "error"}
    BY <1>1, <2>2, <1>6 DEF Says, Positive, Busy, OnWire
  <2>4. D!Take(m)
    BY <1>1, <1>5, <2>2, <2>3 DEF D!Take
  <2> QED BY <1>1, <2>4 DEF D!Next
<1>7. CASE slot[b].code \in {"failed", "error"} /\ lk' = lk
  <2>1. FateOf(m)' = "open"
    BY <1>5, <1>7 DEF FateOf
  <2>2. Transfer(m) = Says(slot[b]) /\ D!Becomes(m, "none", "open")
    BY <1>4, <2>1
  <2>3. Transfer(m) \in {"error", "bad"}
    BY <1>1, <2>2, <1>7 DEF Says, Busy, OnWire
  <2>4. D!Take(m)
    BY <1>1, <1>5, <2>2, <2>3 DEF D!Take
  <2> QED BY <1>1, <2>4 DEF D!Next
<1>8. CASE slot[b].code \in {"failed", "invalid"} /\ lk' = [lk EXCEPT ![m] = "failed"]
  <2>1. FateOf(m)' = "dropped"
    <3>1. lk'[m] = "failed"
      BY <1>1, <1>2, <1>8
    <3> QED BY <3>1 DEF FateOf
  <2>2. Transfer(m) = Says(slot[b]) /\ D!Becomes(m, "none", "dropped")
    BY <1>4, <2>1
  <2>3. Transfer(m) = "bad"
    BY <1>1, <2>2, <1>8 DEF Says, Busy, OnWire
  <2>4. D!Take(m)
    BY <1>1, <1>5, <2>2, <2>3 DEF D!Take
  <2> QED BY <1>1, <2>4 DEF D!Next
<1> QED BY <1>1, <1>6, <1>7, <1>8

(* A link without its name is given up, or only its transfer is. *)
LEMMA WithdrawPromise ==
  ASSUME IInv, EntryInv, EntryInv', TypeRestart \/ HoldMoved \/ HoldCancelled
  PROVE  D!Next
<1> PICK m : m = eng.link
  OBVIOUS
<1>1. \E b \in Slots :
        /\ Releases(b) /\ slot[b].link = m /\ m \in Links /\ lk[m] = "new"
        /\ lk' = [lk EXCEPT ![m] = "refused"] \/ lk' = lk
  <2>1. CASE TypeRestart
    BY <2>1, Restarting
  <2>2. CASE HoldMoved \/ HoldCancelled
    BY <2>2, LetsGo
  <2> QED BY <2>1, <2>2
<1>2. PICK b \in Slots :
        /\ Releases(b) /\ slot[b].link = m /\ m \in Links /\ lk[m] = "new"
        /\ lk' = [lk EXCEPT ![m] = "refused"] \/ lk' = lk
  BY <1>1
<1>3. lk \in [Links -> LinkStates]
  BY DEF IInv, TypeOK
<1>4. \A l \in Links \ {m} : lk'[l] = lk[l]
  BY <1>2, <1>3
<1>5. \A f : FateOf(m)' = f => D!Becomes(m, "none", f)
  BY <1>2, <1>4, ReleasedPromise
<1>6. FateOf(m) = "new"
  BY <1>2 DEF FateOf
<1>7. lk'[m] \in {"new", "refused"}
  BY <1>2, <1>3
<1>8. FateOf(m)' \in {"new", "dropped"}
  BY <1>7 DEF FateOf
<1>9. D!Withdraw(m)
  <2>1. PICK f \in {"new", "dropped"} : FateOf(m)' = f
    BY <1>8
  <2>2. D!Becomes(m, "none", f)
    BY <1>5, <2>1
  <2> QED BY <1>2, <1>6, <2>2 DEF D!Withdraw
<1> QED BY <1>2, <1>9 DEF D!Next

(* A link is given up, or gets its name, whatever becomes of its transfer. *)
LEMMA NamePromise ==
  ASSUME IInv, EntryInv, TypeHold \/ HoldNamed \/ HoldRefused \/ Record
  PROVE  [D!Next]_(D!vars)
<1> PICK m : m = eng.link
  OBVIOUS
<1>1. \A l \in Links : Transfer(l)' = Transfer(l)
  <2>1. /\ stored' = stored
        /\ \A q \in Slots : /\ slot'[q].link = slot[q].link /\ slot'[q].st = slot[q].st
                            /\ slot'[q].code = slot[q].code
    <3>1. CASE TypeHold
      <4>1. PICK p \in Slots :
              /\ \A r \in Slots \ {p} : slot'[r] = slot[r]
              /\ slot'[p] = [slot[p] EXCEPT !.early = TRUE, !.locked = TRUE]
              /\ slot[p] \in SlotType
        BY <3>1, TakesHold
      <4>2. slot'[p].link = slot[p].link /\ slot'[p].st = slot[p].st /\ slot'[p].code = slot[p].code
        BY <4>1 DEF SlotType
      <4>3. stored' = stored
        BY <3>1, TakesHold
      <4> QED BY <4>1, <4>2, <4>3
    <3>2. CASE HoldNamed
      BY <3>2, TakesName DEF SlotType
    <3>3. CASE HoldRefused
      BY <3>3, LeavesIt DEF SlotType
    <3>4. CASE Record
      BY <3>4 DEF Record
    <3> QED BY <3>1, <3>2, <3>3, <3>4
  <2> QED BY <2>1, TransferKept
<1>2. lk \in [Links -> LinkStates]
  BY DEF IInv, TypeOK
<1>3. CASE TypeHold \/ HoldNamed
  BY <1>1, <1>3, Unseen, TakesHold, TakesName
<1>4. CASE HoldRefused
  <2>1. m \in Links /\ lk' = [lk EXCEPT ![m] = "refused"] /\ lk[m] = "new"
    BY <1>4, LeavesIt
  <2>2. \A l \in Links : FateOf(l)' = IF l \in {m} /\ FateOf(l) \in D!Wanted
                                     THEN "dropped" ELSE FateOf(l)
    <3>1. FateOf(m) = "new"
      BY <2>1 DEF FateOf
    <3>2. lk'[m] = "refused"
      BY <1>2, <2>1
    <3>3. FateOf(m)' = "dropped"
      BY <3>2 DEF FateOf
    <3>4. \A l \in Links \ {m} : FateOf(l)' = FateOf(l)
      BY <1>2, <2>1 DEF FateOf
    <3> QED BY <3>1, <3>3, <3>4 DEF D!Wanted
  <2>3. D!Drop({m}, {}, {})
    BY <1>1, <2>2 DEF D!Drop
  <2>4. {m} \in SUBSET Links /\ {} \in SUBSET Links /\ {} \in SUBSET {m}
    BY <2>1
  <2> QED BY <2>3, <2>4 DEF D!Next
<1>5. CASE Record
  <2>1. lk' = [lk EXCEPT ![m] = "recorded"] /\ lk[m] = "new" /\ m \in Links
    BY <1>5 DEF Record, Settle, IInv, Control
  <2>2. FateOf(m) = "new"
    BY <2>1 DEF FateOf
  <2>3. FateOf(m)' = "open"
    <3>1. lk'[m] = "recorded"
      BY <1>2, <2>1
    <3> QED BY <3>1 DEF FateOf
  <2>4. \A l \in Links \ {m} : FateOf(l)' = FateOf(l)
    BY <1>2, <2>1 DEF FateOf
  <2>5. D!Becomes(m, Transfer(m), "open")
    BY <1>1, <2>1, <2>3, <2>4, BecomesOf
  <2>6. D!Name(m)
    BY <2>1, <2>2, <2>5 DEF D!Name
  <2> QED BY <2>1, <2>6 DEF D!Next
<1> QED BY <1>3, <1>4, <1>5

(* The links of a banned host are given up, and their transfers fail. *)
LEMMA BanPromise ==
  ASSUME IInv, EntryInv, EntryInv', NEW b \in Slots, DeliverBan(b)
  PROVE  D!Next
<1> PICK m : m = eng.link
  OBVIOUS
<1> DEFINE h    == HostOf[m]
           cut  == {slot[q].link : q \in {r \in Slots \ {b} : OfHost(r, h)}}
           gone == {m} \cup {l \in Links : HostOf[l] = h /\ lk[l] = "recorded"}
<1>1. /\ slot[b].st = "ready" /\ slot[b].link = m /\ slot[b].code = "failed"
      /\ InUse(slot[b]) /\ ~InUse(slot'[b]) /\ m \in Links
      /\ eng.mode \in {"begin", "fetch"} /\ stored' = stored
      /\ \A q \in Slots \ {b} :
           slot'[q] = IF OfHost(q, h) THEN Failed(slot[q], "failed") ELSE slot[q]
      /\ lk' = [l \in Links |->
                  IF l = m THEN "failed"
                  ELSE IF HostOf[l] = h /\ lk[l] = "recorded" THEN "banned" ELSE lk[l]]
  BY Banning
<1>2. lk[m] = "recorded" /\ slot \in [Slots -> SlotType]
  BY <1>1, AwaitedRecorded DEF IInv, TypeOK
<1>3. \A q \in Slots \ {b} : OfHost(q, h) =>
        /\ InUse(slot[q]) /\ slot[q].link \in Links /\ slot[q].link # m
        /\ slot'[q].st = "ready" /\ slot'[q].link = slot[q].link /\ slot'[q].code = "failed"
  <2>1. "failed" \in Codes
    BY DEF Codes
  <2>2. \A q \in Slots : OfHost(q, h) => InUse(slot[q])
    BY DEF OfHost, InUse
  <2>3. \A q \in Slots : InUse(slot[q]) => slot[q].link \in Links
    BY EntryLinks
  <2>4. \A q \in Slots \ {b} : InUse(slot[q]) => slot[q].link # m
    BY <1>1 DEF EntryInv, Distinct
  <2>5. \A q \in Slots : slot[q] \in SlotType
    BY <1>2
  <2> HIDE DEF h
  <2> QED BY <1>1, <2>1, <2>2, <2>3, <2>4, <2>5, FailedAlike
<1>4. cut \in SUBSET Links /\ m \notin cut
  BY <1>3
<1>5. Transfer(m) = "bad" /\ FateOf(m) = "open"
  <2>1. Transfer(m) = Says(slot[b])
    BY <1>1, TransferSays DEF EntryInv
  <2> QED BY <1>1, <1>2, <2>1 DEF Says, Busy, OnWire, FateOf
<1>6. Transfer(m)' = "none"
  <2>1. \A q \in Slots : InUse(slot'[q]) => slot'[q].link # m
    <3>1. \A q \in Slots \ {b} : InUse(slot[q]) => slot[q].link # m
      BY <1>1 DEF EntryInv, Distinct
    <3> QED BY <1>1, <1>3, <3>1
  <2>2. \A s \in stored' : s.link # m
    BY <1>1 DEF EntryInv, Distinct
  <2> QED BY <2>1, <2>2, TransferSaysNext DEF EntryInv
<1>7. ASSUME NEW l \in cut
      PROVE  Transfer(l) # "none" /\ Transfer(l)' = "bad"
  <2>1. PICK q \in Slots \ {b} : OfHost(q, h) /\ slot[q].link = l
    BY <1>7
  <2>2. Transfer(l) = Says(slot[q])
    BY <1>3, <2>1, TransferSays DEF EntryInv
  <2>3. InUse(slot'[q]) /\ slot'[q].link = l /\ slot'[q].st = "ready" /\ slot'[q].code = "failed"
    BY <1>3, <2>1 DEF InUse
  <2>4. Transfer(l)' = Says(slot'[q])
    BY <2>3, TransferSaysNext DEF EntryInv
  <2> QED BY <2>2, <2>3, <2>4 DEF Says, Busy, OnWire
<1>8. ASSUME NEW l \in Links \ (cut \cup {m})
      PROVE  Transfer(l)' = Transfer(l)
  <2>1. \A q \in Slots \ {b} : slot[q].link = l => ~OfHost(q, h)
    BY <1>8
  <2>2. \A q \in Slots \ {b} : slot'[q].link = l => slot[q].link = l /\ ~OfHost(q, h)
    BY <1>1, <1>3, <2>1
  <2>3. \A q \in Slots :
          \/ ~(InUse(slot[q]) /\ slot[q].link = l) /\ ~(InUse(slot'[q]) /\ slot'[q].link = l)
          \/ /\ slot'[q].link = slot[q].link /\ slot'[q].st = slot[q].st
             /\ slot'[q].code = slot[q].code
    <3> HIDE DEF cut, h
    <3> QED BY <1>1, <1>8, <2>1, <2>2
  <2> QED BY <1>1, <2>3, TransferKept
<1>9. \A l \in Links : FateOf(l)' = IF l \in gone /\ FateOf(l) \in D!Wanted
                                   THEN "dropped" ELSE FateOf(l)
  <2>1. FateOf(m)' = "dropped"
    <3>1. lk'[m] = "failed"
      BY <1>1
    <3> QED BY <3>1 DEF FateOf
  <2>2. ASSUME NEW l \in Links \ {m}, HostOf[l] = h /\ lk[l] = "recorded"
        PROVE  FateOf(l)' = "dropped" /\ FateOf(l) = "open"
    <3>1. lk'[l] = "banned"
      BY <1>1, <2>2
    <3> QED BY <2>2, <3>1 DEF FateOf
  <2>3. ASSUME NEW l \in Links \ {m}, ~(HostOf[l] = h /\ lk[l] = "recorded")
        PROVE  FateOf(l)' = FateOf(l)
    BY <1>1, <2>3 DEF FateOf
  <2>4. \A l \in Links : l \in gone <=> l = m \/ (HostOf[l] = h /\ lk[l] = "recorded")
    BY <1>1
  <2> HIDE DEF gone, h
  <2> QED BY <1>5, <2>1, <2>2, <2>3, <2>4 DEF D!Wanted
<1>10. D!Drop(gone, cut, {m})
  <2>1. m \in Links
    BY <1>1
  <2>2. \A l \in Links : Transfer(l)' = IF l = m THEN "none"
                                       ELSE IF l \in cut /\ Transfer(l) # "none" THEN "bad"
                                       ELSE Transfer(l)
    <3> HIDE DEF cut
    <3> QED BY <1>6, <1>7, <1>8
  <2> HIDE DEF cut, gone
  <2> QED BY <1>5, <1>9, <2>1, <2>2 DEF D!Drop
<1>11. gone \in SUBSET Links /\ {m} \in SUBSET gone
  BY <1>1
<1> HIDE DEF gone, cut
<1> QED BY <1>4, <1>10, <1>11 DEF D!Next

(* A link without an entry is skipped. *)
LEMMA GonePromise ==
  ASSUME IInv, FetchGone
  PROVE  [D!Next]_(D!vars)
<1> PICK m : m = eng.link
  OBVIOUS
<1>1. /\ m \in Links /\ slot' = slot /\ stored' = stored
      /\ lk' = IF lk[m] = "recorded" THEN [lk EXCEPT ![m] = "skipped"] ELSE lk
  BY DEF FetchGone, Fetching, IInv, Control
<1>2. \A l \in Links : Transfer(l)' = Transfer(l)
  BY <1>1, TransferKept
<1>3. CASE lk[m] # "recorded"
  BY <1>1, <1>2, <1>3, Unseen
<1>4. CASE lk[m] = "recorded"
  <2>1. \A l \in Links : FateOf(l)' = IF l \in {m} /\ FateOf(l) \in D!Wanted
                                     THEN "dropped" ELSE FateOf(l)
    <3>1. lk'[m] = "skipped" /\ \A l \in Links \ {m} : lk'[l] = lk[l]
      BY <1>1, <1>4 DEF IInv, TypeOK
    <3>2. FateOf(m)' = "dropped"
      BY <3>1 DEF FateOf
    <3>3. FateOf(m) = "open"
      BY <1>4 DEF FateOf
    <3>4. \A l \in Links \ {m} : FateOf(l)' = FateOf(l)
      BY <3>1 DEF FateOf
    <3> QED BY <1>1, <3>2, <3>3, <3>4 DEF D!Wanted
  <2>2. D!Drop({m}, {}, {})
    BY <1>2, <2>1 DEF D!Drop
  <2>3. {m} \in SUBSET Links /\ {} \in SUBSET Links /\ {} \in SUBSET {m}
    BY <1>1
  <2> QED BY <2>2, <2>3 DEF D!Next
<1> QED BY <1>3, <1>4

(* When the mirror is over every transfer is released, and none of them    *)
(* was wanted.                                                             *)
LEMMA FinishPromise ==
  ASSUME IInv, EntryInv, Finish
  PROVE  D!Next
<1>1. /\ slot' = [q \in Slots |-> FreeSlot] /\ stored' = {} /\ lk' = lk
      /\ eng.mode = "main" /\ \A l \in Links : lk[l] # "recorded"
  BY DEF Finish
<1>2. \A l \in Links : Transfer(l)' = "none"
  <2>1. \A l : Entry(l)' = {}
    BY <1>1, FreeSlotType DEF Entry, InSlots
  <2> QED BY <2>1 DEF Transfer
<1>3. ASSUME NEW l \in Links, FateOf(l) \in D!Wanted
      PROVE  Transfer(l) = "none"
  <2>1. lk[l] = "new"
    BY <1>1, <1>3 DEF FateOf, D!Wanted
  <2>2. NoEntry(l)
    BY <1>1, <2>1 DEF EntryInv, Unasked, NewModes, TypeModes
  <2> QED BY <2>2, TransferSays DEF EntryInv, NoEntry
<1>4. \A l \in Links : FateOf(l)' = FateOf(l)
  BY <1>1 DEF FateOf
<1>5. D!Finish
  BY <1>2, <1>3, <1>4 DEF D!Finish
<1> QED BY <1>5 DEF D!Next

(* Every step of the pool is a step of its promise, unless a stored answer *)
(* cannot be read back.                                                    *)
LEMMA StepPromise ==
  ASSUME IInv, EntryInv, [Next]_vars, ~ThawFails
  PROVE  [D!Next]_(D!vars)
<1>0. EntryInv'
  BY EntryInvariance
<1>1. CASE CleanStep
  <2>1. CASE SweepWritten
    BY <1>0, <2>1, WritePromise
  <2>2. CASE StoreReady
    BY <1>0, <2>2, StorePromise
  <2>3. CASE SweepAlive \/ SweepOther \/ ParkReady \/ TrimAlive
    BY <2>3, QuietPromise
  <2> QED BY <1>1, <2>1, <2>2, <2>3 DEF CleanStep
<1>2. CASE AddStep
  <2>1. CASE AddIfNotExists \/ AddFull
    BY <2>1, QuietPromise
  <2>2. CASE AddStopped \/ AddKnown \/ AddFtp \/ AddLive \/ AddConnect \/ AddRefused
    BY <1>0, <2>2, EnteringPromise
  <2> QED BY <1>2, <2>1, <2>2 DEF AddStep
<1>3. CASE \/ WaitReturns \/ FillEnds \/ StartFill \/ MainWait \/ FetchPause
           \/ \E l \in Links : FillAdd(l) \/ BeginFetch(l) \/ BeginType(l)
           \/ StopMirror \/ UNCHANGED vars
  BY <1>3, QuietPromise
<1>4. CASE \/ \E i \in Slots : Events(i) \/ CancelFile(i)
           \/ \E t \in ftp : FtpThreadEnds(t)
  BY <1>0, <1>4, EventsPromise
<1>5. CASE FetchStep
  <2>1. CASE FetchWait
    BY <2>1, QuietPromise
  <2>2. CASE FetchThaw
    BY <1>0, <2>2, ThawPromise
  <2>3. CASE FetchGone
    BY <2>3, GonePromise
  <2>4. CASE \E b \in Slots : Deliver(b) \/ DeliverRetry(b) \/ DeliverError(b) \/ DeliverBan(b)
    BY <1>0, <2>4, DeliverPromise, BanPromise
  <2> QED BY <1>5, <2>1, <2>2, <2>3, <2>4 DEF FetchStep
<1>6. CASE TypeStep
  <2>1. CASE TypeRestart \/ HoldMoved \/ HoldCancelled
    BY <1>0, <2>1, WithdrawPromise
  <2>2. CASE TypeHold \/ HoldNamed \/ HoldRefused \/ Record
    BY <2>2, NamePromise
  <2>3. CASE HoldWait
    BY <2>3, QuietPromise
  <2> QED BY <1>6, <2>1, <2>2, <2>3 DEF TypeStep
<1>7. CASE Finish
  BY <1>7, FinishPromise
<1> QED BY <1>1, <1>2, <1>3, <1>4, <1>5, <1>6, <1>7 DEF Next, EngineStep, Terminated

(* At first no link has a transfer. *)
LEMMA PromiseInitially == Init => D!Init
<1> SUFFICES ASSUME Init
             PROVE  D!Init
  OBVIOUS
<1>1. \A l : Entry(l) = {}
  BY FreeSlotType DEF Init, Entry, InSlots
<1>2. \A l \in Links : Transfer(l) = "none" /\ FateOf(l) \in D!Wanted
  BY <1>1 DEF Transfer, FateOf, Init, D!Wanted
<1> QED BY <1>2 DEF D!Init

(* Whatever happens to the temporary files, the pool only breaks its       *)
(* promise where a stored answer cannot be read back into a slot.          *)
THEOREM OnlyThawBreaks == Spec => D!Init /\ [][D!Next \/ ThawFails]_(D!vars)
<1>1. IInv /\ EntryInv /\ [Next]_vars => [D!Next \/ ThawFails]_(D!vars)
  BY StepPromise
<1> QED BY <1>1, PromiseInitially, EntriesInductive, PTL DEF Spec

(* The pool has more slots than transfers may run at a time (htscore.c:847 *)
(* asks for 32 times as many, and 1024), and its temporary files can be    *)
(* read and written.                                                       *)
Roomy == ~DiskMayFail /\ BackMax >= MaxSoc + 2

(* The slots in use for other links. *)
Crowd(l) == {q \in Slots : InUse(slot[q]) /\ slot[q].link # l}

(* The fourth loop of back_clean leaves no finished slot that is not locked*)
(* behind it.                                                              *)
Cleaned ==
  \A q \in Slots :
    /\ slot[q].st = "ready"
    /\ (call.at = "store" /\ q < call.i) \/ call.at \in {"exist", "fill"}
    => slot[q].locked

(* Once the slots are cleaned, few are in use.                             *)
Sparse ==
  call.at \in {"idle", "net"} =>
    Cardinality(Crowd(eng.link)) <= IF eng.mode \in NewModes THEN MaxSoc ELSE MaxSoc + 1

(* Link l has an entry that can be read. *)
HasEntry(l) == InSlots(l) # {} \/ \E s \in stored : s.link = l

(* The link the engine waits for has its entry until it is settled. *)
KeepsEntry ==
  eng.mode \in {"begin", "fetch"} /\ lk[eng.link] = "recorded" /\ ~OwnAdd =>
    HasEntry(eng.link)

(* What is never seen in a pool with room, and what its engine is about.   *)
Plain ==
  /\ call.at = "net" => call.op = "wait"
  /\ eng.mode = "main" => eng.link = NoLink
  /\ ghost = {} /\ SkippedMeansDone /\ eng.mode # "panic"

(* The inductive invariant of a pool with room. *)
RoomInv == Cleaned /\ Sparse /\ KeepsEntry /\ Plain

(* No finished slot is left that is not locked. *)
AllLocked == \A q \in Slots : slot[q].st = "ready" => slot[q].locked

-----------------------------------------------------------------------------
(* There is room for a slot *)

(* The slots in use for other links. *)
LEMMA CrowdSets ==
  /\ \A l : Crowd(l) \in SUBSET Slots /\ Crowd(l)' \in SUBSET Slots
  /\ \A l : Cardinality(Crowd(l)) \in Nat /\ Cardinality(Crowd(l)') \in Nat
<1>1. \A l : Crowd(l) \in SUBSET Slots /\ Crowd(l)' \in SUBSET Slots
  BY DEF Crowd
<1> QED BY <1>1, SlotSets

(* When every finished slot is locked the others are transfers.            *)
LEMMA LockedCrowd ==
  ASSUME IInv, EntryInv, Limits, AllLocked
  PROVE  /\ Crowd(eng.link) \subseteq Others(eng.link)
         /\ Cardinality(Crowd(eng.link)) <= MaxSoc
<1> PICK l : l = eng.link
  OBVIOUS
<1>1. ASSUME NEW q \in Crowd(l)
      PROVE  q \in Others(l)
  <2>1. q \in Slots /\ InUse(slot[q]) /\ slot[q].link # l /\ slot[q].st \in Statuses
    BY <1>1 DEF Crowd, IInv, TypeOK, SlotType
  <2>2. slot[q].st # "ready"
    BY <2>1 DEF AllLocked, EntryInv, LocksOwn
  <2>3. slot[q].st \in Busy
    BY <2>1, <2>2 DEF Statuses, InUse
  <2> QED BY <2>1, <2>3, TransferSets
<1>2. PICK c, o, r : /\ c = Cardinality(Crowd(l)) /\ o = Cardinality(Others(l))
                     /\ r = Cardinality(Receiving)
  OBVIOUS
<1>3. c \in Nat /\ o \in Nat /\ r \in Nat /\ c <= o /\ o <= r
  <2>1. Crowd(l) \subseteq Others(l) /\ Others(l) \subseteq Receiving
    BY <1>1, TransferSets
  <2>2. Crowd(l) \in SUBSET Slots /\ Others(l) \in SUBSET Slots /\ Receiving \in SUBSET Slots
    BY CrowdSets, TransferSets
  <2> QED BY <1>2, <2>1, <2>2, SlotSets
<1>4. o <= MaxSoc \/ r <= MaxSoc
  <2>1. CASE eng.mode \in {"begin", "fetch"}
    BY <1>2, <2>1 DEF Limits
  <2>2. CASE eng.mode \notin {"begin", "fetch"}
    BY <1>2, <2>2 DEF Limits
  <2> QED BY <2>1, <2>2
<1> QED BY <1>1, <1>2, <1>3, <1>4, PoolAssumption

(* Some slots have a least one. *)
LEMMA LowestOf ==
  ASSUME NEW S \in SUBSET Slots, S # {}
  PROVE  Lowest(S) # {}
<1> DEFINE T == {q + 1 : q \in S}
<1>1. Slots \subseteq Nat /\ BackMax \in Nat /\ \A q \in Slots : q + 1 \in 1 .. BackMax
  BY PoolAssumption DEF Slots
<1>2. T \subseteq 1 .. BackMax /\ T # {}
  BY <1>1
<1>3. PICK i \in T : \A j \in T : i <= j
  <2> HIDE DEF T
  <2> QED BY <1>1, <1>2, FirstOf
<1>4. PICK q \in S : i = q + 1
  BY <1>3
<1>5. \A r \in S : q <= r
  <2> SUFFICES ASSUME NEW r \in S
               PROVE  q <= r
    OBVIOUS
  <2>1. r + 1 \in T
    OBVIOUS
  <2>2. q + 1 <= r + 1
    BY <1>3, <1>4, <2>1
  <2>3. q \in Nat /\ r \in Nat
    BY <1>1
  <2> QED BY <2>2, <2>3
<1> QED BY <1>5 DEF Lowest

(* The pool has more slots than are in use: back_search finds one.         *)
LEMMA RoomLeft ==
  ASSUME IInv, EntryInv, BackMax >= MaxSoc + 2, NEW l,
         \/ Cardinality(Crowd(l)) <= MaxSoc
         \/ Cardinality(Crowd(l)) <= MaxSoc + 1 /\ InSlots(l) = {}
  PROVE  Search # {}
<1> SUFFICES ASSUME Search = {}
             PROVE  FALSE
  OBVIOUS
<1>1. Free = {} /\ Alive = {}
  <2>1. Free \in SUBSET Slots /\ Alive \in SUBSET Slots
    BY DEF Free, Alive
  <2> QED BY <2>1, LowestOf DEF Search
<1>2. \A q \in Slots : InUse(slot[q])
  BY <1>1 DEF Free, Alive, InUse
<1>3. PICK p \in Slots : Slots = Crowd(l) \/ (Slots = Crowd(l) \cup {p} /\ InSlots(l) # {})
  <2>1. CASE InSlots(l) = {}
    <3>1. Slots = Crowd(l)
      BY <1>2, <2>1 DEF Crowd, InSlots, InUse
    <3> QED BY <3>1, Values
  <2>2. CASE InSlots(l) # {}
    <3>1. PICK p \in InSlots(l) : TRUE
      BY <2>2
    <3>2. p \in Slots /\ slot[p].link = l
      BY <3>1 DEF InSlots
    <3>3. \A q \in Slots : slot[q].link = l => q = p
      BY <1>2, <3>2 DEF EntryInv, Distinct
    <3>4. Slots = Crowd(l) \cup {p}
      BY <1>2, <3>2, <3>3 DEF Crowd
    <3> QED BY <2>2, <3>2, <3>4
  <2> QED BY <2>1, <2>2
<1>4. PICK c, d : c = Cardinality(Crowd(l)) /\ d = Cardinality(Crowd(l) \cup {p})
  OBVIOUS
<1>5. c \in Nat /\ d \in Nat /\ d <= c + 1
  <2>1. Crowd(l) \in SUBSET Slots /\ Crowd(l) \cup {p} \in SUBSET Slots
    BY CrowdSets
  <2> QED BY <1>4, <2>1, SlotSets
<1>6. Cardinality(Slots) = BackMax
  BY PoolAssumption, FS_Interval DEF Slots
<1>7. BackMax \in Nat /\ MaxSoc \in Nat
  BY PoolAssumption
<1> QED BY <1>3, <1>4, <1>5, <1>6, <1>7

(* The fourth loop of back_clean empties every finished slot it may.       *)
LEMMA CleanedInvariance ==
  ASSUME IInv, Cleaned, Roomy, [Next]_vars
  PROVE  Cleaned'
<1> SUFFICES ASSUME call'.at \in {"store", "exist", "fill"}
             PROVE  Cleaned'
  BY DEF Cleaned
<1> PICK i : i = call.i
  OBVIOUS
<1>1. i \in Slots /\ call \in CallType /\ Slots \subseteq Nat /\ BackMax \in Nat
  BY Values DEF IInv, TypeOK, CallType
<1>2. CASE ParkReady \/ TrimAlive
  <2>1. \/ call.at = "park" /\ Turn("trim")
        \/ call.at = "trim" /\ Turn("store")
    BY <1>2 DEF ParkReady, TrimAlive
  <2>2. call'.at = "store" /\ call'.i = 0
    BY <1>1, <2>1 DEF Turn, CallType
  <2> QED BY <1>1, <2>2 DEF Cleaned
<1>3. CASE StoreReady
  <2>1. /\ call.at = "store"
        /\ \/ i + 1 < BackMax /\ call'.at = "store" /\ call'.i = i + 1
           \/ i + 1 >= BackMax
    <3>1. call' = IF i + 1 < BackMax THEN [call EXCEPT !.i = i + 1]
                  ELSE [call EXCEPT !.at = Body[call.op], !.i = 0]
      BY <1>3 DEF StoreReady
    <3> QED BY <1>1, <1>3, <3>1 DEF StoreReady, CallType
  <2>2. \A q \in Slots : q < i /\ slot[q].st = "ready" => slot[q].locked
    BY <2>1 DEF Cleaned
  <2>3. /\ \A q \in Slots \ {i} : slot'[q] = slot[q]
        /\ slot'[i].st = "ready" => slot'[i].locked
    <3>1. CASE UNCHANGED <<slot, stored, ghost>>
      <4>1. CASE Storable(slot[i])
        <5>1. slot' = [slot EXCEPT ![i] = FreeSlot]
          BY <1>3, <4>1 DEF StoreReady, Roomy
        <5>2. slot'[i] = FreeSlot
          BY <1>1, <5>1 DEF IInv, TypeOK
        <5> QED BY <3>1, <5>2, FreeSlotType
      <4>2. CASE ~Storable(slot[i])
        BY <3>1, <4>2 DEF Storable
      <4> QED BY <4>1, <4>2
    <3>2. CASE ~UNCHANGED <<slot, stored, ghost>>
      <4>1. slot'[i] = FreeSlot /\ \A q \in Slots \ {i} : slot'[q] = slot[q]
        BY <1>3, <3>2, StoreMoves
      <4> QED BY <4>1, FreeSlotType
    <3> QED BY <3>1, <3>2
  <2>4. \A q \in Slots : q < i + 1 /\ slot'[q].st = "ready" => slot'[q].locked
    <3> SUFFICES ASSUME NEW q \in Slots, q < i + 1, slot'[q].st = "ready"
                 PROVE  slot'[q].locked
      OBVIOUS
    <3>1. q = i \/ q < i
      BY <1>1
    <3> QED BY <2>2, <2>3, <3>1
  <2>5. i + 1 >= BackMax => \A q \in Slots : q < i + 1
    BY <1>1 DEF Slots
  <2> QED BY <2>1, <2>4, <2>5 DEF Cleaned
<1>4. CASE (\E t \in ftp : FtpThreadEnds(t)) \/ StopMirror \/ UNCHANGED vars
  <2>1. call' = call
    BY <1>4 DEF FtpThreadEnds, StopMirror, vars
  <2>2. \A q \in Slots : slot'[q].st = "ready" => slot[q].st = "ready" /\ slot'[q] = slot[q]
    <3>1. CASE slot' = slot
      BY <3>1
    <3>2. CASE ~(slot' = slot)
      <4>1. PICK t \in ftp : FtpThreadEnds(t) /\ eng.mode # "end"
        BY <1>4, <3>2 DEF FtpThreadEnds, StopMirror, vars
      <4>2. PICK c : slot' = [slot EXCEPT ![t.b].st = "ftpready", ![t.b].code = c]
        BY <4>1 DEF FtpThreadEnds
      <4>3. t.b \in Slots /\ slot \in [Slots -> SlotType]
        BY <4>1 DEF IInv, TypeOK
      <4>4. slot'[t.b].st = "ftpready" /\ \A q \in Slots \ {t.b} : slot'[q] = slot[q]
        BY <4>2, <4>3 DEF SlotType
      <4> QED BY <4>4
    <3> QED BY <3>1, <3>2
  <2> QED BY <2>1, <2>2 DEF Cleaned
<1> QED BY <1>2, <1>3, <1>4, TrimPlaces

(* A step after which no more slots are in use for other links, in a mode  *)
(* that leaves no less room.                                               *)
LEMMA SparseKept ==
  ASSUME IInv, Sparse, call.at \in {"idle", "net"},
         eng.mode \in NewModes \/ eng'.mode \notin NewModes,
         \A q \in Slots : InUse(slot'[q]) /\ slot'[q].link # eng'.link =>
                            InUse(slot[q]) /\ slot[q].link # eng.link
  PROVE  Sparse'
<1> PICK l, m : l = eng.link /\ m = eng'.link
  OBVIOUS
<1>1. PICK c, d : c = Cardinality(Crowd(l)) /\ d = Cardinality(Crowd(m)')
  OBVIOUS
<1>2. Crowd(m)' \subseteq Crowd(l)
  BY DEF Crowd
<1>3. c \in Nat /\ d \in Nat /\ d <= c
  BY <1>1, <1>2, CrowdSets, SlotSets
<1>4. c <= IF eng.mode \in NewModes THEN MaxSoc ELSE MaxSoc + 1
  BY <1>1 DEF Sparse
<1>5. d <= IF eng'.mode \in NewModes THEN MaxSoc ELSE MaxSoc + 1
  BY <1>3, <1>4, PoolAssumption
<1>6. Crowd(m)' = Crowd(eng.link)'
  OBVIOUS
<1> QED BY <1>1, <1>5, <1>6 DEF Sparse

(* When the engine leaves a link whose type it awaited, the slot of that   *)
(* link is one of the others.                                              *)
LEMMA SparseLeft ==
  ASSUME IInv, Sparse, call.at \in {"idle", "net"},
         eng.mode \in NewModes, eng'.mode \notin NewModes, NEW p \in Slots,
         \A q \in Slots \ {p} : InUse(slot'[q]) /\ slot'[q].link # eng'.link =>
                                  InUse(slot[q]) /\ slot[q].link # eng.link
  PROVE  Sparse'
<1> PICK l, m : l = eng.link /\ m = eng'.link
  OBVIOUS
<1>1. PICK c, d, e : /\ c = Cardinality(Crowd(l)) /\ d = Cardinality(Crowd(m)')
                     /\ e = Cardinality(Crowd(l) \cup {p})
  OBVIOUS
<1>2. Crowd(m)' \subseteq Crowd(l) \cup {p}
  BY DEF Crowd
<1>3. c \in Nat /\ d \in Nat /\ e \in Nat /\ d <= e /\ e <= c + 1
  <2>1. Crowd(l) \in SUBSET Slots /\ Crowd(l) \cup {p} \in SUBSET Slots /\ Crowd(m)' \in SUBSET Slots
    BY CrowdSets
  <2> QED BY <1>1, <1>2, <2>1, SlotSets
<1>4. c <= MaxSoc
  BY <1>1 DEF Sparse
<1>5. d <= MaxSoc + 1
  BY <1>3, <1>4, PoolAssumption
<1>6. Crowd(m)' = Crowd(eng.link)'
  OBVIOUS
<1> QED BY <1>1, <1>5, <1>6 DEF Sparse

(* Steps that lead into back_clean, or keep on in it. *)
LEMMA SparseInCall ==
  ASSUME call'.at \notin {"idle", "net"}
  PROVE  Sparse'
BY DEF Sparse

(* In every state, and so after the step. *)
LEMMA LockedCrowdBound ==
  IInv /\ EntryInv /\ Limits /\ AllLocked => Cardinality(Crowd(eng.link)) <= MaxSoc
BY LockedCrowd

(* The slots are cleaned and the call goes on to its last part. *)
LEMMA SparseCleaned ==
  ASSUME IInv', EntryInv', Limits', AllLocked'
  PROVE  Sparse'
<1>1. (IInv /\ EntryInv /\ Limits /\ AllLocked => Cardinality(Crowd(eng.link)) <= MaxSoc)'
  BY LockedCrowdBound, PTL
<1>2. PICK m : m = eng'.link
  OBVIOUS
<1>3. PICK d : d = Cardinality(Crowd(m)')
  OBVIOUS
<1>4. d \in Nat
  BY <1>3, CrowdSets
<1>5. Crowd(m)' = Crowd(eng.link)'
  BY <1>2
<1>6. d <= MaxSoc
  BY <1>1, <1>3, <1>5
<1>7. d <= IF eng'.mode \in NewModes THEN MaxSoc ELSE MaxSoc + 1
  BY <1>4, <1>6, PoolAssumption
<1> QED BY <1>3, <1>5, <1>7 DEF Sparse

(* An addition fills a slot, after back_clean. *)
LEMMA SparseEntering ==
  ASSUME IInv, EntryInv, Limits, Cleaned,
         AddStopped \/ AddKnown \/ AddFtp \/ AddLive \/ AddConnect \/ AddRefused
  PROVE  Sparse'
<1>1. PICK q \in Slots, s \in SlotType : Enters(q, s)
  BY Entering
<1>2. call.at = "fill" /\ eng' = eng
  BY Entering
<1>3. Adding
  BY <1>2 DEF Adding, IInv, Control
<1> PICK l : l = eng.link
  OBVIOUS
<1>4. Crowd(l) \subseteq Others(l) /\ Cardinality(Crowd(l)) <= MaxSoc
  <2>1. AllLocked
    BY <1>2 DEF Cleaned, AllLocked
  <2> QED BY <2>1, LockedCrowd
<1>5. \A p \in Slots \ {q} : InUse(slot'[p]) => InUse(slot[p]) /\ slot'[p].link = slot[p].link
  BY <1>1 DEF Enters, Rest, Same, Alike, InUse
<1>6. Crowd(l)' \subseteq Crowd(l) \cup {q}
  BY <1>5 DEF Crowd
<1>7. call.link = l => Crowd(l)' \subseteq Crowd(l)
  BY <1>1, <1>5 DEF Crowd, Enters
<1> PICK c, d, r : /\ c = Cardinality(Crowd(l)) /\ d = Cardinality(Crowd(l)')
                   /\ r = Cardinality(Receiving)
  OBVIOUS
<1>8. /\ c \in Nat /\ d \in Nat /\ r \in Nat /\ c <= MaxSoc /\ c <= r /\ d <= c + 1
      /\ call.link = l => d <= c
  <2>1. /\ Crowd(l) \in SUBSET Slots /\ Crowd(l)' \in SUBSET Slots /\ Receiving \in SUBSET Slots
        /\ Crowd(l) \cup {q} \in SUBSET Slots /\ Crowd(l) \subseteq Receiving
    BY <1>4, CrowdSets, TransferSets
  <2>2. c \in Nat /\ d \in Nat /\ r \in Nat /\ c <= r
    BY <2>1, SlotSets
  <2>3. call.link = l => d <= c
    BY <1>7, <2>1, SlotSets
  <2>4. PICK e : e = Cardinality(Crowd(l) \cup {q})
    OBVIOUS
  <2>5. e \in Nat /\ d <= e /\ e <= c + 1
    BY <1>6, <2>1, <2>4, SlotSets
  <2>6. c <= MaxSoc
    BY <1>4
  <2> QED BY <2>2, <2>3, <2>5, <2>6
<1>9. CASE eng.mode \in TypeModes
  <2>1. call.link = l
    BY <1>2, <1>9 DEF EntryInv, TypeCalls
  <2>2. d <= MaxSoc
    BY <1>8, <2>1, PoolAssumption
  <2> QED BY <1>2, <1>9, <2>2 DEF Sparse, NewModes
<1>10. CASE eng.mode \in NewModes \ TypeModes
  <2>1. eng.mode \in {"hold", "record"}
    BY <1>10 DEF NewModes, TypeModes
  <2>2. ~OwnAdd
    BY <2>1 DEF OwnAdd, TypeModes
  <2>3. Due = 1
    BY <1>3, <2>2 DEF Due
  <2>4. PICK b \in Nat : b = budget
    BY DEF IInv, TypeOK
  <2>5. r + b + 1 <= MaxSoc
    <3>1. b + 1 > 0
      BY <2>4
    <3> QED BY <2>3, <2>4, <3>1 DEF Limits
  <2>6. d <= MaxSoc
    BY <1>8, <2>4, <2>5, PoolAssumption
  <2> QED BY <1>2, <1>10, <2>6 DEF Sparse
<1>11. CASE eng.mode \notin NewModes
  <2>1. d <= MaxSoc + 1
    BY <1>8, PoolAssumption
  <2> QED BY <1>2, <1>11, <2>1 DEF Sparse
<1> QED BY <1>9, <1>10, <1>11 DEF NewModes

(* Steps of the pool that leave the room there is. *)
LEMMA SparsePool ==
  ASSUME IInv, EntryInv, EntryInv', IInv', Limits', RoomInv, Roomy,
         \/ CleanStep \/ AddIfNotExists \/ WaitReturns \/ StartFill \/ FillEnds
         \/ \E i \in Slots : Events(i) \/ CancelFile(i)
         \/ \E t \in ftp : FtpThreadEnds(t)
         \/ MainWait \/ FetchPause \/ FetchWait \/ HoldWait
         \/ \E l \in Links : FillAdd(l) \/ BeginType(l)
         \/ StopMirror \/ UNCHANGED vars
  PROVE  Sparse'
<1> USE DEF RoomInv, Plain
<1>1. CASE \/ SweepWritten \/ SweepAlive \/ SweepOther \/ ParkReady \/ TrimAlive
  <2>1. \/ call.at = "sweep" /\ Turn("park")
        \/ call.at = "park" /\ Turn("trim")
        \/ call.at = "trim" /\ Turn("store")
    BY <1>1 DEF SweepWritten, SweepAlive, SweepOther, ParkReady, TrimAlive
  <2>2. call'.at \in {"sweep", "park", "trim", "store"}
    BY <2>1 DEF Turn, IInv, TypeOK, CallType
  <2> QED BY <2>2, SparseInCall
<1>2. CASE StoreReady
  <2>1. CASE call'.at \in {"idle", "net"}
    <3>1. PICK i \in Slots : i = call.i
      BY DEF IInv, TypeOK, CallType
    <3>2. i + 1 >= BackMax
      <4>1. i + 1 < BackMax => call'.at = call.at /\ call.at = "store"
        BY <1>2, <3>1 DEF StoreReady, IInv, TypeOK, CallType
      <4>2. i \in Nat /\ BackMax \in Nat
        BY <3>1, Values
      <4> QED BY <2>1, <4>1, <4>2
    <3>3. AllLocked'
      <4>1. \A q \in Slots : q < i /\ slot[q].st = "ready" => slot[q].locked
        BY <1>2, <3>1 DEF Cleaned, StoreReady
      <4>2. /\ \A q \in Slots \ {i} : slot'[q] = slot[q]
            /\ slot'[i].st = "ready" => slot'[i].locked
        <5>1. CASE UNCHANGED <<slot, stored, ghost>>
          <6>1. CASE Storable(slot[i])
            <7>1. slot' = [slot EXCEPT ![i] = FreeSlot]
              BY <1>2, <3>1, <6>1 DEF StoreReady, Roomy
            <7>2. slot'[i] = FreeSlot
              BY <3>1, <7>1 DEF IInv, TypeOK
            <7> QED BY <5>1, <7>2, FreeSlotType
          <6>2. CASE ~Storable(slot[i])
            BY <5>1, <6>2 DEF Storable
          <6> QED BY <6>1, <6>2
        <5>2. CASE ~UNCHANGED <<slot, stored, ghost>>
          <6>1. slot'[i] = FreeSlot /\ \A q \in Slots \ {i} : slot'[q] = slot[q]
            BY <1>2, <3>1, <5>2, StoreMoves
          <6> QED BY <6>1, FreeSlotType
        <5> QED BY <5>1, <5>2
      <4>3. \A q \in Slots : q = i \/ q < i
        BY <3>1, <3>2, PoolAssumption DEF Slots
      <4> QED BY <4>1, <4>2, <4>3 DEF AllLocked
    <3> QED BY <3>3, SparseCleaned
  <2>2. CASE call'.at \notin {"idle", "net"}
    BY <2>2, SparseInCall
  <2> QED BY <2>1, <2>2
<1>3. CASE AddIfNotExists
  <2>1. Adding
    BY <1>3 DEF AddIfNotExists, Adding, IInv, Control
  <2>2. ~Exists(call.link, call.kind)
    <3>1. NoEntry(call.link)
      BY <2>1 DEF EntryInv, AddsNew
    <3>2. InSlots(call.link) = {} /\ \A kd : InStore(call.link, kd) = {}
      BY <3>1 DEF NoEntry, InSlots, InStore, InUse
    <3> QED BY <3>2 DEF Exists
  <2>3. call'.at = "sweep"
    BY <1>3, <2>2 DEF AddIfNotExists, IInv, TypeOK, CallType
  <2> QED BY <2>3, SparseInCall
<1>4. CASE MainWait \/ FetchPause \/ FetchWait \/ HoldWait
           \/ \E l \in Links : FillAdd(l) \/ BeginType(l)
  <2>1. call'.at = "sweep"
    BY <1>4 DEF MainWait, FetchPause, FetchWait, HoldWait, FillAdd, BeginType, Begin
  <2> QED BY <2>1, SparseInCall
<1>5. CASE WaitReturns \/ StartFill \/ FillEnds
  <2>1. call.at \in {"idle", "net"} /\ slot' = slot /\ eng' = eng
    BY <1>5 DEF WaitReturns, StartFill, FillEnds, Ready
  <2> QED BY <2>1, SparseKept
<1>6. CASE \E i \in Slots : Events(i) \/ CancelFile(i)
  <2>1. PICK i \in Slots : Advances(i) /\ eng' = eng
    BY <1>6, Advancing DEF Goes
  <2>2. call.at \in {"idle", "net"}
    BY <1>6 DEF Events, CancelFile, Ready, Broken, Connected, Handshake, Headers,
       NotModified, OpenOutput, BodyEnd, ChunkEnd, FtpCollect, NetStep
  <2>3. \A q \in Slots : InUse(slot'[q]) => InUse(slot[q]) /\ slot'[q].link = slot[q].link
    BY <2>1, FewerEntries DEF Fewer
  <2> QED BY <2>1, <2>2, <2>3, SparseKept
<1>7. CASE (\E t \in ftp : FtpThreadEnds(t)) \/ StopMirror \/ UNCHANGED vars
  <2>1. call' = call /\ eng' = eng
    BY <1>7 DEF FtpThreadEnds, StopMirror, vars
  <2>2. \A q \in Slots : InUse(slot'[q]) => InUse(slot[q]) /\ slot'[q].link = slot[q].link
    <3>1. CASE slot' = slot
      BY <3>1
    <3>2. CASE ~(slot' = slot)
      <4>1. PICK t \in ftp : FtpThreadEnds(t) /\ eng.mode # "end"
        BY <1>7, <3>2 DEF FtpThreadEnds, StopMirror, vars
      <4>2. t.b \in Slots /\ Advances(t.b)
        BY <4>1, ThreadAdvances DEF Goes
      <4> QED BY <4>2, FewerEntries DEF Fewer
    <3> QED BY <3>1, <3>2
  <2>3. CASE call.at \in {"idle", "net"}
    BY <2>1, <2>2, <2>3, SparseKept
  <2>4. CASE call.at \notin {"idle", "net"}
    BY <2>1, <2>4, SparseInCall
  <2> QED BY <2>3, <2>4
<1> QED BY <1>1, <1>2, <1>3, <1>4, <1>5, <1>6, <1>7 DEF CleanStep

(* The engine turns to a link, reads its answer back, or is done with it.  *)
LEMMA SparseFetch ==
  ASSUME IInv, EntryInv, RoomInv,
         \/ FetchThaw \/ FetchGone \/ \E l \in Links : BeginFetch(l)
         \/ \E b \in Slots : Deliver(b) \/ DeliverRetry(b) \/ DeliverError(b) \/ DeliverBan(b)
  PROVE  Sparse'
<1> USE DEF RoomInv, Plain
<1>1. CASE \E l \in Links : BeginFetch(l)
  <2>1. /\ call.at = "idle" /\ slot' = slot /\ eng.mode = "main" /\ eng'.mode = "begin"
    BY <1>1 DEF BeginFetch, Ready, Calls
  <2>2. \A q \in Slots : InUse(slot[q]) => slot[q].link # eng.link
    BY <2>1, EntryLinks, LinkAssumption
  <2> QED BY <2>1, <2>2, SparseKept DEF NewModes, TypeModes
<1>2. CASE FetchThaw
  <2>1. PICK s \in InStore(eng.link, "final"), q \in Slots : Wake(s, q)
    BY <1>2 DEF FetchThaw
  <2>2. slot' = [slot EXCEPT ![q] = [s EXCEPT !.locked = TRUE]]
    BY <2>1 DEF Wake, Put
  <2>3. s \in SlotType /\ s.link = eng.link
    BY <2>1 DEF InStore, IInv, TypeOK
  <2>4. slot'[q].link = eng.link /\ \A r \in Slots \ {q} : slot'[r] = slot[r]
    BY <2>2, <2>3 DEF IInv, TypeOK, SlotType
  <2>5. call.at = "idle" /\ eng'.mode = "fetch" /\ eng'.link = eng.link
    BY <1>2 DEF FetchThaw, Fetching, Ready, IInv, TypeOK, EngType
  <2> QED BY <2>4, <2>5, SparseKept DEF NewModes, TypeModes
<1>3. CASE FetchGone
  <2>1. call.at = "idle" /\ slot' = slot /\ eng' = InMain /\ InSlots(eng.link) = {}
    BY <1>3 DEF FetchGone, Fetching, Ready
  <2>2. \A q \in Slots : InUse(slot[q]) => slot[q].link # eng.link
    BY <2>1 DEF InSlots, InUse
  <2> QED BY <2>1, <2>2, SparseKept DEF NewModes, TypeModes, InMain
<1>4. CASE \E b \in Slots : Deliver(b) \/ DeliverRetry(b) \/ DeliverError(b)
  <2>1. PICK b \in Slots : /\ Releases(b) /\ slot[b].link = eng.link /\ eng' = InMain
                           /\ call.at = "idle"
    BY <1>4, Delivering
  <2>2. \A q \in Slots : InUse(slot'[q]) => InUse(slot[q]) /\ q # b
    BY <2>1, FewerEntries DEF Fewer, Releases
  <2>3. \A q \in Slots : InUse(slot'[q]) => InUse(slot[q]) /\ slot[q].link # eng.link
    BY <2>1, <2>2 DEF EntryInv, Distinct, Releases
  <2> QED BY <2>1, <2>3, SparseKept DEF NewModes, TypeModes, InMain
<1>5. CASE \E b \in Slots : DeliverBan(b)
  <2>1. PICK b \in Slots : DeliverBan(b)
    BY <1>5
  <2>2. /\ InUse(slot[b]) /\ ~InUse(slot'[b]) /\ slot[b].link = eng.link /\ eng' = InMain
        /\ call.at = "idle"
        /\ \A q \in Slots \ {b} :
              slot'[q] = IF OfHost(q, HostOf[eng.link]) THEN Failed(slot[q], "failed")
                         ELSE slot[q]
    BY <2>1, Banning
  <2>3. \A q \in Slots : InUse(slot'[q]) => InUse(slot[q]) /\ q # b
    BY <2>2 DEF OfHost, InUse
  <2>4. \A q \in Slots : InUse(slot'[q]) => InUse(slot[q]) /\ slot[q].link # eng.link
    BY <2>2, <2>3 DEF EntryInv, Distinct
  <2> QED BY <2>2, <2>4, SparseKept DEF NewModes, TypeModes, InMain
<1> QED BY <1>1, <1>2, <1>3, <1>4, <1>5

(* The engine takes its decision about a link whose type it awaited, or    *)
(* ends the mirror.                                                        *)
LEMMA SparseType ==
  ASSUME IInv, EntryInv, RoomInv,
         \/ TypeRestart \/ TypeHold \/ HoldNamed \/ HoldMoved \/ HoldRefused
         \/ HoldCancelled \/ Record \/ Finish
  PROVE  Sparse'
<1> USE DEF RoomInv, Plain
<1>0. /\ {"type", "retype", "hold", "record"} = NewModes
      /\ "main" \notin NewModes /\ "end" \notin NewModes
  BY DEF NewModes, TypeModes
<1>1. CASE TypeRestart \/ HoldMoved \/ HoldCancelled
  <2>1. /\ \E b \in Slots : Releases(b) /\ slot[b].link = eng.link
        /\ call.at = "idle" /\ eng.mode \in {"type", "hold"} /\ eng.link \in Links
        /\ eng' = InMain \/ eng'.link = eng.link
    <3>1. CASE TypeRestart
      BY <3>1, Restarting DEF IInv, TypeOK, EngType
    <3>2. CASE HoldMoved \/ HoldCancelled
      BY <3>2, LetsGo
    <3> QED BY <1>1, <3>1, <3>2
  <2>2. PICK b \in Slots : Releases(b) /\ slot[b].link = eng.link
    BY <2>1
  <2>3. \A q \in Slots : InUse(slot'[q]) =>
          InUse(slot[q]) /\ slot'[q].link = slot[q].link /\ q # b
    BY <2>2, FewerEntries DEF Fewer, Releases
  <2>4. \A q \in Slots : InUse(slot'[q]) => InUse(slot[q]) /\ slot[q].link # eng.link
    BY <2>2, <2>3 DEF EntryInv, Distinct, Releases
  <2> QED BY <1>0, <2>1, <2>4, SparseKept
<1>2. CASE TypeHold \/ HoldNamed
  <2>1. /\ \A q \in Slots : slot'[q].link = slot[q].link /\ slot'[q].st = slot[q].st
        /\ eng.mode \in NewModes /\ eng'.link = eng.link /\ call.at = "idle"
    <3>1. CASE TypeHold
      <4>1. PICK p \in Slots :
              /\ \A r \in Slots \ {p} : slot'[r] = slot[r]
              /\ slot'[p] = [slot[p] EXCEPT !.early = TRUE, !.locked = TRUE]
              /\ slot[p] \in SlotType
        BY <3>1, TakesHold
      <4>2. slot'[p].link = slot[p].link /\ slot'[p].st = slot[p].st
        BY <4>1 DEF SlotType
      <4>3. eng.mode \in NewModes /\ eng'.link = eng.link /\ call.at = "idle"
        BY <3>1, TakesHold DEF NewModes
      <4> QED BY <4>1, <4>2, <4>3
    <3>2. CASE HoldNamed
      <4>1. slot'[eng.b].link = slot[eng.b].link /\ slot'[eng.b].st = slot[eng.b].st
        BY <3>2, TakesName DEF SlotType
      <4> QED BY <1>0, <3>2, <4>1, TakesName
    <3> QED BY <1>2, <3>1, <3>2
  <2> QED BY <2>1, SparseKept DEF InUse
<1>3. CASE HoldRefused \/ Record
  <2>1. /\ \A q \in Slots : slot'[q].link = slot[q].link /\ slot'[q].st = slot[q].st
        /\ eng.mode \in {"hold", "record"} /\ eng' = InMain /\ call.at = "idle"
    <3>1. CASE HoldRefused
      <4>1. slot'[eng.b].link = slot[eng.b].link /\ slot'[eng.b].st = slot[eng.b].st
        BY <3>1, LeavesIt DEF SlotType
      <4> QED BY <3>1, <4>1, LeavesIt
    <3>2. CASE Record
      BY <3>2 DEF Record, Ready
    <3> QED BY <1>3, <3>1, <3>2
  <2>2. PICK p \in Slots : \A q \in Slots \ {p} : InUse(slot[q]) => slot[q].link # eng.link
    <3>1. CASE InSlots(eng.link) = {}
      BY <3>1, Values DEF InSlots, InUse
    <3>2. CASE InSlots(eng.link) # {}
      <4>1. PICK p \in InSlots(eng.link) : TRUE
        BY <3>2
      <4> QED BY <4>1 DEF InSlots, InUse, EntryInv, Distinct
    <3> QED BY <3>1, <3>2
  <2>3. \A q \in Slots \ {p} : InUse(slot'[q]) => InUse(slot[q]) /\ slot[q].link # eng.link
    BY <2>1, <2>2 DEF InUse
  <2>4. eng.mode \in NewModes /\ eng'.mode \notin NewModes
    BY <1>0, <2>1 DEF InMain
  <2> QED BY <2>1, <2>3, <2>4, SparseLeft
<1>4. CASE Finish
  <2>1. \A q \in Slots : ~InUse(slot'[q])
    BY <1>4, FreeSlotType DEF Finish, InUse
  <2>2. call.at = "idle" /\ eng'.mode = "end"
    BY <1>4 DEF Finish, Ready, InMain
  <2> QED BY <1>0, <2>1, <2>2, SparseKept
<1> QED BY <1>1, <1>2, <1>3, <1>4

(* No answer is lost, and no addition fails, for want of a slot. *)
LEMMA NothingFails ==
  ASSUME IInv, EntryInv, Limits, RoomInv, Roomy
  PROVE  ~AddFull /\ ~ThawFails
<1>0. BackMax >= MaxSoc + 2 /\ ~DiskMayFail
  BY DEF Roomy
<1> PICK l : l = eng.link
  OBVIOUS
<1>1. ASSUME AddFull
      PROVE  FALSE
  <2>1. AllLocked
    BY <1>1 DEF RoomInv, Plain, Cleaned, AllLocked, AddFull
  <2>2. Cardinality(Crowd(l)) <= MaxSoc
    BY <2>1, LockedCrowd
  <2>3. Search # {}
    BY <1>0, <2>2, RoomLeft
  <2> QED BY <1>1, <2>3 DEF AddFull
<1>2. ASSUME ThawFails
      PROVE  FALSE
  <2>1. call.at = "idle" /\ eng.mode \in {"begin", "fetch"} /\ InSlots(l) = {} /\ Search = {}
    BY <1>0, <1>2 DEF ThawFails, Fetching, Ready
  <2>2. Cardinality(Crowd(l)) <= MaxSoc + 1
    BY <2>1 DEF RoomInv, Plain, Sparse, NewModes, TypeModes
  <2>3. Search # {}
    BY <1>0, <2>1, <2>2, RoomLeft
  <2> QED BY <2>1, <2>3
<1> QED BY <1>1, <1>2

(* Every step leaves room for the next addition. *)
LEMMA SparseInvariance ==
  ASSUME IInv, EntryInv, IInv', EntryInv', Limits, Limits', RoomInv, Roomy, [Next]_vars
  PROVE  Sparse'
<1>1. CASE AddStep
  <2>1. CASE AddIfNotExists
    BY <2>1, SparsePool
  <2>2. CASE AddStopped \/ AddKnown \/ AddFtp \/ AddLive \/ AddConnect \/ AddRefused
    BY <2>2, SparseEntering DEF RoomInv, Plain
  <2> QED BY <1>1, <2>1, <2>2, NothingFails DEF AddStep
<1>2. CASE \/ CleanStep \/ WaitReturns \/ StartFill \/ FillEnds
           \/ \E i \in Slots : Events(i) \/ CancelFile(i)
           \/ \E t \in ftp : FtpThreadEnds(t)
           \/ MainWait \/ FetchPause
           \/ \E l \in Links : FillAdd(l) \/ BeginType(l)
           \/ StopMirror \/ UNCHANGED vars
  BY <1>2, SparsePool
<1>3. CASE FetchStep \/ \E l \in Links : BeginFetch(l)
  <2>1. CASE FetchWait
    BY <2>1, SparsePool
  <2>2. CASE \/ FetchThaw \/ FetchGone \/ \E l \in Links : BeginFetch(l)
             \/ \E b \in Slots :
                  Deliver(b) \/ DeliverRetry(b) \/ DeliverError(b) \/ DeliverBan(b)
    BY <2>2, SparseFetch
  <2> QED BY <1>3, <2>1, <2>2, NothingFails DEF FetchStep
<1>4. CASE TypeStep \/ Finish
  <2>1. CASE HoldWait
    BY <2>1, SparsePool
  <2>2. CASE \/ TypeRestart \/ TypeHold \/ HoldNamed \/ HoldMoved \/ HoldRefused
             \/ HoldCancelled \/ Record \/ Finish
    BY <2>2, SparseType
  <2> QED BY <1>4, <2>1, <2>2 DEF TypeStep
<1> QED BY <1>1, <1>2, <1>3, <1>4 DEF Next, EngineStep, Terminated

-----------------------------------------------------------------------------
(* The awaited link keeps its entry *)

(* The entry of a link stays while nothing of it is released.              *)
LEMMA EntryStays ==
  ASSUME NEW l, HasEntry(l),
         \A q \in Slots : InUse(slot[q]) /\ slot[q].link = l =>
           InUse(slot'[q]) /\ slot'[q].link = l,
         \A s \in stored : s.link = l => s \in stored'
  PROVE  HasEntry(l)'
BY DEF HasEntry, InSlots, InUse

(* back_add_if_not_exists never finds an entry: the link is asked once.    *)
LEMMA NothingThere ==
  ASSUME EntryInv, Adding
  PROVE  ~Exists(call.link, call.kind)
<1>1. NoEntry(call.link)
  BY DEF EntryInv, AddsNew
<1>2. InSlots(call.link) = {} /\ \A kd : InStore(call.link, kd) = {}
  BY <1>1 DEF NoEntry, InSlots, InStore, InUse
<1>3. \A kd : <<call.link, kd>> \notin ghost
  BY <1>1 DEF NoEntry
<1> QED BY <1>2, <1>3 DEF Exists

(* The steps that neither add nor release an entry. *)
LEMMA SameEntryKept ==
  ASSUME IInv, EntryInv, EntryInv', RoomInv,
         \/ SweepAlive \/ SweepOther \/ ParkReady \/ TrimAlive
         \/ StoreReady /\ UNCHANGED <<slot, stored, ghost>>
         \/ \E i \in Slots : Events(i) \/ CancelFile(i)
         \/ AddIfNotExists \/ WaitReturns \/ StartFill \/ FillEnds
         \/ \E t \in ftp : FtpThreadEnds(t)
         \/ MainWait \/ FetchWait \/ FetchPause \/ HoldWait
         \/ \E l \in Links : FillAdd(l)
         \/ StopMirror \/ UNCHANGED vars
  PROVE  KeepsEntry'
<1> SUFFICES ASSUME NEW n, n = eng'.link, eng'.mode \in {"begin", "fetch"},
                    lk'[n] = "recorded", ~OwnAdd'
             PROVE  HasEntry(n)'
  BY DEF KeepsEntry, HasEntry, InSlots
<1>1. /\ \A q \in Slots : InUse(slot[q]) => InUse(slot'[q]) /\ slot'[q].link = slot[q].link
      /\ stored' = stored /\ lk' = lk
  <2>1. CASE \/ SweepAlive \/ SweepOther \/ ParkReady \/ TrimAlive
             \/ StoreReady /\ UNCHANGED <<slot, stored, ghost>>
    BY <2>1, CleanCalm DEF Calm, Same, Alike, InUse
  <2>2. CASE \/ \E i \in Slots : Events(i) \/ CancelFile(i)
             \/ \E t \in ftp : FtpThreadEnds(t)
    <3>1. PICK i \in Slots : Advances(i) /\ lk' = lk
      <4>1. (\E t \in ftp : FtpThreadEnds(t)) => eng.mode # "end"
        BY DEF FtpThreadEnds
      <4> QED BY <2>2, <4>1, Advancing, ThreadAdvances DEF Goes, FtpThreadEnds
    <3>2. \A q \in Slots \ {i} : InUse(slot[q]) => InUse(slot'[q]) /\ slot'[q].link = slot[q].link
      BY <3>1 DEF Advances, Rest, Same, Alike, InUse
    <3>3. InUse(slot'[i]) /\ slot'[i].link = slot[i].link
      BY <3>1, BusyInUse DEF Advances
    <3> QED BY <3>1, <3>2, <3>3 DEF Advances
  <2>3. CASE \/ AddIfNotExists \/ WaitReturns \/ StartFill \/ FillEnds
             \/ MainWait \/ FetchWait \/ FetchPause \/ HoldWait
             \/ \E l \in Links : FillAdd(l)
             \/ StopMirror \/ UNCHANGED vars
    BY <2>3 DEF AddIfNotExists, WaitReturns, StartFill, FillEnds, MainWait, FetchWait,
                FetchPause, HoldWait, FillAdd, StopMirror, Calls, vars
  <2> QED BY <2>1, <2>2, <2>3
<1>2. eng'.link = eng.link /\ eng.mode \in {"begin", "fetch"} /\ ~OwnAdd
  <2>1. CASE \/ SweepAlive \/ SweepOther \/ ParkReady \/ TrimAlive
             \/ StoreReady /\ UNCHANGED <<slot, stored, ghost>>
    <3>1. eng' = eng /\ call.at # "idle" /\ call'.at # "idle" /\ call'.op = call.op /\ GoesOn
      BY <2>1, CleanCalm
    <3> QED BY <3>1 DEF OwnAdd, Adding, GoesOn
  <2>2. CASE \/ \E i \in Slots : Events(i) \/ CancelFile(i)
             \/ \E t \in ftp : FtpThreadEnds(t)
    <3>1. eng' = eng /\ call' = call
      BY <2>2, Advancing DEF FtpThreadEnds
    <3> QED BY <3>1 DEF OwnAdd, Adding
  <2>3. CASE AddIfNotExists
    <3>1. Adding
      BY <2>3 DEF AddIfNotExists, Adding, IInv, Control
    <3>2. ~Exists(call.link, call.kind)
      BY <3>1, NothingThere
    <3>3. call'.at = "sweep" /\ call'.op = "add" /\ call'.link = call.link
      BY <2>3, <3>2 DEF AddIfNotExists, IInv, TypeOK, CallType
    <3> QED BY <2>3, <3>1, <3>3 DEF OwnAdd, Adding, AddIfNotExists
  <2>4. CASE WaitReturns
    BY <2>4 DEF WaitReturns, RoomInv, Plain, OwnAdd, Adding
  <2>5. CASE \/ StartFill \/ FillEnds \/ MainWait \/ FetchWait \/ FetchPause \/ HoldWait
             \/ \E l \in Links : FillAdd(l)
    <3>1. call.at = "idle"
      BY <2>5 DEF StartFill, FillEnds, MainWait, FetchWait, FetchPause, HoldWait, FillAdd,
                  Ready, Fetching, Holding
    <3>2. /\ eng'.link = eng.link
          /\ eng' = eng \/ eng.mode \in {"begin", "fetch"}
      BY <2>5 DEF StartFill, FillEnds, MainWait, FetchWait, FetchPause, HoldWait, FillAdd,
                  Ready, Fetching, Holding, IInv, TypeOK, EngType
    <3> QED BY <3>1, <3>2 DEF OwnAdd, Adding
  <2>6. CASE StopMirror \/ UNCHANGED vars
    BY <2>6 DEF StopMirror, vars, OwnAdd, Adding
  <2> QED BY <2>1, <2>2, <2>3, <2>4, <2>5, <2>6
<1> PICK l : l = eng.link
  OBVIOUS
<1>3. HasEntry(l)
  BY <1>1, <1>2 DEF RoomInv, KeepsEntry
<1>4. HasEntry(l)'
  BY <1>1, <1>3, EntryStays
<1> QED BY <1>2, <1>4

(* The steps that add an entry, move it to the disk or back, release one,  *)
(* or turn to another link.                                                *)
LEMMA OtherEntryKept ==
  ASSUME IInv, EntryInv, EntryInv', RoomInv,
         \/ AddStopped \/ AddKnown \/ AddFtp \/ AddLive \/ AddConnect \/ AddRefused
         \/ SweepWritten \/ (StoreReady /\ ~UNCHANGED <<slot, stored, ghost>>)
         \/ FetchThaw \/ \E l \in Links : BeginFetch(l)
  PROVE  KeepsEntry'
<1> SUFFICES ASSUME NEW n, n = eng'.link, eng'.mode \in {"begin", "fetch"},
                    lk'[n] = "recorded", ~OwnAdd'
             PROVE  HasEntry(n)'
  BY DEF KeepsEntry, HasEntry, InSlots
<1> PICK l : l = eng.link
  OBVIOUS
<1>1. CASE AddStopped \/ AddKnown \/ AddFtp \/ AddLive \/ AddConnect \/ AddRefused
  <2>1. PICK q \in Slots, s \in SlotType : Enters(q, s)
    BY <1>1, Entering
  <2>2. call.at = "fill" /\ eng' = eng /\ lk' = lk
    BY <1>1, Entering
  <2>3. CASE call.link = l
    <3>1. q \in InSlots(l)'
      BY <2>1, <2>3 DEF Enters, InSlots, InUse
    <3> QED BY <2>2, <3>1 DEF HasEntry
  <2>4. CASE call.link # l
    <3>1. HasEntry(l)
      BY <2>2, <2>4 DEF RoomInv, KeepsEntry, OwnAdd
    <3>2. \A p \in Slots : InUse(slot[p]) => InUse(slot'[p]) /\ slot'[p].link = slot[p].link
      BY <2>1 DEF Enters, Rest, Same, Alike, InUse
    <3>3. HasEntry(l)'
      BY <2>1, <3>1, <3>2, EntryStays DEF Enters
    <3> QED BY <2>2, <3>3
  <2> QED BY <2>3, <2>4
<1>2. CASE SweepWritten
  <2>1. PICK p \in Slots : p = call.i /\ Releases(p)
    BY <1>2, SweepReleases
  <2>2. /\ slot[p].link \in Links
        /\ lk' = IF OnHeap(slot[p]) /\ lk[slot[p].link] = "recorded"
                 THEN [lk EXCEPT ![slot[p].link] = "done"] ELSE lk
    BY <1>2, <2>1, SweepReleases
  <2>3. eng' = eng /\ (OwnAdd <=> OwnAdd')
    <3>1. eng' = eng /\ GoesOn /\ call.at = "sweep" /\ call'.at # "idle" /\ call'.op = call.op
      BY <1>2, SweepReleases
    <3> QED BY <3>1 DEF OwnAdd, Adding, GoesOn
  <2>4. lk \in [Links -> LinkStates]
    BY DEF IInv, TypeOK
  <2>5. lk[l] = "recorded"
    BY <2>2, <2>3, <2>4 DEF EntryInv, Awaited
  <2>6. slot[p].link # l
    <3> SUFFICES ASSUME slot[p].link = l
                 PROVE  FALSE
      OBVIOUS
    <3>1. OnHeap(slot[p])
      BY <2>1, <2>5 DEF OnHeap, EntryInv, FinalNames, Named, Releases
    <3>2. lk'[l] = "done"
      BY <2>2, <2>4, <2>5, <3>1
    <3> QED BY <2>3, <3>2
  <2>7. HasEntry(l)
    BY <2>3, <2>5 DEF RoomInv, KeepsEntry
  <2>8. \A q \in Slots \ {p} : InUse(slot[q]) => InUse(slot'[q]) /\ slot'[q].link = slot[q].link
    BY <2>1 DEF Releases, Rest, Same, Alike, InUse
  <2>9. HasEntry(l)'
    BY <2>1, <2>6, <2>7, <2>8, EntryStays DEF Releases
  <2> QED BY <2>3, <2>9
<1>3. CASE StoreReady /\ ~UNCHANGED <<slot, stored, ghost>>
  <2>0. call.i \in Slots /\ slot[call.i] \in SlotType
    BY DEF IInv, TypeOK, CallType
  <2>1. PICK p \in Slots, s \in SlotType :
          /\ p = call.i /\ s = slot[p]
          /\ \A q \in Slots \ {p} : slot'[q] = slot[q]
          /\ stored' = (stored \ InStore(s.link, s.kind)) \cup {s}
    BY <1>3, <2>0, StoreMoves
  <2>2. lk' = lk /\ eng' = eng /\ (OwnAdd <=> OwnAdd')
    <3>1. /\ lk' = lk /\ eng' = eng /\ GoesOn
          /\ call.at = "store" /\ call'.at # "idle" /\ call'.op = call.op
      BY <1>3, StoreMoves
    <3> QED BY <3>1 DEF OwnAdd, Adding, GoesOn
  <2>3. HasEntry(l)
    BY <2>2 DEF RoomInv, KeepsEntry
  <2>4. CASE s.link = l
    BY <2>1, <2>2, <2>4 DEF HasEntry
  <2>5. CASE s.link # l
    <3>1. \A q \in Slots : InUse(slot[q]) /\ slot[q].link = l =>
            InUse(slot'[q]) /\ slot'[q].link = l
      BY <2>1, <2>5
    <3>2. \A t \in stored : t.link = l => t \in stored'
      BY <2>1, <2>5 DEF InStore
    <3>3. HasEntry(l)'
      BY <2>3, <3>1, <3>2, EntryStays
    <3> QED BY <2>2, <3>3
  <2> QED BY <2>4, <2>5
<1>4. CASE FetchThaw
  <2>1. PICK s \in InStore(l, "final"), q \in Slots : Wake(s, q)
    BY <1>4 DEF FetchThaw
  <2>2. slot' = [slot EXCEPT ![q] = [s EXCEPT !.locked = TRUE]]
    BY <2>1 DEF Wake, Put
  <2>3. s \in SlotType /\ s.link = l /\ InUse(s)
    BY <2>1 DEF InStore, IInv, TypeOK, StoredSound, InUse
  <2>4. slot'[q].link = l /\ slot'[q].st = s.st
    BY <2>2, <2>3 DEF IInv, TypeOK, SlotType
  <2>5. q \in InSlots(l)'
    BY <2>3, <2>4 DEF InSlots, InUse
  <2>6. eng'.link = l
    BY <1>4 DEF FetchThaw, IInv, TypeOK, EngType
  <2> QED BY <2>5, <2>6 DEF HasEntry
<1>5. CASE \E m \in Links : BeginFetch(m)
  <2>1. PICK m \in Links : BeginFetch(m)
    BY <1>5
  <2>2. eng'.link = m /\ UNCHANGED <<slot, stored>>
    BY <2>1 DEF BeginFetch, Calls
  <2>3. CASE Exists(m, "final")
    <3>1. HasEntry(m)
      BY <2>3 DEF Exists, HasEntry, InStore, RoomInv, Plain
    <3>2. HasEntry(m)'
      BY <2>2, <3>1, EntryStays
    <3> QED BY <2>2, <3>2
  <2>4. CASE ~Exists(m, "final")
    <3>1. call'.at = "sweep" /\ call'.op = "add" /\ call'.link = m
      BY <2>1, <2>4 DEF BeginFetch, Begin
    <3> QED BY <2>2, <3>1 DEF OwnAdd, Adding
  <2> QED BY <2>3, <2>4
<1> QED BY <1>1, <1>2, <1>3, <1>4, <1>5

-----------------------------------------------------------------------------
(* Nothing is skipped, and the mirror does not give up *)

(* The calls of the pool. *)
LEMMA PlainPool ==
  ASSUME IInv, EntryInv, Plain,
         \/ CleanStep \/ AddIfNotExists \/ WaitReturns \/ StartFill \/ FillEnds
         \/ AddStopped \/ AddKnown \/ AddFtp \/ AddLive \/ AddConnect \/ AddRefused
         \/ \E i \in Slots : Events(i) \/ CancelFile(i)
         \/ \E t \in ftp : FtpThreadEnds(t)
         \/ \E l \in Links : FillAdd(l)
         \/ MainWait \/ HoldWait \/ StopMirror \/ UNCHANGED vars
  PROVE  Plain'
<1>1. eng' = eng
  <2>1. CASE CleanStep
    BY <2>1 DEF CleanStep, SweepWritten, SweepAlive, SweepOther, ParkReady, TrimAlive, StoreReady
  <2>2. CASE AddStopped \/ AddKnown \/ AddFtp \/ AddLive \/ AddConnect \/ AddRefused
    BY <2>2, Entering
  <2>3. CASE \E i \in Slots : Events(i) \/ CancelFile(i)
    BY <2>3, Advancing
  <2>4. CASE \/ AddIfNotExists \/ WaitReturns \/ StartFill \/ FillEnds
             \/ \E t \in ftp : FtpThreadEnds(t)
             \/ \E l \in Links : FillAdd(l)
             \/ MainWait \/ HoldWait \/ StopMirror \/ UNCHANGED vars
    BY <2>4 DEF AddIfNotExists, WaitReturns, StartFill, FillEnds, FtpThreadEnds, FillAdd,
                MainWait, HoldWait, StopMirror, vars
  <2> QED BY <2>1, <2>2, <2>3, <2>4
<1>2. ghost' \subseteq ghost
  <2>1. CASE CleanStep
    BY <2>1 DEF CleanStep, SweepWritten, SweepAlive, SweepOther, ParkReady, TrimAlive, StoreReady
  <2>2. CASE AddStopped \/ AddKnown \/ AddFtp \/ AddLive \/ AddConnect \/ AddRefused
    BY <2>2, Entering DEF Enters
  <2>3. CASE \E i \in Slots : Events(i) \/ CancelFile(i)
    BY <2>3, Advancing DEF Goes, Advances
  <2>4. CASE \/ AddIfNotExists \/ WaitReturns \/ StartFill \/ FillEnds
             \/ \E t \in ftp : FtpThreadEnds(t)
             \/ \E l \in Links : FillAdd(l)
             \/ MainWait \/ HoldWait \/ StopMirror \/ UNCHANGED vars
    BY <2>4 DEF AddIfNotExists, WaitReturns, StartFill, FillEnds, FtpThreadEnds, FillAdd,
                MainWait, HoldWait, StopMirror, vars, Calls
  <2> QED BY <2>1, <2>2, <2>3, <2>4
<1>3. SkippedMeansDone'
  <2>1. CASE SweepWritten
    <3>1. lk' = lk \/ lk' = [lk EXCEPT ![slot[call.i].link] = "done"]
      BY <2>1, SweepReleases
    <3> QED BY <3>1 DEF Plain, SkippedMeansDone, IInv, TypeOK
  <2>2. CASE ~SweepWritten
    <3>1. lk' = lk
      <4>1. CASE CleanStep
        BY <2>2, <4>1 DEF CleanStep, SweepAlive, SweepOther, ParkReady, TrimAlive, StoreReady
      <4>2. CASE AddStopped \/ AddKnown \/ AddFtp \/ AddLive \/ AddConnect \/ AddRefused
        BY <4>2, Entering
      <4>3. CASE \E i \in Slots : Events(i) \/ CancelFile(i)
        BY <4>3, Advancing
      <4>4. CASE \/ AddIfNotExists \/ WaitReturns \/ StartFill \/ FillEnds
                 \/ \E t \in ftp : FtpThreadEnds(t)
                 \/ \E l \in Links : FillAdd(l)
                 \/ MainWait \/ HoldWait \/ StopMirror \/ UNCHANGED vars
        BY <4>4 DEF AddIfNotExists, WaitReturns, StartFill, FillEnds, FtpThreadEnds, FillAdd,
                    MainWait, HoldWait, StopMirror, vars, Calls
      <4> QED BY <4>1, <4>2, <4>3, <4>4
    <3> QED BY <3>1 DEF Plain, SkippedMeansDone
  <2> QED BY <2>1, <2>2
<1>4. call'.at = "net" => call'.op = "wait"
  <2> SUFFICES ASSUME call'.at = "net"
               PROVE  call'.op = "wait"
    OBVIOUS
  <2>1. CASE SweepWritten \/ SweepAlive \/ SweepOther \/ ParkReady \/ TrimAlive
    <3>1. \/ call.at = "sweep" /\ Turn("park")
          \/ call.at = "park" /\ Turn("trim")
          \/ call.at = "trim" /\ Turn("store")
      BY <2>1 DEF SweepWritten, SweepAlive, SweepOther, ParkReady, TrimAlive
    <3>2. call'.at \in {"sweep", "park", "trim", "store"}
      BY <3>1 DEF Turn, IInv, TypeOK, CallType
    <3> QED BY <3>2
  <2>2. CASE StoreReady
    <3>1. \/ call' = [call EXCEPT !.i = call.i + 1]
          \/ call' = [call EXCEPT !.at = Body[call.op], !.i = 0]
      BY <2>2 DEF StoreReady
    <3>2. call \in CallType /\ call.at = "store"
      BY <2>2 DEF StoreReady, IInv, TypeOK
    <3>3. call'.at = Body[call.op] /\ call'.op = call.op
      BY <3>1, <3>2 DEF CallType
    <3> QED BY <3>2, <3>3 DEF Body, CallType, Ops
  <2>3. CASE AddIfNotExists
    BY <2>3 DEF AddIfNotExists, Idle, IInv, TypeOK, CallType
  <2>4. CASE \/ AddStopped \/ AddKnown \/ AddFtp \/ AddLive \/ AddConnect \/ AddRefused
             \/ WaitReturns
    BY <2>4, Entering DEF WaitReturns, Idle
  <2>5. CASE MainWait \/ HoldWait \/ \E l \in Links : FillAdd(l)
    BY <2>5 DEF MainWait, HoldWait, FillAdd, Begin
  <2>6. CASE \/ \E i \in Slots : Events(i) \/ CancelFile(i)
             \/ \E t \in ftp : FtpThreadEnds(t)
             \/ StartFill \/ FillEnds \/ StopMirror \/ UNCHANGED vars
    <3>1. call' = call
      BY <2>6, Advancing DEF FtpThreadEnds, StartFill, FillEnds, StopMirror, vars
    <3> QED BY <3>1 DEF Plain
  <2> QED BY <2>1, <2>2, <2>3, <2>4, <2>5, <2>6 DEF CleanStep
<1> QED BY <1>1, <1>2, <1>3, <1>4 DEF Plain

(* The engine: it skips a link only when the entry is gone, and gives up   *)
(* only when the pool is full.                                             *)
LEMMA PlainEngine ==
  ASSUME IInv, EntryInv, RoomInv,
         \/ FetchWait \/ FetchPause \/ FetchThaw \/ FetchGone
         \/ \E l \in Links : BeginFetch(l) \/ BeginType(l)
         \/ \E b \in Slots : Deliver(b) \/ DeliverRetry(b) \/ DeliverError(b) \/ DeliverBan(b)
         \/ TypeRestart \/ TypeHold \/ HoldNamed \/ HoldMoved \/ HoldRefused
         \/ HoldCancelled \/ Record \/ Finish
  PROVE  Plain'
<1>0. Plain /\ lk \in [Links -> LinkStates] /\ eng \in EngType
  BY DEF RoomInv, IInv, TypeOK
<1>1. /\ call.at = "idle" /\ (call' = call \/ call'.at = "sweep")
      /\ ghost' \subseteq ghost
      /\ eng' = InMain \/ eng'.mode \in Modes \ {"main", "panic"}
  <2>1. CASE \/ FetchWait \/ FetchPause \/ FetchThaw \/ FetchGone
             \/ \E l \in Links : BeginFetch(l) \/ BeginType(l)
    BY <1>0, <2>1 DEF FetchWait, FetchPause, FetchThaw, FetchGone, BeginFetch, BeginType,
                      Fetching, Ready, Begin, Calls, EngType, Modes
  <2>2. CASE \E b \in Slots : Deliver(b) \/ DeliverRetry(b) \/ DeliverError(b) \/ DeliverBan(b)
    BY <2>2, Delivering, Banning DEF Releases
  <2>3. CASE TypeRestart \/ HoldMoved \/ HoldCancelled
    <3>1. CASE TypeRestart
      BY <1>0, <3>1, Restarting DEF Begin, EngType, Modes
    <3>2. CASE HoldMoved \/ HoldCancelled
      BY <3>2, LetsGo DEF Releases, Modes
    <3> QED BY <2>3, <3>1, <3>2
  <2>4. CASE TypeHold \/ HoldNamed \/ HoldRefused
    BY <2>4, TakesHold, TakesName, LeavesIt DEF Modes
  <2>5. CASE Record \/ Finish
    BY <2>5 DEF Record, Finish, Ready, InMain, Modes
  <2> QED BY <2>1, <2>2, <2>3, <2>4, <2>5
<1>2. SkippedMeansDone'
  <2>1. CASE FetchGone
    <3>1. /\ eng.mode \in {"begin", "fetch"} /\ eng.link \in Links
          /\ InSlots(eng.link) = {} /\ InStore(eng.link, "final") = {}
          /\ lk' = IF lk[eng.link] = "recorded" THEN [lk EXCEPT ![eng.link] = "skipped"]
                   ELSE lk
      BY <2>1 DEF FetchGone, Fetching, IInv, Control
    <3>2. lk[eng.link] # "recorded"
      <4> SUFFICES ASSUME lk[eng.link] = "recorded"
                   PROVE  FALSE
        OBVIOUS
      <4>1. ~OwnAdd
        BY <1>1 DEF OwnAdd, Adding
      <4>2. HasEntry(eng.link)
        BY <3>1, <4>1 DEF RoomInv, KeepsEntry
      <4>3. PICK s \in stored : s.link = eng.link
        BY <3>1, <4>2 DEF HasEntry
      <4>4. s.kind = "final"
        BY <4>3 DEF EntryInv, FinalNames, Named
      <4> QED BY <3>1, <4>3, <4>4 DEF InStore
    <3> QED BY <1>0, <3>1, <3>2 DEF Plain, SkippedMeansDone
  <2>2. CASE \/ FetchWait \/ FetchPause \/ FetchThaw
             \/ \E l \in Links : BeginFetch(l) \/ BeginType(l)
             \/ TypeHold \/ HoldNamed \/ Finish
    <3>1. lk' = lk
      BY <2>2, TakesHold, TakesName
         DEF FetchWait, FetchPause, FetchThaw, BeginFetch, BeginType, Calls, Finish
    <3> QED BY <1>0, <3>1 DEF Plain, SkippedMeansDone
  <2>3. CASE \E b \in Slots : Deliver(b) \/ DeliverRetry(b) \/ DeliverError(b)
    <3>1. \/ lk' = lk
          \/ lk' = [lk EXCEPT ![eng.link] = "taken"]
          \/ lk' = [lk EXCEPT ![eng.link] = "answered"]
          \/ lk' = [lk EXCEPT ![eng.link] = "failed"]
      BY <2>3, Delivering
    <3> QED BY <1>0, <3>1 DEF Plain, SkippedMeansDone
  <2>4. CASE \E b \in Slots : DeliverBan(b)
    <3>1. \A l \in Links : lk'[l] \in {"failed", "banned", lk[l]}
      BY <2>4, Banning
    <3> QED BY <1>0, <3>1 DEF Plain, SkippedMeansDone
  <2>5. CASE TypeRestart \/ HoldMoved \/ HoldCancelled \/ HoldRefused \/ Record
    <3>1. \/ lk' = lk
          \/ lk' = [lk EXCEPT ![eng.link] = "refused"]
          \/ lk' = [lk EXCEPT ![eng.link] = "recorded"]
      BY <2>5, Restarting, LetsGo, LeavesIt DEF Record, Settle
    <3> QED BY <1>0, <3>1 DEF Plain, SkippedMeansDone
  <2> QED BY <2>1, <2>2, <2>3, <2>4, <2>5
<1> QED BY <1>0, <1>1, <1>2 DEF Plain, InMain

(* Every step keeps the room there is, and what it is needed for. *)
LEMMA RoomInvariance ==
  ASSUME IInv, EntryInv, IInv', EntryInv', Limits, Limits', RoomInv, Roomy, [Next]_vars
  PROVE  RoomInv'
<1>1. Cleaned' /\ Sparse'
  BY CleanedInvariance, SparseInvariance DEF RoomInv
<1>2. ~AddFull /\ ~ThawFails
  BY NothingFails
<1>3. KeepsEntry' /\ Plain'
  <2>1. CASE CleanStep
    <3>1. CASE SweepWritten \/ (StoreReady /\ ~UNCHANGED <<slot, stored, ghost>>)
      BY <2>1, <3>1, OtherEntryKept, PlainPool DEF RoomInv
    <3>2. CASE \/ SweepAlive \/ SweepOther \/ ParkReady \/ TrimAlive
               \/ StoreReady /\ UNCHANGED <<slot, stored, ghost>>
      BY <2>1, <3>2, SameEntryKept, PlainPool DEF RoomInv
    <3> QED BY <2>1, <3>1, <3>2 DEF CleanStep
  <2>2. CASE AddStep
    <3>1. CASE AddIfNotExists
      BY <3>1, SameEntryKept, PlainPool DEF RoomInv
    <3>2. CASE AddStopped \/ AddKnown \/ AddFtp \/ AddLive \/ AddConnect \/ AddRefused
      BY <3>2, OtherEntryKept, PlainPool DEF RoomInv
    <3> QED BY <1>2, <2>2, <3>1, <3>2 DEF AddStep
  <2>3. CASE \/ WaitReturns \/ FillEnds \/ StartFill
             \/ \E i \in Slots : Events(i) \/ CancelFile(i)
             \/ \E t \in ftp : FtpThreadEnds(t)
             \/ \E l \in Links : FillAdd(l)
             \/ MainWait \/ HoldWait \/ StopMirror \/ UNCHANGED vars
    BY <2>3, SameEntryKept, PlainPool DEF RoomInv
  <2>4. CASE FetchWait \/ FetchPause
    BY <2>4, SameEntryKept, PlainEngine
  <2>5. CASE FetchThaw \/ \E l \in Links : BeginFetch(l)
    BY <2>5, OtherEntryKept, PlainEngine
  <2>6. CASE \/ FetchGone \/ \E l \in Links : BeginType(l)
             \/ \E b \in Slots :
                  Deliver(b) \/ DeliverRetry(b) \/ DeliverError(b) \/ DeliverBan(b)
             \/ TypeRestart \/ TypeHold \/ HoldNamed \/ HoldMoved \/ HoldRefused
             \/ HoldCancelled \/ Record \/ Finish
    <3>1. eng'.mode \notin {"begin", "fetch"}
      <4>1. CASE FetchGone \/ (\E l \in Links : BeginType(l)) \/ Record \/ Finish
        BY <4>1 DEF FetchGone, BeginType, Record, Finish, InMain
      <4>2. CASE \E b \in Slots :
                   Deliver(b) \/ DeliverRetry(b) \/ DeliverError(b) \/ DeliverBan(b)
        BY <4>2, Delivering, Banning DEF InMain
      <4>3. CASE TypeRestart
        BY <4>3, Restarting DEF InMain, IInv, TypeOK, EngType
      <4>4. CASE HoldMoved \/ HoldCancelled
        BY <4>4, LetsGo DEF InMain
      <4>5. CASE TypeHold \/ HoldNamed
        BY <4>5, TakesHold, TakesName
      <4>6. CASE HoldRefused
        BY <4>6, LeavesIt DEF InMain
      <4> QED BY <2>6, <4>1, <4>2, <4>3, <4>4, <4>5, <4>6
    <3> QED BY <2>6, <3>1, PlainEngine DEF KeepsEntry
  <2>7. FetchStep \/ TypeStep =>
          \/ FetchWait \/ HoldWait \/ FetchThaw \/ FetchGone
          \/ \E b \in Slots :
               Deliver(b) \/ DeliverRetry(b) \/ DeliverError(b) \/ DeliverBan(b)
          \/ TypeRestart \/ TypeHold \/ HoldNamed \/ HoldMoved \/ HoldRefused
          \/ HoldCancelled \/ Record
    BY <1>2 DEF FetchStep, TypeStep
  <2> QED BY <2>1, <2>2, <2>3, <2>4, <2>5, <2>6, <2>7 DEF Next, EngineStep, Terminated
<1> QED BY <1>1, <1>3 DEF RoomInv

(* At first the pool is empty. *)
LEMMA RoomInitially ==
  ASSUME Init, IInv
  PROVE  RoomInv
<1>1. \A l : Crowd(l) = {}
  BY FreeSlotType DEF Init, Crowd, InUse
<1>2. Cardinality(Crowd(eng.link)) = 0
  BY <1>1, FS_EmptySet
<1>3. Sparse
  BY <1>2, PoolAssumption DEF Sparse
<1> QED BY <1>3 DEF Init, RoomInv, Cleaned, KeepsEntry, Plain, SkippedMeansDone, Idle, InMain

(* With room, the pool keeps it. *)
LEMMA RoomInductive ==
  ASSUME Roomy
  PROVE  Spec => [](IInv /\ EntryInv /\ Limits /\ RoomInv)
<1>1. Init /\ IInv => RoomInv
  BY RoomInitially
<1>2. /\ IInv /\ EntryInv /\ IInv' /\ EntryInv' /\ Limits /\ Limits' /\ RoomInv /\ [Next]_vars
      => RoomInv'
  BY RoomInvariance
<1>3. LimitInv => Limits
  BY DEF LimitInv
<1> QED BY <1>1, <1>2, <1>3, LimitsInductive, PTL DEF Spec

(* A link is never skipped for want of an entry: what the engine expects to*)
(* have been downloaded in the background has been.                        *)
THEOREM NothingSkipped ==
  ASSUME Roomy
  PROVE  Spec => []SkippedMeansDone
<1>1. RoomInv => SkippedMeansDone
  BY DEF RoomInv, Plain
<1> QED BY <1>1, RoomInductive, PTL

(* The mirror is never abandoned because the pool is full (back_add_if_not_*)
(* exists fails, and hts_wait_delayed panics).                             *)
THEOREM NeverFull ==
  ASSUME Roomy
  PROVE  Spec => [](eng.mode # "panic")
<1>1. RoomInv => eng.mode # "panic"
  BY DEF RoomInv, Plain
<1> QED BY <1>1, RoomInductive, PTL

(* The pool implements its promise: a link is fetched, and fetched again,  *)
(* only as Downloads allows, and its answer waits for the engine.          *)
THEOREM PromiseKept ==
  ASSUME Roomy
  PROVE  Spec => Promise
<1>1. IInv /\ EntryInv /\ Limits /\ RoomInv /\ [Next]_vars => [D!Next]_(D!vars)
  BY NothingFails, StepPromise
<1> QED BY <1>1, PromiseInitially, RoomInductive, PTL DEF Spec, Promise, D!Spec

(* What the promise says of one link. *)
LEMMA BecomesIs ==
  ASSUME NEW m \in Links, NEW t, NEW f, D!Becomes(m, t, f), NEW l \in Links
  PROVE  /\ Transfer(l)' = IF l = m THEN t ELSE Transfer(l)
         /\ FateOf(l)' = IF l = m THEN f ELSE FateOf(l)
BY DEF D!Becomes

(* What the promise means for a link that is settled. *)
LEMMA PromiseStays ==
  ASSUME [D!Next]_(D!vars), NEW l \in Links, FateOf(l) \notin D!Wanted
  PROVE  /\ FateOf(l)' = FateOf(l)
         /\ Transfer(l) = "none" => Transfer(l)' = "none"
<1> DEFINE Stays ==
      /\ FateOf(l)' = FateOf(l)
      /\ Transfer(l) = "none" => Transfer(l)' = "none"
<1>1. ASSUME NEW m \in Links, NEW t, NEW f, D!Becomes(m, t, f),
             m = l => f = FateOf(l) /\ (Transfer(l) = "none" => t = "none")
      PROVE  Stays
  BY <1>1, BecomesIs
<1>2. ASSUME NEW m \in Links,
             D!Start(m) \/ D!Arrive(m) \/ D!Name(m) \/ D!Withdraw(m) \/ D!Take(m) \/ D!Write(m)
      PROVE  Stays
  <2>1. CASE D!Start(m)
    <3>1. PICK t : D!Becomes(m, t, FateOf(m)) /\ FateOf(m) \in D!Wanted
      BY <2>1 DEF D!Start
    <3> QED BY <1>1, <3>1
  <2>2. CASE D!Arrive(m)
    <3>1. PICK t : D!Becomes(m, t, FateOf(m)) /\ Transfer(m) = "active"
      BY <2>2 DEF D!Arrive
    <3> QED BY <1>1, <3>1
  <2>3. CASE D!Name(m) \/ D!Withdraw(m) \/ D!Take(m)
    <3>1. FateOf(m) \in D!Wanted
      BY <2>3 DEF D!Name, D!Withdraw, D!Take, D!Wanted
    <3>2. PICK t, f : D!Becomes(m, t, f)
      BY <2>3 DEF D!Name, D!Withdraw, D!Take
    <3> QED BY <1>1, <3>1, <3>2
  <2>4. CASE D!Write(m)
    <3>1. D!Becomes(m, "none", IF FateOf(m) = "open" THEN "written" ELSE FateOf(m))
      BY <2>4 DEF D!Write
    <3>2. m = l => FateOf(m) # "open"
      BY DEF D!Wanted
    <3> QED BY <1>1, <3>1, <3>2
  <2> QED BY <1>2, <2>1, <2>2, <2>3, <2>4
<1>3. ASSUME NEW gone, NEW cut, NEW taken, D!Drop(gone, cut, taken)
      PROVE  Stays
  BY <1>3 DEF D!Drop, D!Wanted
<1>4. CASE D!Finish
  BY <1>4 DEF D!Finish
<1>5. CASE UNCHANGED D!vars
  BY <1>5 DEF D!vars
<1> QED BY <1>2, <1>3, <1>4, <1>5 DEF D!Next

(* A link that has been settled stays settled, and nothing is ever fetched *)
(* for it again (pass2 = -1 in the code, or the link gone from the heap).  *)
THEOREM Settled ==
  ASSUME Roomy
  PROVE  Spec => D!SettledForGood
<1> DEFINE xfer == [l \in Links |-> Transfer(l)]
           fate == [l \in Links |-> FateOf(l)]
           Stay == \A l \in Links :
                     fate[l] \notin D!Wanted =>
                       /\ fate'[l] = fate[l]
                       /\ xfer[l] = "none" => xfer'[l] = "none"
<1>1. [D!Next]_(D!vars) => [Stay]_(D!vars)
  BY PromiseStays
<1>2. Spec => [][Stay]_(D!vars)
  BY <1>1, PromiseKept, PTL DEF Promise, D!Spec
<1> QED BY <1>2 DEF D!SettledForGood

=============================================================================
