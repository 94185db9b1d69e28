-------------------------- MODULE HttpReceive_proofs --------------------------
(***************************************************************************)
(* Proofs about the reception of one answer, for every exchange: whatever  *)
(* is asked, is on disk and is sent, whatever goes wrong, and however the  *)
(* bytes arrive.  The invariant has two parts:                             *)
(*                                                                         *)
(*   Basic     what holds with any server: the types, which fields a status*)
(*             allows, that nothing is stored before the end, and that a   *)
(*             file begun keeps its reference.                             *)
(*   Honestly  what holds as long as the server sends what its headers say:*)
(*             there is a position in what it sends such that what was     *)
(*             read before it is on disk or in memory (Plainly, Chunkly),  *)
(*             what comes after it is what is still to come (Part), and    *)
(*             once it is over what is stored is whole (Outcome).  In      *)
(*             chunks, the position is before the size of a chunk, within  *)
(*             its data or after the last size (AtSize, InChunk, AtEnd).   *)
(*             Of the rest of a file in chunks, whose lengths go wrong,    *)
(*             only the position is known (InBody).                        *)
(***************************************************************************)
EXTENDS HttpReceive, SequenceTheorems, TLAPS

(* Before the headers have come. *)
Fresh ==
  slot.status = "headers" =>
    /\ slot.size = 0 /\ slot.total = -1 /\ slot.code = INVALID /\ slot.block = 0
    /\ ~slot.write /\ ~slot.alloc /\ ~slot.chunked
    /\ file = x.have

(* Until it is over the answer is not stored, and its connection is open.  *)
Going ==
  Busy =>
    /\ ~slot.final /\ slot.entry = 0 /\ ~slot.guessed /\ slot.soc = "open"
    /\ slot.write => slot.ref

(* While the body is received. *)
Taking ==
  Receiving =>
    /\ ~HeadersOnly /\ x.kind # "test" /\ x.code # 304
    /\ slot.chunked <=> x.framing = "chunked"
    /\ slot.status \in {"size", "crlf"} => slot.chunked
    /\ slot.code = IF x.code = 206 THEN 200 ELSE x.code
    /\ x.code = 206 => slot.write
    /\ slot.block = -1 => slot.status = "crlf"
    /\ slot.block = 0 => slot.status # "crlf" /\ (slot.chunked => slot.status = "size")

(* What is over was finalized if it is good; a file that was begun and is  *)
(* not stored has its reference.                                           *)
Ended ==
  Over =>
    /\ slot.final \/ ~Good(slot) \/ Tested
    /\ slot.write /\ slot.entry = 0 => slot.ref

(* A server that closes has sent all it had, unless it stopped before. *)
Closes == peer = "closed" => cut \/ wire = <<>>

Basic == TypeOK /\ Fresh /\ Going /\ Taking /\ Ended /\ Closes

-----------------------------------------------------------------------------
(* Types *)

(* What a sequence of tokens is. *)
LEMMA TokensAre ==
  ASSUME NEW s \in Seq(Tokens)
  PROVE  /\ Len(s) \in Nat /\ DOMAIN s = 1..Len(s)
         /\ \A i \in 1..Len(s) : s[i] \in Tokens /\ s[i].n \in Int
         /\ (s = <<>>) <=> Len(s) = 0
<1>1. /\ Len(s) \in Nat /\ DOMAIN s = 1..Len(s)
      /\ \A i \in 1..Len(s) : s[i] \in Tokens
  BY LenProperties, ElementOfSeq
<1>2. (s = <<>>) <=> Len(s) = 0
  BY EmptySeq
<1> QED BY <1>1, <1>2 DEF Tokens

(* What is left of a sequence is one. *)
LEMMA SkipType ==
  ASSUME NEW s \in Seq(Tokens), NEW n \in 0..Len(s)
  PROVE  /\ SubSeq(s, n + 1, Len(s)) \in Seq(Tokens)
         /\ Len(SubSeq(s, n + 1, Len(s))) = Len(s) - n
         /\ \A i \in 1..Len(s) - n : SubSeq(s, n + 1, Len(s))[i] = s[n + i]
<1>0. Len(s) \in Nat /\ n \in Nat
  BY TokensAre
<1>1. \A i \in n + 1..Len(s) : s[i] \in Tokens
  BY <1>0, TokensAre
<1>2. /\ SubSeq(s, n + 1, Len(s)) \in Seq(Tokens)
      /\ Len(SubSeq(s, n + 1, Len(s))) = IF n + 1 <= Len(s) THEN Len(s) - (n + 1) + 1 ELSE 0
      /\ \A i \in 1..Len(s) - (n + 1) + 1 : SubSeq(s, n + 1, Len(s))[i] = s[n + 1 + i - 1]
  BY <1>0, <1>1, SubSeqProperties
<1>3. IF n + 1 <= Len(s) THEN Len(s) - n = Len(s) - (n + 1) + 1 ELSE Len(s) - n = 0
  BY <1>0
<1>4. ASSUME NEW i \in 1..Len(s) - n
      PROVE  SubSeq(s, n + 1, Len(s))[i] = s[n + i]
  <2>1. i \in 1..Len(s) - (n + 1) + 1 /\ n + 1 + i - 1 = n + i
    BY <1>0
  <2> QED BY <1>2, <2>1
<1> QED BY <1>2, <1>3, <1>4

(* So is its beginning. *)
LEMMA CutType ==
  ASSUME NEW S, NEW s \in Seq(S), NEW k \in 0..Len(s)
  PROVE  /\ SubSeq(s, 1, k) \in Seq(S)
         /\ Len(SubSeq(s, 1, k)) = k
         /\ \A i \in 1..k : SubSeq(s, 1, k)[i] = s[i]
<1>0. Len(s) \in Nat /\ k \in Nat /\ \A i \in 1..k : s[i] \in S
  BY LenProperties, ElementOfSeq
<1>1. /\ SubSeq(s, 1, k) \in Seq(S)
      /\ Len(SubSeq(s, 1, k)) = IF 1 <= k THEN k - 1 + 1 ELSE 0
      /\ \A i \in 1..k - 1 + 1 : SubSeq(s, 1, k)[i] = s[1 + i - 1]
  BY <1>0, SubSeqProperties
<1> QED BY <1>0, <1>1

(* The content of bytes. *)
LEMMA ContentType ==
  ASSUME TypeOK, NEW n \in 1..Len(wire)
  PROVE  Content(n) \in Seq(Int) /\ Len(Content(n)) = n
         /\ \A i \in 1..n : Content(n)[i] = wire[i].n
<1>1. \A i \in 1..n : wire[i].n \in Int
  BY TokensAre DEF TypeOK
<1>2. n \in Nat
  BY TokensAre DEF TypeOK
<1>3. Content(n) \in [1..n -> Int]
  BY <1>1 DEF Content
<1>4. Content(n) \in Seq(Int)
  BY <1>2, <1>3
<1> QED BY <1>2, <1>3, <1>4, LenProperties DEF Content

(* What is appended to a file leaves one. *)
LEMMA AppendType ==
  ASSUME NEW f \in Seq(Int), NEW c \in Seq(Int)
  PROVE  f \o c \in Seq(Int)
BY ConcatProperties

(* An exchange has these parts. *)
LEMMA ExchangeType ==
  ASSUME x \in Exchanges
  PROVE  /\ x.kind \in Kinds /\ x.page \in BOOLEAN /\ x.have \in Seq(Int)
         /\ x.code \in Nat \ {0} /\ x.framing \in Framings /\ x.length \in Nat
         /\ x.keep \in BOOLEAN /\ x.body \in Seq(Int) /\ x.wire \in Seq(Tokens)
         /\ Len(x.have) \in Nat /\ Len(x.body) \in Nat
         /\ x.code = 206 => ~x.page
<1>1. x \in [kind : Kinds, page : BOOLEAN, have : Seq(Int), code : Nat \ {0},
        framing : Framings, length : Nat, keep : BOOLEAN, body : Seq(Int),
        wire : Seq(Tokens)]
  BY ExchangesAssumption
<1>2. /\ x.kind \in Kinds /\ x.page \in BOOLEAN /\ x.have \in Seq(Int)
         /\ x.code \in Nat \ {0} /\ x.framing \in Framings /\ x.length \in Nat
         /\ x.keep \in BOOLEAN /\ x.body \in Seq(Int) /\ x.wire \in Seq(Tokens)
  BY <1>1
<1> QED BY <1>2, ExchangesAssumption, LenProperties

(* The codes of errors are codes. *)
LEMMA CodesAre ==
  {INVALID, TIMEOUT, SLOW, CONNERROR, NON_FATAL, TOO_BIG, TEST_OK, 200} \subseteq Codes
BY DEF Codes, INVALID, TIMEOUT, SLOW, CONNERROR, NON_FATAL, TOO_BIG, TEST_OK

(* A slot has these parts. *)
LEMMA SlotType ==
  ASSUME NEW s \in Slot
  PROVE  /\ s.status \in {"headers", "body", "size", "crlf", "ready", "free"}
         /\ s.code \in Codes /\ s.code \in Int /\ s.code # 0 /\ s.size \in Nat
         /\ s.total \in Int /\ s.total >= -1 /\ s.block \in Int /\ s.block >= -1
         /\ s.write \in BOOLEAN /\ s.alloc \in BOOLEAN /\ s.chunked \in BOOLEAN
         /\ s.guessed \in BOOLEAN /\ s.ref \in BOOLEAN /\ s.final \in BOOLEAN
         /\ s.entry \in Codes \cup {0} /\ s.kept \in Nat
         /\ s.soc \in {"open", "parked", "closed"}
BY DEF Slot, Codes

(* A slot with another part is one. *)
LEMMA SlotWith ==
  ASSUME NEW u \in Slot
  PROVE  /\ \A c \in {"headers", "body", "size", "crlf", "ready", "free"} :
              [u EXCEPT !.status = c] \in Slot
         /\ \A c \in Codes : [u EXCEPT !.code = c] \in Slot
         /\ \A n \in Nat : [u EXCEPT !.size = n] \in Slot
         /\ \A n \in Nat \cup {-1} : [u EXCEPT !.total = n] \in Slot
         /\ \A n \in Nat \cup {-1} : [u EXCEPT !.block = n] \in Slot
         /\ \A c \in BOOLEAN : [u EXCEPT !.alloc = c] \in Slot
         /\ \A c \in {"open", "parked", "closed"} : [u EXCEPT !.soc = c] \in Slot
BY DEF Slot

(* Finalizing keeps the type. *)
LEMMA FinalizeType ==
  ASSUME NEW s \in Slot
  PROVE  Finalize(s) \in Slot
<1> DEFINE d == [s EXCEPT !.final = TRUE, !.ref = s.ref /\ ~s.write]
<1>1. [s EXCEPT !.final = TRUE] \in Slot
  BY DEF Slot
<1>2. (s.ref /\ ~s.write) \in BOOLEAN
  OBVIOUS
<1>3. d \in Slot
  BY <1>2 DEF Slot
<1>4. s.code \in Codes \cup {0} /\ s.size \in Nat
  BY DEF Slot
<1>5. \A u \in Slot, c \in Codes \cup {0}, k \in Nat : [u EXCEPT !.entry = c, !.kept = k] \in Slot
  BY DEF Slot
<1>6. Finalize(s) \in {s, [s EXCEPT !.final = TRUE], d, [d EXCEPT !.entry = s.code, !.kept = s.size]}
  BY DEF Finalize
<1>7. [d EXCEPT !.entry = s.code, !.kept = s.size] \in Slot
  <2> HIDE DEF d
  <2> QED BY <1>3, <1>4, <1>5
<1> HIDE DEF d
<1> QED BY <1>1, <1>3, <1>6, <1>7

(* What finalizing does. *)
LEMMA FinalizeIs ==
  ASSUME NEW s \in Slot, ~s.final
  PROVE  LET t == Finalize(s) IN
         /\ t.final /\ t.status = s.status /\ t.code = s.code /\ t.size = s.size
         /\ t.total = s.total /\ t.write = s.write /\ t.alloc = s.alloc
         /\ t.guessed = s.guessed /\ t.soc = s.soc /\ t.block = s.block
         /\ t.chunked = s.chunked
         /\ IF ~WrongLength(s) /\ s.status = "ready" /\ Good(s) /\ ~Tested
            THEN /\ t.ref = (s.ref /\ ~s.write)
                 /\ t.entry = IF s.guessed THEN s.entry ELSE s.code
                 /\ t.kept = IF s.guessed THEN s.kept ELSE s.size
            ELSE t.ref = s.ref /\ t.entry = s.entry
BY DEF Finalize, Slot

(* Once is enough. *)
LEMMA FinalizeOnce ==
  ASSUME NEW s \in Slot, s.final
  PROVE  Finalize(s) = s
BY DEF Finalize

(* The end of a reception. *)
LEMMA EndsIs ==
  ASSUME NEW s \in Slot, ~s.final, s.entry = 0, ~s.guessed, s.soc \in {"open", "closed"},
         NEW error \in BOOLEAN, NEW t \in Ends(s, error)
  PROVE  /\ t \in Slot /\ t.status = "ready" /\ ~t.guessed
         /\ t.write = s.write /\ t.size = s.size /\ t.total = s.total
         /\ t.soc \in {"parked", "closed"}
         /\ t.soc = "parked" => s.soc = "open" /\ ~error /\ s.code >= 0 /\ x.keep
         /\ error => t.code = CONNERROR
         /\ error \/ ~Good(s) => t.code < 0 /\ t.entry = 0 /\ t.ref = s.ref
         /\ ~error /\ Good(s) =>
              /\ t.final
              /\ WrongLength(s) \/ Tested => t.entry = 0 /\ t.ref = s.ref
              /\ WrongLength(s) => t.code = IF s.size < s.total THEN CONNERROR ELSE s.code
              /\ ~WrongLength(s) => t.code = s.code /\ t.alloc = s.alloc
              /\ ~WrongLength(s) /\ ~Tested => t.entry = s.code /\ t.kept = s.size
<1> DEFINE r == Ready([s EXCEPT !.code = IF error THEN CONNERROR ELSE s.code])
<1>1. /\ r \in Slot /\ r.status = "ready" /\ ~r.guessed /\ ~r.final /\ r.entry = 0
      /\ r.code = (IF error THEN CONNERROR ELSE s.code)
      /\ r.write = s.write /\ r.size = s.size /\ r.total = s.total /\ r.alloc = s.alloc
      /\ r.soc = s.soc /\ r.ref = s.ref
  <2> DEFINE c == IF error THEN CONNERROR ELSE s.code
             q == [s EXCEPT !.code = c]
  <2>1. c \in Codes
    BY CodesAre, SlotType
  <2>2. r = [q EXCEPT !.status = "ready"]
    BY DEF Ready
  <2> HIDE DEF c, r
  <2>3. q \in Slot
    BY <2>1, SlotWith
  <2>4. /\ q.code = c /\ q.guessed = s.guessed /\ q.final = s.final /\ q.entry = s.entry
        /\ q.write = s.write /\ q.size = s.size /\ q.total = s.total /\ q.alloc = s.alloc
        /\ q.soc = s.soc /\ q.ref = s.ref
    BY <2>1, <2>3 DEF Slot
  <2> HIDE DEF q
  <2>5. r \in Slot
    BY <2>2, <2>3, SlotWith
  <2>6. /\ r.status = "ready" /\ r.code = q.code /\ r.guessed = q.guessed
        /\ r.final = q.final /\ r.entry = q.entry
        /\ r.write = q.write /\ r.size = q.size /\ r.total = q.total /\ r.alloc = q.alloc
        /\ r.soc = q.soc /\ r.ref = q.ref
    BY <2>2, <2>3, <2>5 DEF Slot
  <2> QED BY <2>4, <2>5, <2>6 DEF c
<1>2. \E p \in IF r.soc = "open" THEN AfterPark(r) ELSE {r} :
        t = Measured(IF Good(p) THEN Finalize(p) ELSE p)
  BY DEF Ends
<1> HIDE DEF r
<1>3. PICK p \in Slot :
        /\ t = Measured(IF Good(p) THEN Finalize(p) ELSE p)
        /\ p.status = "ready" /\ ~p.guessed /\ ~p.final /\ p.entry = 0
        /\ p.code = (IF error THEN CONNERROR ELSE s.code)
        /\ p.write = s.write /\ p.size = s.size /\ p.total = s.total /\ p.alloc = s.alloc
        /\ p.ref = s.ref /\ p.soc \in {"parked", "closed"}
        /\ p.soc = "parked" => s.soc = "open" /\ p.code >= 0 /\ x.keep
  <2>1. PICK p \in IF r.soc = "open" THEN AfterPark(r) ELSE {r} :
          t = Measured(IF Good(p) THEN Finalize(p) ELSE p)
    BY <1>2
  <2>2. CASE r.soc = "open"
    <3>1. PICK c \in Kept(r) : p = [r EXCEPT !.soc = c]
      BY <2>1, <2>2 DEF AfterPark
    <3>2. c \in {"parked", "closed"} /\ (c = "parked" => r.code >= 0 /\ x.keep)
      BY <3>1 DEF Kept, MayPark
    <3>3. p \in Slot
      BY <1>1, <3>1, <3>2 DEF Slot
    <3> QED BY <1>1, <2>1, <2>2, <3>1, <3>2, <3>3 DEF Slot
  <2>3. CASE r.soc # "open"
    BY <1>1, <2>1, <2>3
  <2> QED BY <2>2, <2>3
<1> DEFINE f == IF Good(p) THEN Finalize(p) ELSE p
<1>4. /\ f \in Slot /\ f.status = "ready" /\ ~f.guessed /\ f.code = p.code
      /\ f.write = s.write /\ f.size = s.size /\ f.total = s.total /\ f.alloc = s.alloc
      /\ f.soc = p.soc
      /\ ~Good(p) => f.entry = 0 /\ f.ref = s.ref
      /\ Good(p) => f.final
      /\ Good(p) /\ (WrongLength(p) \/ Tested) => f.entry = 0 /\ f.ref = s.ref
      /\ Good(p) /\ ~WrongLength(p) /\ ~Tested => f.entry = p.code /\ f.kept = p.size
  BY <1>3, FinalizeIs, FinalizeType
<1> HIDE DEF f
<1>5. WrongLength(f) = WrongLength(s) /\ WrongLength(p) = WrongLength(s)
  BY <1>3, <1>4 DEF WrongLength
<1>6. t = IF ~WrongLength(f) THEN f
          ELSE [f EXCEPT !.alloc = FALSE, !.code = IF f.size < f.total THEN CONNERROR ELSE f.code]
  BY <1>3 DEF Measured, f
<1>7. Good(p) = (~error /\ Good(s))
  BY <1>3 DEF Good, CONNERROR
<1>8. p.code \in Int /\ p.code # 0 /\ s.size \in Nat /\ s.total \in Int /\ s.code \in Int
  BY <1>3, SlotType
<1>9. /\ t \in Slot /\ t.status = "ready" /\ ~t.guessed /\ t.write = s.write
      /\ t.size = s.size /\ t.total = s.total /\ t.soc = p.soc /\ t.entry = f.entry
      /\ t.ref = f.ref /\ t.final = f.final /\ t.kept = f.kept
      /\ t.code = (IF WrongLength(s) /\ s.size < s.total THEN CONNERROR ELSE p.code)
      /\ ~WrongLength(s) => t.alloc = s.alloc
  <2>1. CASE WrongLength(f)
    <3>1. \A c \in Codes : [f EXCEPT !.alloc = FALSE, !.code = c] \in Slot
      BY <1>4 DEF Slot
    <3>2. f.code \in Codes /\ CONNERROR \in Codes
      BY <1>4, CodesAre DEF Slot
    <3>3. t \in Slot
      BY <1>6, <2>1, <3>1, <3>2
    <3>4. PICK c \in Codes : /\ c = IF f.size < f.total THEN CONNERROR ELSE f.code
                            /\ t = [f EXCEPT !.alloc = FALSE, !.code = c]
      BY <1>6, <2>1, <3>2
    <3>5. /\ t.status = f.status /\ t.guessed = f.guessed /\ t.write = f.write
          /\ t.size = f.size /\ t.total = f.total /\ t.soc = f.soc /\ t.entry = f.entry
          /\ t.ref = f.ref /\ t.final = f.final /\ t.kept = f.kept
      BY <1>4, <3>3, <3>4 DEF Slot
    <3>6. t.code = c
      BY <1>4, <3>3, <3>4 DEF Slot
    <3> QED BY <1>4, <1>5, <2>1, <3>3, <3>4, <3>5, <3>6
  <2>2. CASE ~WrongLength(f)
    BY <1>4, <1>5, <1>6, <2>2
  <2> QED BY <2>1, <2>2
<1>10. error => t.code = CONNERROR
  BY <1>3, <1>9
<1>11. error \/ ~Good(s) => t.code < 0 /\ t.entry = 0 /\ t.ref = s.ref
  BY <1>3, <1>4, <1>7, <1>8, <1>9 DEF Good, CONNERROR
<1>12. t.soc = "parked" => s.soc = "open" /\ ~error /\ s.code >= 0 /\ x.keep
  BY <1>3, <1>8, <1>9 DEF CONNERROR
<1> QED BY <1>3, <1>4, <1>5, <1>7, <1>9, <1>10, <1>11, <1>12

-----------------------------------------------------------------------------
(* The headers *)

(* What has been read of the headers. *)
LEMMA GotType ==
  ASSUME TypeOK
  PROVE  /\ Got \in Slot /\ Got.status = slot.status /\ Got.code = x.code
         /\ Got.size = slot.size /\ Got.write = slot.write /\ Got.alloc = slot.alloc
         /\ Got.guessed = slot.guessed /\ Got.ref = slot.ref /\ Got.final = slot.final
         /\ Got.entry = slot.entry /\ Got.soc = slot.soc /\ Got.block = slot.block
         /\ Got.chunked = slot.chunked
         /\ Got.total = IF x.framing = "length" THEN x.length ELSE -1
<1>1. x.code \in Codes /\ x.length \in Nat
  BY ExchangeType DEF TypeOK, Codes
<1>2. (IF x.framing = "length" THEN x.length ELSE -1) \in Nat \cup {-1}
  BY <1>1
<1>3. \A c \in Codes, n \in Nat \cup {-1} : [slot EXCEPT !.code = c, !.total = n] \in Slot
  BY DEF TypeOK, Slot
<1>4. Got \in Slot
  BY <1>1, <1>2, <1>3 DEF Got
<1> QED BY <1>4 DEF Got, TypeOK, Slot

(* The token of the headers is consumed. *)
LEMMA HeadGone ==
  ASSUME TypeOK, wire # <<>>, wire' = Tail(wire)
  PROVE  /\ wire' \in Seq(Tokens) /\ 1 \in 0..Len(wire)
         /\ wire' = SubSeq(wire, 2, Len(wire)) /\ Head(wire) = wire[1]
<1>1. wire \in Seq(Tokens)
  BY DEF TypeOK
<1>2. /\ wire' \in Seq(Tokens) /\ wire' = SubSeq(wire, 2, Len(wire))
  BY <1>1, HeadTailProperties, TailIsSubSeq
<1>3. Head(wire) = wire[1]
  BY <1>1
<1>4. 1 \in 0..Len(wire)
  BY <1>1, TokensAre
<1> QED BY <1>2, <1>3, <1>4

(* An answer that fails: it is over with an error, not stored, and its     *)
(* connection is closed.                                                   *)
Fails ==
  /\ slot' \in Slot /\ slot'.status = "ready" /\ slot'.code < 0 /\ slot'.entry = 0
  /\ ~slot'.guessed /\ slot'.soc = "closed" /\ (slot'.write => slot'.ref)

(* An answer that fails keeps what it was, but for its code. *)
LEMMA FailsWhole ==
  ASSUME TypeOK, Going, Busy,
         NEW c \in {INVALID, TIMEOUT, SLOW, NON_FATAL, TOO_BIG},
         \/ slot' = Closed(Ready([slot EXCEPT !.code = c]))
         \/ slot' = Closed(Ready([Got EXCEPT !.code = c]))
  PROVE  Fails /\ slot'.write = slot.write
<1>1. c \in Codes /\ c < 0
  BY CodesAre DEF INVALID, TIMEOUT, SLOW, NON_FATAL, TOO_BIG
<1>2. PICK s \in {slot, Got} : slot' = Closed(Ready([s EXCEPT !.code = c]))
  OBVIOUS
<1>3. /\ s \in Slot /\ s.entry = 0 /\ ~s.guessed /\ (s.write => s.ref) /\ s.write = slot.write
  BY <1>2, GotType DEF TypeOK, Going
<1> QED BY <1>1, <1>2, <1>3 DEF Fails, Closed, Ready, Slot

(* An answer that fails leaves the rest of the invariant.                  *)
LEMMA FailsBasic ==
  ASSUME Basic, Fails, x' = x, cut' = cut, peer' = peer, wire' \in Seq(Tokens),
         file' \in Seq(Int), wire = <<>> => wire' = <<>>
  PROVE  Basic'
<1>1. TypeOK'
  BY DEF Basic, Fails, TypeOK
<1>2. Fresh' /\ Going' /\ Taking'
  BY DEF Fails, Fresh, Going, Taking, Busy, Receiving
<1>3. Ended'
  BY <1>1, SlotType DEF Fails, Ended, Over, Good
<1>4. Closes'
  BY DEF Basic, Closes
<1> QED BY <1>1, <1>2, <1>3, <1>4 DEF Basic

(* What the slot keeps until it is over. *)
Intact(s) ==
  s \in Slot /\ ~s.final /\ s.entry = 0 /\ ~s.guessed /\ (s.write => s.ref)

(* The step leaves the exchange alone, and types the rest. *)
Frame ==
  /\ x' = x /\ cut' = cut /\ peer' = peer
  /\ wire' \in Seq(Tokens) /\ file' \in Seq(Int)
  /\ wire = <<>> => wire' = <<>>

(* The end of a reception keeps the invariant. *)
LEMMA EndsBasic ==
  ASSUME Basic, Frame, NEW s, Intact(s), s.soc \in {"open", "closed"},
         NEW error \in BOOLEAN, slot' \in Ends(s, error)
  PROVE  Basic'
<1>1. /\ slot' \in Slot /\ slot'.status = "ready"
      /\ slot'.write = s.write
      /\ error \/ ~Good(s) => slot'.code < 0 /\ slot'.ref = s.ref
      /\ ~error /\ Good(s) =>
           /\ slot'.final
           /\ WrongLength(s) \/ Tested => slot'.ref = s.ref
           /\ ~WrongLength(s) /\ ~Tested => slot'.entry = s.code
  BY EndsIs DEF Intact
<1>2. TypeOK'
  BY <1>1 DEF Basic, Frame, TypeOK
<1>3. Fresh' /\ Going' /\ Taking'
  BY <1>1 DEF Fresh, Going, Taking, Busy, Receiving
<1>4. Ended'
  <2>1. s.code \in Int /\ s.code # 0 /\ slot'.code \in Int
    BY <1>1, SlotType DEF Intact
  <2>2. slot'.final \/ ~(slot'.code > 0)
    BY <1>1, <2>1 DEF Good
  <2>3. slot'.write /\ slot'.entry = 0 => slot'.ref
    BY <1>1, <2>1 DEF Good, Intact
  <2> QED BY <2>2, <2>3 DEF Ended, Good
<1>5. Closes'
  BY DEF Basic, Closes, Frame
<1> QED BY <1>2, <1>3, <1>4, <1>5 DEF Basic

(* The reception goes on. *)
Continues ==
  /\ slot' \in Slot /\ slot'.status \in {"body", "size", "crlf"}
  /\ slot'.status \in {"size", "crlf"} => slot.chunked
  /\ slot'.chunked = slot.chunked /\ slot'.code = slot.code /\ slot'.soc = slot.soc
  /\ ~slot'.final /\ slot'.entry = 0 /\ ~slot'.guessed /\ (slot'.write => slot'.ref)
  /\ slot.write => slot'.write
  /\ slot'.block = -1 => slot'.status = "crlf"
  /\ slot'.block = 0 => slot'.status # "crlf" /\ (slot.chunked => slot'.status = "size")

(* A reception that goes on keeps the first part of the invariant. *)
LEMMA ContinuesBasic ==
  ASSUME Basic, Frame, Receiving, Continues
  PROVE  Basic'
<1>1. TypeOK'
  BY DEF Basic, Frame, TypeOK, Continues
<1>2. Fresh'
  BY DEF Continues, Fresh
<1>3. Going'
  BY DEF Basic, Going, Busy, Receiving, Continues
<1>4. Taking'
  BY DEF Basic, Taking, Receiving, Continues, HeadersOnly, Frame
<1>5. Ended' /\ Closes'
  BY DEF Basic, Continues, Ended, Over, Closes, Frame
<1> QED BY <1>1, <1>2, <1>3, <1>4, <1>5 DEF Basic

-----------------------------------------------------------------------------
(* The steps of the headers *)

(* The interim answer. *)
LEMMA InterimBasic ==
  ASSUME Basic, HeadStep, Interim, UNCHANGED <<x, cut>>
  PROVE  Basic' /\ slot' = slot /\ file' = file
<1>1. TypeOK /\ wire # <<>> /\ wire' = Tail(wire) /\ slot.status = "headers"
  BY DEF Basic, HeadStep, Interim
<1>2. slot' = slot
  BY <1>1 DEF Basic, Interim, Fresh, TypeOK, Slot
<1>3. wire' \in Seq(Tokens)
  BY <1>1, HeadGone
<1>4. TypeOK'
  BY <1>1, <1>2, <1>3 DEF TypeOK, Interim, HeadStep
<1>5. Fresh' /\ Going' /\ Taking' /\ Ended'
  BY <1>1, <1>2 DEF Basic, Fresh, Going, Taking, Ended, Busy, Receiving, Over, Interim,
     HeadersOnly, Good, Tested
<1>6. Closes'
  BY <1>1 DEF Basic, Closes, HeadStep
<1> QED BY <1>1, <1>2, <1>4, <1>5, <1>6 DEF Basic, Interim

(* The headers are consumed. *)
LEMMA HeadFrame ==
  ASSUME Basic, HeadStep, UNCHANGED <<x, cut>>
  PROVE  Frame /\ file' = file /\ slot.status = "headers" /\ wire # <<>>
<1>1. slot.status = "headers" /\ wire # <<>> /\ file' = file
  BY DEF HeadStep, Interim, TooBig, TestHead, NotModified, AlreadyComplete, Start,
     PartialStart, PartialRefused, AtHead
<1>2. wire' \in Seq(Tokens)
  BY <1>1, HeadGone DEF Basic, HeadStep
<1> QED BY <1>1, <1>2 DEF Basic, TypeOK, Frame, HeadStep

(* The answer is too big, or the rest of the file cannot be appended. *)
LEMMA HeadFails ==
  ASSUME Basic, HeadStep, TooBig \/ PartialRefused, UNCHANGED <<x, cut>>
  PROVE  Basic' /\ Fails /\ ~slot'.write
<1>1. slot.status = "headers" /\ Frame
  BY HeadFrame
<1>2. Busy /\ ~slot.write /\ Going /\ TypeOK
  BY <1>1 DEF Basic, Busy, Fresh
<1>3. \E c \in {INVALID, TIMEOUT, SLOW, NON_FATAL, TOO_BIG} :
        slot' = Closed(Ready([Got EXCEPT !.code = c]))
  BY DEF TooBig, PartialRefused
<1>4. Fails /\ ~slot'.write
  BY <1>2, <1>3, FailsWhole
<1> QED BY <1>1, <1>4, FailsBasic DEF Frame

(* A test ends with its headers. *)
LEMMA TestHeadBasic ==
  ASSUME Basic, HeadStep, TestHead, UNCHANGED <<x, cut>>
  PROVE  /\ Basic' /\ slot'.status = "ready" /\ slot'.entry = 0 /\ Tested
         /\ ~slot'.write /\ ~slot'.alloc
<1>1. slot.status = "headers" /\ Frame
  BY HeadFrame
<1>2. /\ Got \in Slot /\ ~Got.write /\ ~Got.alloc /\ Got.entry = 0
  BY <1>1, GotType DEF Basic, Busy, Fresh, Going
<1>3. /\ slot' \in Slot /\ slot'.status = "ready" /\ ~slot'.write /\ ~slot'.alloc /\ slot'.entry = 0
  BY <1>2 DEF TestHead, Ready, Slot
<1>4. Tested
  BY DEF TestHead, HeadersOnly, Tested
<1>5. TypeOK' /\ Fresh' /\ Going' /\ Taking'
  BY <1>1, <1>3 DEF Basic, Frame, TypeOK, Fresh, Going, Taking, Busy, Receiving
<1>6. Ended' /\ Closes'
  BY <1>1, <1>3, <1>4 DEF Basic, Frame, Ended, Closes, Over, Tested
<1> QED BY <1>3, <1>4, <1>5, <1>6 DEF Basic

(* The file on disk is the answer. *)
LEMMA DiskBasic ==
  ASSUME Basic, HeadStep, NotModified \/ AlreadyComplete, UNCHANGED <<x, cut>>
  PROVE  /\ Basic' /\ slot'.status = "ready" /\ slot'.code = 200
         /\ ~Tested => slot'.entry = 200 \/ slot'.guessed
         /\ ~slot'.write /\ ~slot'.alloc
         /\ AlreadyComplete => slot'.soc = "closed"
<1>1. slot.status = "headers" /\ Frame /\ file \in Seq(Int)
  BY HeadFrame DEF Basic, TypeOK
<1>2. /\ Got \in Slot /\ ~Got.write /\ ~Got.alloc /\ Got.entry = 0 /\ ~Got.final
  BY <1>1, GotType DEF Basic, Busy, Fresh, Going
<1>3. PICK cached \in BOOLEAN :
        \/ AlreadyComplete /\ slot' = Finalize(Closed(FromDisk(cached)))
        \/ ~AlreadyComplete /\ slot' = Finalize(FromDisk(cached))
  <2>1. CASE AlreadyComplete
    BY <2>1 DEF AlreadyComplete
  <2>2. CASE ~AlreadyComplete
    BY <2>2 DEF NotModified
  <2> QED BY <2>1, <2>2
<1>4. PICK s \in {FromDisk(cached), Closed(FromDisk(cached))} :
        slot' = Finalize(s) /\ (AlreadyComplete => s.soc = "closed")
  <2>2. Closed(FromDisk(cached)).soc = "closed"
    BY <1>2 DEF Closed, FromDisk, Ready, Slot
  <2> QED BY <1>3, <2>2
<1>5. /\ s \in Slot /\ s.status = "ready" /\ s.code = 200 /\ s.guessed = ~cached
      /\ ~s.write /\ ~s.alloc /\ s.size = s.total /\ s.entry = 0 /\ ~s.final
  <2>1. Len(file) \in Nat /\ 200 \in Codes
    BY <1>1, CodesAre, LenProperties
  <2>2. ASSUME NEW u \in Slot, NEW c \in Codes, NEW g \in BOOLEAN, NEW n \in Nat
        PROVE  [u EXCEPT !.code = c, !.guessed = g, !.size = n, !.total = n] \in Slot
    BY DEF Slot
  <2>3. ASSUME NEW u \in Slot PROVE [u EXCEPT !.status = "ready"] \in Slot
    BY DEF Slot
  <2> DEFINE g == [Got EXCEPT !.code = 200, !.guessed = ~cached, !.size = Len(file),
                     !.total = Len(file)]
             f == FromDisk(cached)
  <2>13. \A u \in Slot, n \in Nat :
           [u EXCEPT !.code = 200, !.guessed = ~cached, !.size = n, !.total = n] \in Slot
    <3>1. CASE cached
      <4>1. (~cached) = FALSE
        BY <3>1
      <4> QED BY <2>1, <2>2, <4>1, ZenonT(30)
    <3>2. CASE ~cached
      <4>1. (~cached) = TRUE
        BY <3>2
      <4> QED BY <2>1, <2>2, <4>1, ZenonT(30)
    <3> QED BY <3>1, <3>2
  <2>4. g \in Slot
    BY <1>2, <2>1, <2>13, ZenonT(30)
  <2>9. /\ g.code = 200 /\ g.guessed = ~cached /\ ~g.write /\ ~g.alloc
        /\ g.size = g.total /\ g.entry = 0 /\ ~g.final
    BY <1>2 DEF Slot
  <2>10. f = [g EXCEPT !.status = "ready"]
    BY DEF FromDisk, Ready
  <2> HIDE DEF g, f
  <2>11. f \in Slot
    BY <2>3, <2>4, <2>10
  <2>12. /\ f.status = "ready" /\ f.code = 200 /\ f.guessed = ~cached
         /\ ~f.write /\ ~f.alloc /\ f.size = f.total /\ f.entry = 0 /\ ~f.final
    BY <2>4, <2>9, <2>10 DEF Slot
  <2>5. \A u \in Slot :
          LET w == [u EXCEPT !.soc = "closed"]
          IN /\ w \in Slot /\ w.status = u.status /\ w.code = u.code
             /\ w.guessed = u.guessed /\ w.size = u.size /\ w.total = u.total
             /\ w.write = u.write /\ w.alloc = u.alloc /\ w.entry = u.entry
             /\ w.final = u.final
    BY DEF Slot
  <2>6. s \in {f, Closed(f)}
    BY DEF f
  <2>7. CASE s = f
    BY <2>11, <2>12, <2>7
  <2>8. CASE s = Closed(f)
    BY <2>5, <2>8, <2>11, <2>12 DEF Closed
  <2> QED BY <2>6, <2>7, <2>8
<1>6. /\ slot' \in Slot /\ slot'.final /\ slot'.status = "ready" /\ slot'.code = 200
      /\ slot'.guessed = s.guessed /\ ~slot'.write /\ ~slot'.alloc /\ slot'.soc = s.soc
      /\ ~Tested => slot'.entry = IF s.guessed THEN s.entry ELSE 200
  BY <1>4, <1>5, FinalizeIs, FinalizeType DEF WrongLength, Good
<1>7. TypeOK' /\ Fresh' /\ Going' /\ Taking'
  BY <1>1, <1>6 DEF Basic, Frame, TypeOK, Fresh, Going, Taking, Busy, Receiving
<1>8. Ended' /\ Closes'
  BY <1>1, <1>6 DEF Basic, Frame, Ended, Closes, Over
<1> QED BY <1>4, <1>6, <1>7, <1>8 DEF Basic

(* What the status becomes after the headers of the slot s. *)
Started(s, t) ==
  /\ t \in Slot /\ t.write = s.write /\ t.size = s.size /\ ~t.guessed
  /\ x.kind = "test" =>
       /\ t.status = "ready" /\ t.soc = "closed" /\ t.entry = 0 /\ t.ref = s.ref
  /\ x.kind # "test" /\ x.framing = "length" /\ x.length = 0 =>
       /\ t.status = "ready" /\ t.final /\ t.code = s.code
       /\ WrongLength(s) \/ Tested => t.entry = 0 /\ t.ref = s.ref
       /\ ~WrongLength(s) /\ ~Tested => t.entry = s.code /\ t.kept = s.size
  /\ x.kind # "test" /\ ~(x.framing = "length" /\ x.length = 0) =>
       /\ x.framing = "chunked" => t.status = "size" /\ t.chunked /\ t.total = -1
       /\ x.framing # "chunked" =>
            t.status = "body" /\ t.chunked = s.chunked /\ t.total = s.total
       /\ t.code = s.code /\ t.soc = "open" /\ ~t.final /\ t.entry = 0
       /\ t.ref = s.ref /\ t.block = s.block /\ t.alloc = s.alloc

(* What StartBody makes of a slot. *)
LEMMA StartBodyIs ==
  ASSUME x \in Exchanges, NEW s, Intact(s), s.soc = "open", s.code # 304, Good(s),
         NEW t \in StartBody(s)
  PROVE  Started(s, t)
<1>0. s \in Slot /\ ~s.final /\ s.entry = 0 /\ ~s.guessed /\ s.code \in Codes /\ TEST_OK \in Codes
  BY CodesAre DEF Intact, Slot
<1>1. CASE x.kind = "test"
  <2>1. \A c \in Codes : [s EXCEPT !.code = c] \in Slot
    BY <1>0 DEF Slot
  <2>2. PICK c \in Codes : t = Closed(Ready([s EXCEPT !.code = c]))
    BY <1>0, <1>1 DEF StartBody
  <2> DEFINE u == [s EXCEPT !.code = c]
  <2>3. /\ u \in Slot /\ u.write = s.write /\ u.size = s.size /\ ~u.guessed
        /\ u.entry = 0 /\ u.ref = s.ref
    BY <1>0, <2>1 DEF Slot
  <2>4. t = [[u EXCEPT !.status = "ready"] EXCEPT !.soc = "closed"]
    BY <2>2 DEF Closed, Ready
  <2> HIDE DEF u
  <2>5. t \in Slot
    BY <2>3, <2>4, SlotWith
  <2>6. /\ t.write = u.write /\ t.size = u.size /\ t.guessed = u.guessed
        /\ t.entry = u.entry /\ t.ref = u.ref /\ t.status = "ready" /\ t.soc = "closed"
    BY <2>3, <2>4, <2>5 DEF Slot
  <2> QED BY <1>1, <2>3, <2>5, <2>6 DEF Started
<1>2. CASE x.kind # "test" /\ x.framing = "length" /\ x.length = 0
  <2>1. PICK p \in AfterPark(s) : t = Finalize(Ready([p EXCEPT !.alloc = TRUE]))
    BY <1>2 DEF StartBody
  <2>2. PICK c \in {"parked", "closed"} : p = [s EXCEPT !.soc = c]
    BY <2>1 DEF AfterPark, Kept
  <2> DEFINE r == Ready([p EXCEPT !.alloc = TRUE])
  <2>3. /\ p \in Slot /\ ~p.final /\ p.entry = 0 /\ ~p.guessed
        /\ p.code = s.code /\ p.size = s.size /\ p.total = s.total /\ p.write = s.write
        /\ p.ref = s.ref
    BY <1>0, <2>2 DEF Slot
  <2>8. r \in Slot
    BY <2>3, SlotWith DEF Ready
  <2>4. /\ ~r.final /\ r.entry = 0 /\ ~r.guessed /\ r.status = "ready"
        /\ r.code = s.code /\ r.size = s.size /\ r.total = s.total /\ r.write = s.write
        /\ r.ref = s.ref
    BY <2>3, <2>8 DEF Ready, Slot
  <2>5. t = Finalize(r)
    BY <2>1
  <2> HIDE DEF r
  <2>6. WrongLength(r) = WrongLength(s) /\ Good(r)
    BY <2>4 DEF WrongLength, Good
  <2>7. t \in Slot
    BY <2>5, <2>8, FinalizeType
  <2> QED BY <1>2, <2>4, <2>5, <2>6, <2>7, <2>8, FinalizeIs DEF Started
<1>3. CASE x.kind # "test" /\ ~(x.framing = "length" /\ x.length = 0)
  <2>1. t = IF x.framing = "chunked"
            THEN [s EXCEPT !.status = "size", !.chunked = TRUE, !.total = -1]
            ELSE [s EXCEPT !.status = "body"]
    BY <1>3 DEF StartBody
  <2>2. CASE x.framing = "chunked"
    <3>1. t = [s EXCEPT !.status = "size", !.chunked = TRUE, !.total = -1]
      BY <2>1, <2>2
    <3>2. t \in Slot
      <4>1. s \in Slot
        BY <1>0
      <4> QED BY ONLY <4>1, <3>1 DEF Slot
    <3>3. t.status = "size" /\ t.chunked = TRUE /\ t.total = -1
      BY <1>0, <3>1, <3>2 DEF Slot
    <3>4. /\ t.write = s.write /\ t.size = s.size /\ t.guessed = s.guessed
          /\ t.code = s.code /\ t.soc = s.soc /\ t.final = s.final /\ t.entry = s.entry
          /\ t.ref = s.ref /\ t.block = s.block /\ t.alloc = s.alloc
      BY <1>0, <3>1, <3>2 DEF Slot
    <3> QED BY <1>0, <1>3, <2>2, <3>2, <3>3, <3>4 DEF Started
  <2>3. CASE x.framing # "chunked"
    BY <1>0, <1>3, <2>1, <2>3 DEF Slot, Intact, Started
  <2> QED BY <2>2, <2>3
<1> QED BY <1>1, <1>2, <1>3

(* The beginning of a body. *)
LEMMA StartIs ==
  ASSUME Basic, HeadStep, Start \/ PartialStart, UNCHANGED <<x, cut>>
  PROVE  \E s \in Slot :
           /\ Intact(s) /\ s.soc = "open" /\ Good(s) /\ slot' \in StartBody(s)
           /\ s.block = 0 /\ ~s.chunked /\ ~s.alloc /\ s.code # 304
           /\ s.code = IF x.code = 206 THEN 200 ELSE x.code
           /\ s.write <=> x.code = 206
           /\ s.size = IF x.code = 206 THEN Len(x.have) ELSE 0
           /\ s.total = IF x.framing = "length" THEN x.length + s.size ELSE -1
<1>1. slot.status = "headers" /\ x \in Exchanges /\ file = x.have
  BY HeadFrame DEF Basic, TypeOK, Fresh
<1>2. /\ x.code # 304 /\ x.length \in Nat
  BY <1>1, ExchangeType DEF Start, PartialStart
<1>3. /\ Got \in Slot /\ Intact(Got) /\ Got.soc = "open" /\ Good(Got) /\ Got.block = 0
      /\ ~Got.chunked /\ ~Got.write /\ ~Got.alloc /\ Got.code = x.code /\ Got.size = 0
      /\ Got.total = IF x.framing = "length" THEN x.length ELSE -1
  BY <1>1, GotType, ExchangeType DEF Basic, Busy, Fresh, Going, Intact, Good
<1>4. CASE Start
  <2>1. x.code # 206 /\ slot' \in StartBody(Got)
    BY <1>4 DEF Start
  <2>2. Got.total = IF x.framing = "length" THEN x.length + Got.size ELSE -1
    BY <1>2, <1>3
  <2> QED BY <1>2, <1>3, <2>1, <2>2
<1>5. CASE PartialStart
  <2> DEFINE n == IF Got.total >= 0 THEN Got.total + Len(file) ELSE -1
             s == [Got EXCEPT !.code = 200, !.write = TRUE, !.ref = TRUE,
                     !.size = Len(file), !.total = n]
  <2>1. Len(file) \in Nat /\ 200 \in Codes
    BY <1>1, ExchangeType, CodesAre
  <2>2. n \in Nat \cup {-1} /\ n = IF x.framing = "length" THEN x.length + Len(file) ELSE -1
    BY <1>2, <1>3, <2>1
  <2>3. slot' \in StartBody(s) /\ x.code = 206
    BY <1>5 DEF PartialStart
  <2> HIDE DEF n
  <2>4. \A k \in Nat, m \in Nat \cup {-1} :
          [Got EXCEPT !.code = 200, !.write = TRUE, !.ref = TRUE, !.size = k, !.total = m]
            \in Slot
    BY <1>3, <2>1, ZenonT(30) DEF Slot
  <2>5. s \in Slot
    BY <2>1, <2>2, <2>4, ZenonT(30)
  <2>6. /\ s.soc = Got.soc /\ s.block = Got.block /\ s.chunked = Got.chunked
        /\ s.final = Got.final /\ s.entry = Got.entry /\ s.guessed = Got.guessed
        /\ s.alloc = Got.alloc
    BY <1>3, <2>5 DEF Slot
  <2>7. s.code = 200 /\ s.write /\ s.ref /\ s.size = Len(file) /\ s.total = n
    BY <1>3, <2>5 DEF Slot
  <2> HIDE DEF s
  <2>8. Intact(s) /\ Good(s)
    BY <1>3, <2>5, <2>6, <2>7 DEF Intact, Good
  <2> QED BY <1>1, <1>3, <2>2, <2>3, <2>5, <2>6, <2>7, <2>8
<1> QED BY <1>4, <1>5

(* The start of a body keeps it as well. *)
LEMMA StartBasic ==
  ASSUME Basic, HeadStep, Start \/ PartialStart, UNCHANGED <<x, cut>>
  PROVE  Basic'
<1>1. slot.status = "headers" /\ Frame /\ x \in Exchanges
  BY HeadFrame DEF Basic, TypeOK
<1>2. ~HeadersOnly /\ x.code # 304
  BY DEF Start, PartialStart
<1>3. PICK s \in Slot :
               /\ Intact(s) /\ s.soc = "open" /\ Good(s) /\ slot' \in StartBody(s)
               /\ s.block = 0 /\ ~s.chunked /\ s.code # 304
               /\ s.code = IF x.code = 206 THEN 200 ELSE x.code
               /\ x.code = 206 => s.write
  BY StartIs
<1>4. Started(s, slot')
  BY <1>1, <1>3, StartBodyIs
<1>5. TypeOK' /\ Closes'
  BY <1>1, <1>4 DEF Basic, Frame, TypeOK, Started, Closes
<1>6. s.write => s.ref
  BY <1>3 DEF Intact
<1>7. CASE x.kind = "test"
  <2>1. Fresh' /\ Going' /\ Taking'
    BY <1>4, <1>7 DEF Started, Fresh, Going, Taking, Busy, Receiving
  <2>2. Ended'
    BY <1>1, <1>4, <1>6, <1>7 DEF Started, Ended, Over, Tested, Frame
  <2> QED BY <1>5, <2>1, <2>2 DEF Basic
<1>8. CASE x.kind # "test" /\ x.framing = "length" /\ x.length = 0
  <2>1. Fresh' /\ Going' /\ Taking'
    BY <1>4, <1>8 DEF Started, Fresh, Going, Taking, Busy, Receiving
  <2>2. Ended'
    BY <1>3, <1>4, <1>6, <1>8, ExchangeType, <1>1 DEF Started, Ended, Over, Good
  <2> QED BY <1>5, <2>1, <2>2 DEF Basic
<1>9. CASE x.kind # "test" /\ ~(x.framing = "length" /\ x.length = 0)
  <2>1. slot'.status \in {"size", "body"} /\ slot'.soc = "open"
    BY <1>4, <1>9 DEF Started
  <2>2. Fresh' /\ Ended'
    BY <2>1 DEF Fresh, Ended, Over
  <2>3. Going'
    BY <1>4, <1>6, <1>9, <2>1 DEF Started, Going
  <2>4. Taking'
    <3>1. /\ ~HeadersOnly' /\ x'.kind # "test" /\ x'.code # 304
          /\ slot'.code = IF x'.code = 206 THEN 200 ELSE x'.code
          /\ x'.code = 206 => slot'.write
      BY <1>1, <1>2, <1>3, <1>4, <1>9 DEF Started, HeadersOnly, Frame
    <3>2. slot'.block = 0 /\ (slot'.chunked <=> x'.framing = "chunked")
      BY <1>1, <1>3, <1>4, <1>9 DEF Started, Frame
    <3>3. /\ slot'.status = "size" => slot'.chunked
          /\ slot'.chunked => slot'.status = "size"
          /\ slot'.status # "crlf"
      BY <1>1, <1>3, <1>4, <1>9 DEF Started, Frame
    <3> QED BY <2>1, <3>1, <3>2, <3>3 DEF Taking
  <2> QED BY <1>5, <2>2, <2>3, <2>4 DEF Basic
<1> QED BY <1>7, <1>8, <1>9

-----------------------------------------------------------------------------
(* The steps of the body *)

(* While an answer comes its slot is as it was made. *)
LEMMA BusyIs ==
  ASSUME Basic, Busy
  PROVE  /\ Intact(slot) /\ slot \in Slot /\ slot.soc = "open" /\ x \in Exchanges
         /\ wire \in Seq(Tokens) /\ Len(wire) \in Nat /\ file \in Seq(Int)
         /\ slot.size \in Nat /\ slot.total \in Int /\ slot.total >= -1
         /\ slot.block \in Int /\ slot.block >= -1 /\ slot.code \in Int
BY SlotType, TokensAre DEF Basic, TypeOK, Going, Intact

(* Receiving is busy. *)
LEMMA ReceivingBusy == Receiving => Busy
BY DEF Receiving, Busy

(* The slot once its file is open. *)
LEMMA OpenedIs ==
  ASSUME Basic, Busy
  PROVE  /\ Opened \in Slot /\ Intact(Opened) /\ Opened.soc = "open"
         /\ Opened.status = slot.status /\ Opened.code = slot.code
         /\ Opened.size = slot.size /\ Opened.total = slot.total
         /\ Opened.block = slot.block /\ Opened.alloc = slot.alloc
         /\ Opened.chunked = slot.chunked
         /\ Opened.write <=> (slot.write \/ Opens)
         /\ OpenedFile \in Seq(Int)
         /\ Receiving \/ (Opened = slot /\ OpenedFile = file)
<1>1. Intact(slot) /\ slot \in Slot /\ slot.soc = "open" /\ file \in Seq(Int)
  BY BusyIs
<1>2. OpenedFile \in Seq(Int)
  BY <1>1, EmptySeq DEF OpenedFile
<1>3. CASE Opens
  <2>1. Opened = [slot EXCEPT !.write = TRUE, !.ref = TRUE]
    BY <1>3 DEF Opened
  <2>2. Opened \in Slot
    BY <1>1, <2>1 DEF Slot
  <2>3. /\ Opened.status = slot.status /\ Opened.code = slot.code
         /\ Opened.size = slot.size /\ Opened.total = slot.total
         /\ Opened.block = slot.block /\ Opened.alloc = slot.alloc
         /\ Opened.chunked = slot.chunked /\ Opened.soc = slot.soc
         /\ Opened.final = slot.final /\ Opened.entry = slot.entry
         /\ Opened.guessed = slot.guessed
    BY <1>1, <2>1, <2>2 DEF Slot
  <2>4. Opened.write /\ Opened.ref
    BY <1>1, <2>1, <2>2 DEF Slot
  <2>5. Receiving
    <3>1. slot.status \in {"headers", "body", "size", "crlf", "ready", "free"}
      BY <1>1, SlotType
    <3>2. slot.status # "headers"
      BY <1>3 DEF Opens, Basic, Fresh, INVALID
    <3> QED BY <3>1, <3>2 DEF Busy, Receiving
  <2>6. Intact(Opened)
    BY <1>1, <2>2, <2>3, <2>4 DEF Intact
  <2>7. Opened.write <=> (slot.write \/ Opens)
    BY <1>3, <2>4
  <2> QED BY <1>1, <1>2, <2>2, <2>3, <2>5, <2>6, <2>7
<1>4. CASE ~Opens
  <2>1. Opened = slot /\ OpenedFile = file
    BY <1>4 DEF Opened, OpenedFile
  <2> QED BY <1>1, <1>2, <1>4, <2>1
<1> QED BY <1>3, <1>4

(* The slot after n more bytes. *)
LEMMA LongerIs ==
  ASSUME Basic, Busy, NEW n \in Nat
  PROVE  /\ Longer(n) \in Slot /\ Intact(Longer(n)) /\ Longer(n).soc = "open"
         /\ Longer(n).status = slot.status /\ Longer(n).code = slot.code
         /\ Longer(n).size = slot.size + n /\ Longer(n).total = slot.total
         /\ Longer(n).block = slot.block /\ Longer(n).chunked = slot.chunked
         /\ Longer(n).write <=> (slot.write \/ Opens)
         /\ Longer(n).alloc <=> (slot.alloc \/ ~Opened.write)
<1> DEFINE o == Opened
<1>1. /\ o \in Slot /\ Intact(o) /\ o.soc = "open"
      /\ o.status = slot.status /\ o.code = slot.code
      /\ o.size = slot.size /\ o.total = slot.total
      /\ o.block = slot.block /\ o.alloc = slot.alloc
      /\ o.chunked = slot.chunked
      /\ o.write <=> (slot.write \/ Opens)
  BY OpenedIs
<1>2. o.size + n \in Nat
  BY <1>1, SlotType
<1>3. PICK a \in BOOLEAN : a <=> (o.alloc \/ ~o.write)
  OBVIOUS
<1>4. Longer(n) = [o EXCEPT !.size = o.size + n, !.alloc = o.alloc \/ ~o.write]
  BY DEF Longer
<1> HIDE DEF o
<1>5. Longer(n) = [o EXCEPT !.size = o.size + n, !.alloc = a]
  <2>1. o.alloc \in BOOLEAN /\ o.write \in BOOLEAN
    BY <1>1, SlotType
  <2>2. a = (o.alloc \/ ~o.write)
    BY <1>3, <2>1
  <2> QED BY <1>4, <2>2
<1>6. Longer(n) \in Slot
  BY <1>1, <1>2, <1>5 DEF Slot
<1>7. /\ Longer(n).status = o.status /\ Longer(n).code = o.code
      /\ Longer(n).total = o.total /\ Longer(n).block = o.block
      /\ Longer(n).chunked = o.chunked /\ Longer(n).write = o.write
      /\ Longer(n).ref = o.ref /\ Longer(n).final = o.final
      /\ Longer(n).entry = o.entry /\ Longer(n).guessed = o.guessed
      /\ Longer(n).soc = o.soc
  BY <1>1, <1>5, <1>6 DEF Slot
<1>8. Longer(n).size = o.size + n /\ Longer(n).alloc = a
  BY <1>1, <1>5, <1>6 DEF Slot
<1>9. Intact(Longer(n))
  BY <1>1, <1>6, <1>7 DEF Intact
<1> QED BY <1>1, <1>3, <1>6, <1>7, <1>8, <1>9 DEF o

(* The data that come are consumed, and written. *)
LEMMA SkipFrame ==
  ASSUME Basic, Busy, NEW n \in 1..Len(wire), Skip(n), UNCHANGED <<x, cut, peer>>,
         Written(n) \/ file' \in {file, OpenedFile}
  PROVE  Frame
<1>1. /\ wire \in Seq(Tokens) /\ Len(wire) \in Nat /\ file \in Seq(Int)
      /\ OpenedFile \in Seq(Int)
  BY BusyIs, OpenedIs
<1>2. wire' \in Seq(Tokens)
  BY <1>1, SkipType DEF Skip
<1>3. file' \in Seq(Int)
  <2>1. CASE Written(n)
    BY <1>1, <2>1, ContentType, AppendType DEF Written, Basic
  <2>2. CASE file' \in {file, OpenedFile}
    BY <1>1, <2>2
  <2> QED BY <2>1, <2>2
<1>4. wire # <<>>
  BY <1>1, TokensAre
<1> QED BY <1>2, <1>3, <1>4 DEF Frame

(* Nothing is consumed. *)
LEMMA StayFrame ==
  ASSUME Basic, UNCHANGED <<x, cut, wire, peer, file>>
  PROVE  Frame
BY DEF Basic, TypeOK, Frame

(* The file cannot be created. *)
LEMMA CreateFailsBasic ==
  ASSUME Basic, CreateFails, UNCHANGED <<x, cut>>
  PROVE  /\ Basic' /\ Frame /\ Intact(Closed(slot)) /\ Closed(slot).soc = "closed"
         /\ slot' \in Ends(Closed(slot), FALSE)
         /\ Closed(slot).code = slot.code /\ Closed(slot).size = slot.size
         /\ Closed(slot).total = slot.total /\ Closed(slot).write = slot.write
         /\ Closed(slot).alloc = slot.alloc
<1>1. Busy /\ Frame /\ slot' \in Ends(Closed(slot), FALSE)
  BY ReceivingBusy, StayFrame DEF CreateFails
<1>2. Intact(slot) /\ slot \in Slot
  BY <1>1, BusyIs
<1>3. Closed(slot) \in Slot
  BY <1>2, SlotWith DEF Closed
<1>4. /\ Closed(slot).soc = "closed"
      /\ Closed(slot).code = slot.code /\ Closed(slot).size = slot.size
      /\ Closed(slot).total = slot.total /\ Closed(slot).write = slot.write
      /\ Closed(slot).alloc = slot.alloc
      /\ Closed(slot).final = slot.final /\ Closed(slot).entry = slot.entry
      /\ Closed(slot).ref = slot.ref /\ Closed(slot).guessed = slot.guessed
  BY <1>2, <1>3 DEF Closed, Slot
<1>5. Intact(Closed(slot))
  BY <1>2, <1>3, <1>4 DEF Intact
<1> QED BY <1>1, <1>4, <1>5, EndsBasic

(* Bytes of a body come. *)
LEMMA ReadBodyBasic ==
  ASSUME Basic, ReadBody, UNCHANGED <<x, cut>>
  PROVE  Basic'
<1>1. Receiving /\ Busy /\ slot.status = "body" /\ ~slot.chunked
  BY ReceivingBusy DEF ReadBody, Receiving
<1>2. PICK n \in 1..Len(wire) :
        /\ Skip(n) /\ Written(n)
        /\ slot' \in IF Longer(n).size = Longer(n).total
                      THEN Ends(Longer(n), FALSE) ELSE {Longer(n)}
  BY DEF ReadBody
<1>3. Frame
  BY <1>1, <1>2, SkipFrame DEF ReadBody
<1>4. n \in Nat
  BY <1>1, BusyIs
<1> DEFINE s == Longer(n)
<1>5. /\ s \in Slot /\ Intact(s) /\ s.soc = "open" /\ s.status = "body"
      /\ s.code = slot.code /\ s.block = slot.block /\ s.chunked = slot.chunked
      /\ s.write <=> (slot.write \/ Opens)
  BY <1>1, <1>4, LongerIs
<1>6. slot' \in IF s.size = s.total THEN Ends(s, FALSE) ELSE {s}
  BY <1>2
<1> HIDE DEF s
<1>7. CASE slot' \in Ends(s, FALSE)
  BY <1>3, <1>5, <1>7, EndsBasic
<1>8. CASE slot' = s
  <2>1. slot.soc = "open"
    BY <1>1, BusyIs
  <2>2. slot.block = -1 => slot.status = "crlf"
    BY <1>1 DEF Basic, Taking
  <2>3. Continues
    BY <1>1, <1>5, <1>8, <2>1, <2>2 DEF Continues, Intact
  <2> QED BY <1>1, <1>3, <2>3, ContinuesBasic
<1> QED BY <1>6, <1>7, <1>8

(* The disk refuses bytes. *)
LEMMA WriteFailsBasic ==
  ASSUME Basic, WriteFails, UNCHANGED <<x, cut>>
  PROVE  Basic' /\ Frame /\ file' = OpenedFile
         /\ \E s \in Slot, error \in BOOLEAN :
              Intact(s) /\ s.soc = "open" /\ s.code = INVALID /\ slot' \in Ends(s, error)
              /\ (s.write <=> (slot.write \/ Opens)) 
<1>1. Receiving /\ Busy
  BY ReceivingBusy DEF WriteFails, Receiving
<1>2. PICK n \in 1..Len(wire) :
        /\ Skip(n) /\ file' = OpenedFile
        /\ \E error \in BOOLEAN : slot' \in Ends([Longer(n) EXCEPT !.code = INVALID], error)
  <2>1. PICK n \in 1..Len(wire) :
        /\ Skip(n) /\ file' = OpenedFile
        /\ LET s == [Longer(n) EXCEPT !.code = INVALID]
           IN slot' \in Ends(s, s.size # s.total)
    BY DEF WriteFails
  <2> DEFINE s == [Longer(n) EXCEPT !.code = INVALID]
  <2>2. slot' \in Ends(s, s.size # s.total)
    BY <2>1
  <2> HIDE DEF s
  <2>3. CASE s.size = s.total
    <3>1. (s.size # s.total) = FALSE
      BY <2>3
    <3>2. slot' \in Ends(s, FALSE)
      BY <2>2, <3>1
    <3> QED BY <2>1, <3>2 DEF s
  <2>4. CASE s.size # s.total
    <3>1. (s.size # s.total) = TRUE
      BY <2>4
    <3>2. slot' \in Ends(s, TRUE)
      BY <2>2, <3>1
    <3> QED BY <2>1, <3>2 DEF s
  <2> QED BY <2>3, <2>4
<1>3. Frame
  BY <1>1, <1>2, SkipFrame DEF WriteFails
<1>4. n \in Nat
  BY <1>1, BusyIs
<1> DEFINE l == Longer(n)
           s == [l EXCEPT !.code = INVALID]
<1>5. /\ l \in Slot /\ Intact(l) /\ l.soc = "open"
      /\ l.write <=> (slot.write \/ Opens)
  BY <1>1, <1>4, LongerIs
<1>6. \E error \in BOOLEAN : slot' \in Ends(s, error)
  BY <1>2
<1> HIDE DEF l
<1>7. s \in Slot
  BY <1>5, SlotWith, CodesAre
<1>8. /\ s.soc = l.soc /\ s.code = INVALID /\ s.write = l.write /\ s.final = l.final
      /\ s.entry = l.entry /\ s.guessed = l.guessed /\ s.ref = l.ref
  BY <1>5, <1>7 DEF Slot
<1>9. Intact(s) /\ s.soc = "open" /\ s.code = INVALID /\ (s.write <=> (slot.write \/ Opens))
  BY <1>5, <1>7, <1>8 DEF Intact
<1> HIDE DEF s
<1>10. PICK error \in BOOLEAN : slot' \in Ends(s, error)
  BY <1>6
<1>11. Basic'
  BY <1>3, <1>9, <1>10, EndsBasic
<1> QED BY <1>2, <1>3, <1>7, <1>9, <1>10, <1>11

(* Bytes of a chunk come. *)
LEMMA ReadChunkBasic ==
  ASSUME Basic, ReadChunk, UNCHANGED <<x, cut>>
  PROVE  Basic'
<1>1. Receiving /\ Busy /\ slot.status = "body" /\ slot.chunked
  BY ReceivingBusy DEF ReadChunk, Receiving
<1>2. PICK n \in 1..Missing :
        /\ Bytes(n) /\ Skip(n) /\ Written(n)
        /\ slot' = IF n = Missing THEN [Longer(n) EXCEPT !.status = "crlf"]
                                  ELSE Longer(n)
  BY DEF ReadChunk
<1>3. n \in Nat /\ n \in 1..Len(wire)
  BY <1>1, <1>2, BusyIs DEF Missing, Bytes
<1>4. Frame
  BY <1>1, <1>2, <1>3, SkipFrame DEF ReadChunk
<1> DEFINE s == Longer(n)
<1>5. /\ s \in Slot /\ Intact(s) /\ s.soc = "open" /\ s.status = "body"
      /\ s.code = slot.code /\ s.block = slot.block /\ s.chunked = slot.chunked
      /\ s.write <=> (slot.write \/ Opens)
  BY <1>1, <1>3, LongerIs
<1>6. PICK c \in {"body", "crlf"} : slot' = [s EXCEPT !.status = c]
  <2>1. s = [s EXCEPT !.status = "body"]
    BY <1>5 DEF Slot
  <2> QED BY <1>2, <2>1
<1> HIDE DEF s
<1>7. slot' \in Slot
  BY <1>5, <1>6, SlotWith
<1>8. /\ slot'.soc = s.soc /\ slot'.code = s.code /\ slot'.block = s.block
      /\ slot'.chunked = s.chunked /\ slot'.write = s.write /\ slot'.ref = s.ref
      /\ slot'.final = s.final /\ slot'.entry = s.entry /\ slot'.guessed = s.guessed
      /\ slot'.status = c
  BY <1>5, <1>6, <1>7 DEF Slot
<1>9. slot.soc = "open" /\ slot.block # -1 /\ slot.block # 0
  BY <1>1, BusyIs DEF Basic, Taking
<1>10. Continues
  BY <1>1, <1>5, <1>6, <1>7, <1>8, <1>9 DEF Continues, Intact
<1> QED BY <1>1, <1>4, <1>10, ContinuesBasic

(* The status alone changes, or what is in memory. *)
LEMMA StepBasic ==
  ASSUME Basic, Receiving, slot.chunked, slot.status = "body", Frame,
         NEW c \in {"body", "crlf"}, NEW a \in BOOLEAN, NEW n \in Nat,
         slot' = [slot EXCEPT !.alloc = a, !.size = n, !.status = c]
  PROVE  Basic'
<1>1. Intact(slot) /\ slot \in Slot /\ slot.soc = "open"
  BY BusyIs, ReceivingBusy
<1>2. slot.block # -1 /\ slot.block # 0
  BY DEF Basic, Taking
<1>3. slot' \in Slot
  BY <1>1 DEF Slot
<1>4. /\ slot'.soc = slot.soc /\ slot'.code = slot.code /\ slot'.block = slot.block
      /\ slot'.chunked = slot.chunked /\ slot'.write = slot.write /\ slot'.ref = slot.ref
      /\ slot'.final = slot.final /\ slot'.entry = slot.entry /\ slot'.guessed = slot.guessed
      /\ slot'.status = c
  BY <1>1, <1>3 DEF Slot
<1>5. Continues
  BY <1>1, <1>2, <1>3, <1>4 DEF Continues, Intact
<1> QED BY <1>5, ContinuesBasic

(* So does the end of the data of a chunk. *)
LEMMA ChunkFullBasic ==
  ASSUME Basic, ChunkFull, UNCHANGED <<x, cut>>
  PROVE  Basic'
<1>1. Receiving /\ Busy /\ slot.status = "body" /\ slot.chunked
  BY ReceivingBusy DEF ChunkFull, Receiving
<1>2. Frame
  BY StayFrame DEF ChunkFull
<1>3. slot \in Slot
  BY <1>1, BusyIs
<1>4. slot' = [slot EXCEPT !.alloc = slot.alloc, !.size = slot.size, !.status = "crlf"]
  BY <1>3 DEF ChunkFull, Slot
<1> QED BY <1>1, <1>2, <1>3, <1>4, StepBasic, SlotType

(* So does the memory that is reserved instead. *)
LEMMA ReserveBasic ==
  ASSUME Basic, Reserve, UNCHANGED <<x, cut>>
  PROVE  Basic'
<1>1. Receiving /\ Busy /\ slot.status = "body" /\ slot.chunked
  BY ReceivingBusy DEF Reserve, Receiving
<1>2. Frame
  BY StayFrame DEF Reserve
<1>3. Intact(slot) /\ slot \in Slot /\ slot.soc = "open"
  BY <1>1, BusyIs
<1>4. CASE slot.alloc
  BY <1>2, <1>3, <1>4, EndsBasic DEF Reserve
<1>5. CASE ~slot.alloc
  <2>1. slot' = [slot EXCEPT !.alloc = TRUE, !.size = 0, !.status = "body"]
    <3>1. slot' = [slot EXCEPT !.alloc = TRUE, !.size = 0]
      BY <1>5 DEF Reserve
    <3> QED BY <1>1, <1>3, <3>1 DEF Slot
  <2> QED BY <1>1, <1>2, <2>1, StepBasic
<1> QED BY <1>4, <1>5

(* So does the line that is read instead. *)
LEMMA ReadLineInsteadBasic ==
  ASSUME Basic, ReadLineInstead, UNCHANGED <<x, cut>>
  PROVE  Basic'
<1>1. Receiving /\ Busy /\ slot.status = "body" /\ slot.chunked
  BY ReceivingBusy DEF ReadLineInstead, Receiving
<1>2. Intact(slot) /\ slot \in Slot /\ slot.soc = "open" /\ slot.size \in Nat
  BY <1>1, BusyIs
<1>3. PICK n \in 1..Len(wire), m \in Nat :
        /\ Skip(n)
        /\ slot' = [slot EXCEPT !.alloc = TRUE, !.size = m,
                      !.status = IF m = slot.total THEN "crlf" ELSE @]
  <2>1. PICK n \in 1..Len(wire) :
       /\ Skip(n)
       /\ LET size == (IF slot.alloc THEN slot.size ELSE 0)
                        + (n - 1) + Width(wire[n])
          IN slot' = [slot EXCEPT !.alloc = TRUE, !.size = size,
                        !.status = IF size = slot.total THEN "crlf" ELSE @]
    BY DEF ReadLineInstead
  <2> DEFINE m == (IF slot.alloc THEN slot.size ELSE 0) + (n - 1) + Width(wire[n])
  <2>2. n \in Nat \ {0}
    BY <1>1, BusyIs
  <2>3. m \in Nat
    BY <1>2, <2>2 DEF Width
  <2>4. Skip(n) /\ slot' = [slot EXCEPT !.alloc = TRUE, !.size = m,
                      !.status = IF m = slot.total THEN "crlf" ELSE @]
    BY <2>1
  <2> HIDE DEF m
  <2> QED BY <2>3, <2>4
<1>4. Frame
  BY <1>1, <1>3, SkipFrame DEF ReadLineInstead
<1>5. PICK c \in {"body", "crlf"} :
        slot' = [slot EXCEPT !.alloc = TRUE, !.size = m, !.status = c]
  BY <1>1, <1>3
<1> QED BY <1>1, <1>3, <1>4, <1>5, StepBasic

(* The end of the chunks: what is stored. *)
ChunksOver(s, v, t) ==
  /\ t \in Slot /\ t.status = "ready" /\ ~t.guessed /\ t.final
  /\ t.write = s.write /\ t.size = s.size /\ t.total = s.total
  /\ IF ~WrongLength(s) /\ Good(s) /\ ~Tested
     THEN t.entry = s.code /\ t.kept = s.size
     ELSE t.entry = 0 /\ t.ref = s.ref
  /\ v < 0 => t.soc = "closed" /\ ~t.alloc /\ t.code = INVALID
  /\ v >= 0 /\ WrongLength(s) => t.soc = "open" /\ ~t.alloc /\ t.code = INVALID
  /\ v >= 0 /\ ~WrongLength(s) => t.soc = "open" /\ t.alloc = s.alloc /\ t.code = s.code

(* What ChunkEnd makes of a slot. *)
LEMMA ChunkEndIs ==
  ASSUME NEW s, Intact(s), s.soc = "open", NEW v \in Int
  PROVE  ChunksOver(s, v, ChunkEnd(s, v))
<1> DEFINE r == Ready(s)
           p == Finalize(r)
           t == ChunkEnd(s, v)
<1>1. /\ s \in Slot /\ ~s.final /\ s.entry = 0 /\ ~s.guessed
  BY DEF Intact
<1>2. r \in Slot
  BY <1>1, SlotWith DEF Ready
<1>3. /\ r.status = "ready" /\ r.code = s.code /\ r.size = s.size /\ r.total = s.total
      /\ r.write = s.write /\ r.alloc = s.alloc /\ r.guessed = s.guessed /\ r.ref = s.ref
      /\ r.final = s.final /\ r.entry = s.entry /\ r.soc = s.soc
  BY <1>1, <1>2 DEF Ready, Slot
<1> HIDE DEF r
<1>4. p \in Slot
  BY <1>2, FinalizeType
<1>5. /\ p.final /\ p.status = "ready" /\ p.code = s.code /\ p.size = s.size
      /\ p.total = s.total /\ p.write = s.write /\ p.alloc = s.alloc /\ ~p.guessed
      /\ p.soc = "open"
      /\ IF ~WrongLength(r) /\ Good(r) /\ ~Tested
         THEN p.entry = s.code /\ p.kept = s.size
         ELSE p.entry = 0 /\ p.ref = s.ref
  BY <1>1, <1>2, <1>3, FinalizeIs
<1>6. t = IF p.soc # "open" THEN p
          ELSE IF v < 0
            THEN Closed([p EXCEPT !.alloc = FALSE, !.code = INVALID])
          ELSE IF WrongLength(p)
            THEN [p EXCEPT !.alloc = FALSE, !.code = INVALID]
          ELSE p
  BY DEF ChunkEnd, r
<1> HIDE DEF p, t
<1>7. /\ WrongLength(r) <=> WrongLength(s)
      /\ WrongLength(p) <=> WrongLength(s)
      /\ Good(r) <=> Good(s)
  BY <1>3, <1>5 DEF WrongLength, Good
<1> DEFINE q == [p EXCEPT !.alloc = FALSE, !.code = INVALID]
<1>8. q \in Slot
  <2>1. INVALID \in Codes
    BY CodesAre
  <2> QED BY ONLY <1>4, <2>1 DEF Slot
<1>9. /\ q.status = p.status /\ q.size = p.size
      /\ q.total = p.total /\ q.write = p.write /\ q.guessed = p.guessed
      /\ q.soc = p.soc /\ q.final = p.final /\ q.entry = p.entry /\ q.kept = p.kept
      /\ q.ref = p.ref
  BY <1>4, <1>8 DEF Slot
<1>10. ~q.alloc /\ q.code = INVALID
  BY <1>4, <1>8 DEF Slot
<1> HIDE DEF q
<1>11. CASE v < 0
  <2>1. t = Closed(q)
    BY <1>5, <1>6, <1>11 DEF q
  <2>2. t \in Slot
    BY <1>8, <2>1, SlotWith DEF Closed
  <2>3. /\ t.status = q.status /\ t.size = q.size /\ t.code = q.code /\ t.alloc = q.alloc
        /\ t.total = q.total /\ t.write = q.write /\ t.guessed = q.guessed
        /\ t.soc = "closed" /\ t.final = q.final /\ t.entry = q.entry /\ t.kept = q.kept
        /\ t.ref = q.ref
    BY <1>8, <2>1, <2>2 DEF Slot, Closed
  <2>4. ~(v >= 0)
    BY <1>11
  <2> QED BY <1>5, <1>7, <1>9, <1>10, <2>2, <2>3, <2>4 DEF ChunksOver, t
<1>12. CASE v >= 0 /\ WrongLength(p)
  <2>1. t = q /\ ~(v < 0)
    BY <1>5, <1>6, <1>12 DEF q
  <2> QED BY <1>5, <1>7, <1>8, <1>9, <1>10, <1>12, <2>1 DEF ChunksOver, t
<1>13. CASE v >= 0 /\ ~WrongLength(p)
  <2>1. t = p /\ ~(v < 0)
    BY <1>5, <1>6, <1>13
  <2> QED BY <1>4, <1>5, <1>7, <1>13, <2>1 DEF ChunksOver, t
<1> QED BY <1>11, <1>12, <1>13

(* What a line says: the size of a chunk, or that one has ended. *)
LEMMA ValueIs ==
  ASSUME Basic, slot.status \in {"size", "crlf"}, NEW t \in Tokens, NEW alone \in BOOLEAN
  PROVE  /\ Value(alone, t) \in Int
         /\ slot.status = "crlf" /\ Value(alone, t) > 0 => Value(alone, t) = slot.block
         /\ slot.status = "size" /\ Value(alone, t) >= 0 =>
              alone /\ t.is = "size" /\ Value(alone, t) = t.n
<1>1. Busy
  BY DEF Busy
<1>2. slot.block \in Int /\ t.n \in Int
  BY <1>1, BusyIs DEF Tokens
<1> QED BY <1>2 DEF Value

(* The slot once a line has been read. *)
LEMMA AnnouncedIs ==
  ASSUME Basic, slot.status \in {"size", "crlf"}, NEW v \in Int
  PROVE  /\ Announced(v) \in Slot /\ Intact(Announced(v)) /\ Announced(v).soc = "open"
         /\ Announced(v).status = slot.status /\ Announced(v).code = slot.code
         /\ Announced(v).size = slot.size /\ Announced(v).chunked = slot.chunked
         /\ Announced(v).write <=> (slot.write \/ Opens)
         /\ slot.status = "size" /\ v >= 0 =>
              /\ Announced(v).total = (IF slot.total < 0 THEN 0 ELSE slot.total) + v
              /\ Announced(v).block = (IF v > 0 THEN v ELSE -1)
              /\ Announced(v).alloc <=> (slot.alloc \/ ~Opened.write)
         /\ ~(slot.status = "size" /\ v >= 0) =>
              /\ Announced(v).total = (IF slot.total < 0 THEN 0 ELSE slot.total)
              /\ Announced(v).block = slot.block
              /\ Announced(v).alloc = slot.alloc
<1>1. Busy /\ Receiving
  BY DEF Busy, Receiving
<1> DEFINE o == Opened
           m == IF slot.total < 0 THEN 0 ELSE slot.total
           s == [o EXCEPT !.total = m]
<1>2. /\ o \in Slot /\ Intact(o) /\ o.soc = "open"
      /\ o.status = slot.status /\ o.code = slot.code
      /\ o.size = slot.size /\ o.total = slot.total
      /\ o.block = slot.block /\ o.alloc = slot.alloc
      /\ o.chunked = slot.chunked
      /\ o.write <=> (slot.write \/ Opens)
  BY <1>1, OpenedIs
<1>3. m \in Nat
  BY <1>1, BusyIs
<1>4. s = [Opened EXCEPT !.total = IF @ < 0 THEN 0 ELSE @]
  BY <1>2
<1> HIDE DEF m
<1>5. s \in Slot
  BY <1>2, <1>3, SlotWith
<1>6. /\ s.status = o.status /\ s.code = o.code /\ s.total = m
      /\ s.size = o.size /\ s.block = o.block /\ s.alloc = o.alloc
      /\ s.chunked = o.chunked /\ s.write = o.write /\ s.soc = o.soc
      /\ s.ref = o.ref /\ s.final = o.final /\ s.entry = o.entry /\ s.guessed = o.guessed
  BY <1>2, <1>5 DEF Slot
<1>7. Intact(s)
  BY <1>2, <1>5, <1>6 DEF Intact
<1>8. Announced(v) =
        IF slot.status = "size" /\ v >= 0
        THEN [s EXCEPT !.total = s.total + v, !.block = IF v > 0 THEN v ELSE -1,
                       !.alloc = s.alloc \/ ~s.write]
        ELSE s
  BY <1>4 DEF Announced
<1> HIDE DEF s, o
<1>9. CASE slot.status = "size" /\ v >= 0
  <2> DEFINE b == IF v > 0 THEN v ELSE -1
  <2>1. s.total + v \in Nat /\ b \in Nat \cup {-1}
    BY <1>3, <1>6, <1>9
  <2>2. PICK a \in BOOLEAN : a <=> (s.alloc \/ ~s.write)
    OBVIOUS
  <2>3. a = (s.alloc \/ ~s.write)
    BY <1>5, <2>2, SlotType
  <2>4. Announced(v) = [s EXCEPT !.total = s.total + v, !.block = b, !.alloc = a]
    BY <1>8, <1>9, <2>3
  <2> HIDE DEF b
  <2> DEFINE t == Announced(v)
  <2>5. t \in Slot
    BY <1>5, <2>1, <2>4 DEF Slot
  <2>6. /\ t.status = s.status /\ t.code = s.code
        /\ t.size = s.size 
        /\ t.chunked = s.chunked /\ t.write = s.write /\ t.soc = s.soc
        /\ t.ref = s.ref /\ t.final = s.final /\ t.entry = s.entry /\ t.guessed = s.guessed
    BY <1>5, <2>4, <2>5 DEF Slot
  <2>7. t.total = s.total + v /\ t.block = b /\ t.alloc = a
    BY <1>5, <2>4, <2>5 DEF Slot
  <2> HIDE DEF t
  <2>8. Intact(t)
    BY <1>7, <2>5, <2>6 DEF Intact
  <2>9. t.alloc <=> (slot.alloc \/ ~Opened.write)
    BY <1>2, <1>6, <2>2, <2>7 DEF o
  <2>10. t.write <=> (slot.write \/ Opens)
    BY <1>2, <1>6, <2>6
  <2> QED BY <1>2, <1>6, <1>9, <2>5, <2>6, <2>7, <2>8, <2>9, <2>10 DEF t, b, m
<1>10. CASE ~(slot.status = "size" /\ v >= 0)
  <2>1. Announced(v) = s
    BY <1>8, <1>10
  <2>2. s.write <=> (slot.write \/ Opens)
    BY <1>2, <1>6
  <2> QED BY <1>2, <1>5, <1>6, <1>7, <1>10, <2>1, <2>2 DEF m
<1> QED BY <1>9, <1>10

(* A line is read. *)
LEMMA ReadLineIs ==
  ASSUME Basic, ReadLine, UNCHANGED <<x, cut>>
  PROVE  /\ Frame /\ Receiving /\ Busy /\ file' = OpenedFile
         /\ \E n \in 1..Len(wire), v \in Int :
              /\ Bytes(n - 1) /\ wire[n].is # "byte" /\ Skip(n)
              /\ wire[n] \in Tokens /\ v = Value(n = 1, wire[n])
              /\ slot' = AfterLine(Announced(v), v)
<1>1. Busy /\ Receiving /\ slot.status \in {"size", "crlf"}
  BY DEF ReadLine, Busy, Receiving
<1>2. PICK n \in 1..Len(wire) :
        /\ Bytes(n - 1) /\ wire[n].is # "byte"
        /\ Skip(n)
        /\ LET v == Value(n = 1, wire[n])
           IN slot' = AfterLine(Announced(v), v)
  BY DEF ReadLine
<1>3. wire[n] \in Tokens
  BY <1>1, BusyIs, TokensAre
<1>4. (n = 1) \in BOOLEAN
  OBVIOUS
<1>5. Value(n = 1, wire[n]) \in Int
  BY <1>1, <1>3, <1>4, ValueIs
<1>6. Frame /\ file' = OpenedFile
  BY <1>1, <1>2, SkipFrame DEF ReadLine
<1> QED BY <1>1, <1>2, <1>3, <1>5, <1>6

(* The end of the chunks keeps the invariant. *)
LEMMA ChunksOverBasic ==
  ASSUME Basic, Frame, NEW s, Intact(s), NEW v \in Int, ChunksOver(s, v, slot')
  PROVE  Basic'
<1>1. TypeOK'
  BY DEF Basic, Frame, TypeOK, ChunksOver
<1>2. Fresh' /\ Going' /\ Taking'
  BY DEF ChunksOver, Fresh, Going, Taking, Busy, Receiving
<1>3. s.code # 0
  BY SlotType DEF Intact
<1>4. Ended'
  BY <1>3 DEF ChunksOver, Ended, Over, Intact
<1>5. Closes'
  BY DEF Basic, Closes, Frame
<1> QED BY <1>1, <1>2, <1>4, <1>5 DEF Basic

(* A line that is read keeps the first part of the invariant. *)
LEMMA ReadLineBasic ==
  ASSUME Basic, ReadLine, UNCHANGED <<x, cut>>
  PROVE  Basic'
<1>1. Frame /\ Receiving /\ Busy /\ slot.status \in {"size", "crlf"}
  BY ReadLineIs DEF ReadLine
<1>2. PICK n \in 1..Len(wire), v \in Int :
        /\ wire[n] \in Tokens /\ v = Value(n = 1, wire[n])
        /\ slot' = AfterLine(Announced(v), v)
  BY ReadLineIs
<1>3. (n = 1) \in BOOLEAN
  OBVIOUS
<1>4. /\ slot.status = "crlf" /\ v > 0 => v = slot.block
  BY <1>1, <1>2, <1>3, ValueIs
<1> DEFINE s == Announced(v)
<1>5. /\ s \in Slot /\ Intact(s) /\ s.soc = "open"
      /\ s.status = slot.status /\ s.code = slot.code /\ s.chunked = slot.chunked
      /\ s.write <=> (slot.write \/ Opens)
      /\ s.block = IF slot.status = "size" /\ v >= 0 THEN IF v > 0 THEN v ELSE -1
                   ELSE slot.block
  BY <1>1, AnnouncedIs
<1>6. slot.chunked /\ slot.soc = "open" /\ slot.block \in Int
  BY <1>1, BusyIs DEF Basic, Taking
<1>7. slot' = AfterLine(s, v)
  BY <1>2
<1> HIDE DEF s
<1>8. CASE \/ slot.status = "crlf" /\ v > 0
           \/ slot.status = "size" /\ v >= 0
  <2>1. PICK c \in {"size", "crlf", "body"} :
          /\ slot' = [s EXCEPT !.status = c]
          /\ s.block = -1 => c = "crlf"
          /\ s.block # 0
          /\ c = "crlf" => s.block = -1
    <3>1. CASE slot.status = "crlf" /\ v > 0
      BY <1>4, <1>5, <1>6, <1>7, <3>1 DEF AfterLine
    <3>2. CASE slot.status = "size" /\ v = 0
      BY <1>5, <1>7, <3>2 DEF AfterLine
    <3>3. CASE slot.status = "size" /\ v > 0
      BY <1>5, <1>7, <3>3 DEF AfterLine
    <3> QED BY <1>8, <3>1, <3>2, <3>3
  <2>2. slot' \in Slot
    BY <1>5, <2>1, SlotWith
  <2>3. /\ slot'.status = c /\ slot'.code = s.code /\ slot'.block = s.block
        /\ slot'.chunked = s.chunked /\ slot'.write = s.write /\ slot'.soc = s.soc
        /\ slot'.ref = s.ref /\ slot'.final = s.final /\ slot'.entry = s.entry
        /\ slot'.guessed = s.guessed
    BY <1>5, <2>1, <2>2 DEF Slot
  <2>4. Continues
    BY <1>5, <1>6, <2>1, <2>2, <2>3 DEF Continues, Intact
  <2> QED BY <1>1, <2>4, ContinuesBasic
<1>9. CASE ~(\/ slot.status = "crlf" /\ v > 0
             \/ slot.status = "size" /\ v >= 0)
  <2>1. slot' = ChunkEnd(s, v)
    BY <1>7, <1>9 DEF AfterLine
  <2>2. ChunksOver(s, v, slot')
    BY <1>5, <2>1, ChunkEndIs
  <2> QED BY <1>1, <1>5, <2>2, ChunksOverBasic
<1> QED BY <1>8, <1>9

-----------------------------------------------------------------------------
(* The other steps *)

(* The connection ends. *)
LEMMA PeerEndBasic ==
  ASSUME Basic, PeerEnd, UNCHANGED <<x, cut>>
  PROVE  /\ Basic' /\ Busy /\ wire' = <<>> /\ file' = OpenedFile
         /\ \E error \in BOOLEAN :
              /\ slot' \in Ends(Opened, error)
              /\ ~error => peer = "closed" /\ Good(slot)
<1>1. Busy
  BY DEF PeerEnd
<1>2. /\ Intact(Opened) /\ Opened.soc = "open" /\ OpenedFile \in Seq(Int)
  BY <1>1, OpenedIs
<1>3. Frame
  BY <1>2, EmptySeq DEF Frame, PeerEnd
<1>4. PICK error \in BOOLEAN :
              /\ slot' \in Ends(Opened, error)
              /\ ~error => peer = "closed" /\ Good(slot)
  <2>1. slot' \in Ends(Opened, peer = "reset" \/ ~Good(slot))
    BY DEF PeerEnd
  <2>2. CASE peer = "reset" \/ ~Good(slot)
    <3>1. (peer = "reset" \/ ~Good(slot)) = TRUE
      BY <2>2
    <3> QED BY <2>1, <3>1
  <2>3. CASE ~(peer = "reset" \/ ~Good(slot))
    <3>1. (peer = "reset" \/ ~Good(slot)) = FALSE
      BY <2>3
    <3>2. peer = "closed" /\ Good(slot)
      BY <2>3 DEF PeerEnd
    <3> QED BY <2>1, <3>1, <3>2
  <2> QED BY <2>2, <2>3
<1>5. Basic'
  BY <1>2, <1>3, <1>4, EndsBasic
<1> QED BY <1>1, <1>4, <1>5 DEF PeerEnd

(* An answer that is given up. *)
LEMMA GivenUpBasic ==
  ASSUME Basic, Timeout \/ Slow \/ Cancel, UNCHANGED <<x, cut>>
  PROVE  Basic' /\ Busy /\ Fails /\ slot'.write = slot.write /\ UNCHANGED <<wire, file>>
<1>1. Busy /\ Frame /\ UNCHANGED <<wire, file>>
  BY ReceivingBusy, StayFrame DEF Timeout, Slow, Cancel
<1>2. \E c \in {INVALID, TIMEOUT, SLOW, NON_FATAL, TOO_BIG} :
         slot' = Closed(Ready([slot EXCEPT !.code = c]))
  BY DEF Timeout, Slow, Cancel
<1>3. Fails /\ slot'.write = slot.write
  BY <1>1, <1>2, FailsWhole DEF Basic
<1> QED BY <1>1, <1>3, FailsBasic DEF Frame

(* What is over stays as it is: its connection is given or closed, and it  *)
(* is finalized at last.                                                   *)
Rests ==
  /\ slot' \in Slot /\ slot'.status \in {"ready", "free"}
  /\ slot'.code = slot.code /\ slot'.write = slot.write /\ slot'.alloc = slot.alloc
  /\ slot'.guessed = slot.guessed /\ slot'.size = slot.size
  /\ slot'.soc = slot.soc \/ slot.soc = "open"
  /\ slot'.entry = slot.entry /\ slot'.kept = slot.kept /\ (slot'.ref <=> slot.ref)
  /\ slot.final => slot'.final

(* What is over is finalized once, and then no more. *)
LEMMA FinalizeOver ==
  ASSUME Basic, slot.status = "ready"
  PROVE  /\ Finalize(slot) \in Slot
         /\ Finalize(slot).status = "ready" /\ Finalize(slot).code = slot.code
         /\ Finalize(slot).write = slot.write /\ Finalize(slot).alloc = slot.alloc
         /\ Finalize(slot).guessed = slot.guessed /\ Finalize(slot).size = slot.size
         /\ Finalize(slot).soc = slot.soc /\ Finalize(slot).entry = slot.entry
         /\ Finalize(slot).kept = slot.kept /\ (Finalize(slot).ref <=> slot.ref)
         /\ Finalize(slot).final
<1>1. slot \in Slot
  BY DEF Basic, TypeOK
<1>2. Finalize(slot) \in Slot
  BY <1>1, FinalizeType
<1>3. CASE slot.final
  <2>1. Finalize(slot) = slot
    BY <1>1, <1>3, FinalizeOnce
  <2> QED BY <1>2, <1>3, <2>1
<1>4. CASE ~slot.final
  <2>1. ~Good(slot) \/ Tested
    BY <1>4 DEF Basic, Ended, Over
  <2>2. Finalize(slot) = [slot EXCEPT !.final = TRUE]
    BY <1>4, <2>1 DEF Finalize
  <2> QED BY <1>1, <1>2, <2>2 DEF Slot
<1> QED BY <1>3, <1>4

(* The two steps of an answer that is over. *)
LEMMA RestsIs ==
  ASSUME Basic, Park \/ Delete
  PROVE  Rests
<1>1. slot \in Slot /\ slot.status = "ready"
  BY DEF Basic, TypeOK, Park, Delete
<1>2. CASE Park
  <2>1. PICK c \in {"parked", "closed"} : slot' = [slot EXCEPT !.soc = c]
    BY <1>2 DEF Park, AfterPark, Kept
  <2>2. slot' \in Slot
    BY <1>1, <2>1, SlotWith
  <2>3. /\ slot'.status = slot.status /\ slot'.code = slot.code /\ slot'.write = slot.write
        /\ slot'.alloc = slot.alloc /\ slot'.guessed = slot.guessed /\ slot'.size = slot.size
        /\ slot'.soc = c /\ slot'.entry = slot.entry /\ slot'.kept = slot.kept
        /\ slot'.ref = slot.ref /\ slot'.final = slot.final
    BY <1>1, <2>1, <2>2 DEF Slot
  <2>4. slot.soc = "open"
    BY <1>2 DEF Park
  <2> QED BY <1>1, <2>2, <2>3, <2>4 DEF Rests
<1>3. CASE Delete
  <2> DEFINE f == Finalize(slot)
             d == [f EXCEPT !.status = "free"]
  <2>1. /\ f \in Slot /\ f.code = slot.code
         /\ f.write = slot.write /\ f.alloc = slot.alloc
         /\ f.guessed = slot.guessed /\ f.size = slot.size
         /\ f.soc = slot.soc /\ f.entry = slot.entry
         /\ f.kept = slot.kept /\ (f.ref <=> slot.ref) /\ f.final
    BY <1>1, FinalizeOver
  <2>2. slot' \in IF slot.soc = "open" THEN AfterPark(d) ELSE {d}
    BY <1>3 DEF Delete
  <2> HIDE DEF f
  <2>3. d \in Slot
    BY <2>1, SlotWith
  <2>4. /\ d.status = "free" /\ d.code = f.code /\ d.write = f.write /\ d.alloc = f.alloc
        /\ d.guessed = f.guessed /\ d.size = f.size /\ d.soc = f.soc /\ d.entry = f.entry
        /\ d.kept = f.kept /\ d.ref = f.ref /\ d.final = f.final
    BY <2>1, <2>3 DEF Slot
  <2> HIDE DEF d
  <2>5. PICK c \in {"open", "parked", "closed"} :
          /\ slot' = [d EXCEPT !.soc = c]
          /\ slot.soc = "open" \/ c = slot.soc
    <3>1. CASE slot.soc = "open"
      BY <2>2, <3>1 DEF AfterPark, Kept
    <3>2. CASE slot.soc # "open"
      <4>1. slot' = d /\ d.soc \in {"open", "parked", "closed"}
        BY <2>2, <2>3, <3>2, SlotType
      <4>2. d = [d EXCEPT !.soc = d.soc]
        BY <2>3 DEF Slot
      <4> QED BY <2>1, <2>4, <4>1, <4>2
    <3> QED BY <3>1, <3>2
  <2>6. slot' \in Slot
    BY <2>3, <2>5, SlotWith
  <2>7. /\ slot'.status = d.status /\ slot'.code = d.code /\ slot'.write = d.write
        /\ slot'.alloc = d.alloc /\ slot'.guessed = d.guessed /\ slot'.size = d.size
        /\ slot'.soc = c /\ slot'.entry = d.entry /\ slot'.kept = d.kept
        /\ slot'.ref = d.ref /\ slot'.final = d.final
    BY <2>3, <2>5, <2>6 DEF Slot
  <2> HIDE <1>3
  <2>8. slot'.final /\ (slot'.ref <=> slot.ref)
    BY <2>1, <2>4, <2>7
  <2>9. slot.final \in BOOLEAN /\ slot'.ref \in BOOLEAN /\ slot.ref \in BOOLEAN
    BY <1>1, <2>6, SlotType
  <2> QED BY <2>1, <2>4, <2>5, <2>6, <2>7, <2>8, <2>9 DEF Rests
<1> QED BY <1>2, <1>3

(* They keep the first part of the invariant. *)
LEMMA RestsBasic ==
  ASSUME Basic, Park \/ Delete, UNCHANGED <<x, cut>>
  PROVE  Basic'
<1>1. Rests /\ Frame /\ slot.status = "ready"
  BY RestsIs, StayFrame DEF Park, Delete
<1>2. TypeOK' /\ Fresh' /\ Going' /\ Taking' /\ Closes'
  BY <1>1 DEF Rests, Basic, TypeOK, Fresh, Going, Taking, Busy, Receiving, Frame, Closes
<1>3. Ended'
  BY <1>1 DEF Rests, Basic, Ended, Over, Good, Tested, Frame
<1> QED BY <1>2, <1>3 DEF Basic

(* The server stops, or closes. *)
LEMMA PeerBasic ==
  ASSUME Basic, PeerStops \/ PeerCloses
  PROVE  Basic'
<1>1. /\ UNCHANGED <<x, file, slot>> /\ wire' \in Seq(Tokens) /\ cut' \in BOOLEAN
      /\ peer' \in {"up", "closed", "reset", "silent"}
      /\ peer' = "closed" => cut' \/ wire' = <<>>
  <2>1. CASE PeerStops
    <3>1. PICK k \in 0..(Len(wire) - 1) : wire' = SubSeq(wire, 1, k)
      BY <2>1 DEF PeerStops
    <3>2. wire \in Seq(Tokens) /\ k \in 0..Len(wire)
      BY TokensAre DEF Basic, TypeOK
    <3>3. wire' \in Seq(Tokens)
      BY <3>1, <3>2, CutType
    <3> QED BY <2>1, <3>3 DEF PeerStops
  <2>2. CASE PeerCloses
    BY <2>2 DEF PeerCloses, Basic, TypeOK
  <2> QED BY <2>1, <2>2
<1>2. TypeOK' /\ Closes'
  BY <1>1 DEF Basic, TypeOK, Closes
<1>3. Fresh' /\ Going' /\ Taking' /\ Ended'
  BY <1>1 DEF Basic, Fresh, Going, Taking, Ended, Busy, Receiving, Over, HeadersOnly, Good,
     Tested
<1> QED BY <1>2, <1>3 DEF Basic

(* Every step keeps the first part of the invariant. *)
LEMMA BasicInvariance == Basic /\ [Next]_vars => Basic'
<1> SUFFICES ASSUME Basic, [Next]_vars PROVE Basic'
  OBVIOUS
<1>1. CASE HeadStep /\ UNCHANGED <<x, cut>>
  BY <1>1, InterimBasic, HeadFails, TestHeadBasic, DiskBasic, StartBasic DEF HeadStep
<1>2. CASE BodyStep /\ UNCHANGED <<x, cut>>
  BY <1>2, CreateFailsBasic, ReadBodyBasic, WriteFailsBasic, ReadChunkBasic,
     ChunkFullBasic, ReserveBasic, ReadLineInsteadBasic, ReadLineBasic DEF BodyStep
<1>3. CASE (PeerEnd \/ Timeout \/ Slow \/ Cancel \/ Park \/ Delete) /\ UNCHANGED <<x, cut>>
  BY <1>3, PeerEndBasic, GivenUpBasic, RestsBasic
<1>4. CASE PeerStops \/ PeerCloses
  BY <1>4, PeerBasic
<1>5. CASE UNCHANGED vars
  BY <1>5 DEF vars, Basic, TypeOK, Fresh, Going, Taking, Ended, Closes, Busy, Receiving,
     Over, HeadersOnly, Good, Tested
<1> QED BY <1>1, <1>2, <1>3, <1>4, <1>5 DEF Next, Turn, Interrupted

(* The first part of the invariant holds at the beginning. *)
LEMMA BasicInitially == Init => Basic
<1> SUFFICES ASSUME Init PROVE Basic
  OBVIOUS
<1>1. x \in Exchanges /\ x.kind \in Kinds /\ x.have \in Seq(Int) /\ x.wire \in Seq(Tokens)
  BY ExchangeType DEF Init
<1>2. PICK r \in BOOLEAN : r = (x.kind = "range")
  OBVIOUS
<1>3. INVALID \in Codes
  BY CodesAre
<1>4. slot = [status |-> "headers", code |-> INVALID, size |-> 0, total |-> -1,
              block |-> 0, write |-> FALSE, alloc |-> FALSE, chunked |-> FALSE,
              guessed |-> FALSE, ref |-> r, final |-> FALSE, entry |-> 0,
              kept |-> 0, soc |-> "open"]
  BY <1>2 DEF Init, NewSlot
<1>5. slot \in Slot
  BY <1>3, <1>4 DEF Slot
<1>6. TypeOK
  BY <1>1, <1>5 DEF Init, TypeOK
<1>7. Fresh /\ Going /\ Taking /\ Ended /\ Closes
  BY <1>4 DEF Init, Fresh, Going, Taking, Ended, Closes, Busy, Receiving, Over
<1> QED BY <1>6, <1>7 DEF Basic

(* The variables keep their values in their sets. *)
THEOREM TypeCorrect == Spec => []TypeOK
<1>1. Basic => TypeOK
  BY DEF Basic
<1> QED BY <1>1, BasicInitially, BasicInvariance, PTL DEF Spec

-----------------------------------------------------------------------------
(* With an honest server *)

(* How much of the resource was on disk, of a rest that is continued. *)
Before(e) == IF e.code = 206 THEN Len(e.have) ELSE 0
Kept206(e) ==
  e.code = 206 => Len(e.have) <= Len(e.body) /\ e.have = SubSeq(e.body, 1, Len(e.have))

(* Of s, p tokens have been read; what follows is to come, unless the      *)
(* server stops before.                                                    *)
Part(s, p) ==
  /\ p + Len(wire) <= Len(s)
  /\ cut \/ p + Len(wire) = Len(s)
  /\ \A i \in 1..Len(wire) : wire[i] = s[p + i]

(* The lines after the last chunk. *)
Trailer(s, p) == \A j \in p + 1..Len(s) : s[j].is = IF j = Len(s) THEN "line" ELSE "bad"

Heading(e, h) == slot.status = "headers" => \E p \in 0..h - 1 : Part(e.wire, p)
InBody(rest) ==
  Receiving => \E p \in 0..Len(rest) :
                 Part(rest, p) /\ (slot.block = -1 => Trailer(rest, p))
OutOfBody(e) == Over /\ slot.soc # "closed" /\ e.kind # "gettest" => wire = <<>>

(* The first n bytes of the resource. *)
Prefix(e, f, n) ==
  f \in Seq(Int) /\ Len(f) = n /\ n <= Len(e.body) /\ \A i \in 1..n : f[i] = e.body[i]

(* What is written is the resource, as much as was received. *)
OnDisk(e) ==
  /\ slot.write => e.code \in {200, 206} /\ Prefix(e, file, slot.size)
  /\ ~slot.write => file = e.have
  /\ ~slot.write /\ ~slot.alloc => slot.size = 0

Plainly(e, rest) ==
  \E p \in 0..Len(rest) :
    /\ Part(rest, p) /\ OnDisk(e) /\ slot.size = Before(e) + p
    /\ slot.total = IF e.framing = "length" THEN Before(e) + Len(rest) ELSE -1

(* Before the size of a chunk, within a chunk, after the last one. *)
AtSize(rest, off, p) ==
  /\ slot.status = "size" /\ p + 1 \in Sizes(rest) /\ slot.size = off[p + 1]
  /\ \/ slot.block = 0 /\ slot.total = -1 /\ slot.size = 0 /\ ~slot.write /\ ~slot.alloc
     \/ slot.block > 0 /\ slot.total = slot.size /\ (slot.write \/ slot.alloc)
InChunk(rest, off, p) ==
  \E s \in Sizes(rest) :
    /\ rest[s].n > 0 /\ slot.block = rest[s].n
    /\ p \in s..s + rest[s].n /\ slot.size = off[s] + (p - s)
    /\ slot.total = off[s] + rest[s].n
    /\ slot.write \/ slot.alloc
    /\ slot.status = "body" \/ (slot.status = "crlf" /\ p = s + rest[s].n)
AtEnd(rest, off, p) ==
  /\ slot.status = "crlf" /\ slot.block = -1
  /\ \E s \in Sizes(rest) :
       s <= p /\ rest[s].n = 0 /\ slot.size = off[s] /\ slot.total = off[s]
  /\ slot.write \/ slot.alloc

Chunkly(e, rest, off) ==
  \E p \in 0..Len(rest) :
    /\ Part(rest, p) /\ OnDisk(e)
    /\ AtSize(rest, off, p) \/ InChunk(rest, off, p) \/ AtEnd(rest, off, p)

Stored(e) == IF slot.write THEN file = e.body ELSE slot.kept = Len(e.body)
Outcome(e) ==
  /\ slot.code = 200 /\ ~Tested => slot.entry = 200 \/ slot.guessed
  /\ slot.entry = 200 /\ (slot.write \/ slot.alloc) /\ (e.framing = "length" \/ ~cut)
     => Stored(e)
  /\ file = e.have \/ file = SubSeq(e.body, 1, Len(file))

Faithful(e, rest, bytes) ==
  /\ Receiving /\ e.framing # "chunked" => Plainly(e, rest)
  /\ Receiving /\ e.framing = "chunked" =>
       \A off \in [Sizes(rest) -> 0..Len(bytes)] :
         AreChunks(rest, bytes, off) => Chunkly(e, rest, off)
  /\ Over => Outcome(e)

Following(e, h) ==
  /\ Heading(e, h) /\ InBody(After(e, h)) /\ OutOfBody(e)
  /\ ~(e.code = 206 /\ e.framing = "chunked") =>
       Faithful(e, After(e, h), ToSend(e, After(e, h)))

Honestly ==
  \A e \in Exchanges : \A h \in DOMAIN e.wire :
    x = e /\ Kept206(e) /\ Sincere(e, h) => Following(e, h)

(* What is read of a sequence leaves the rest of it. *)
LEMMA PartSkip ==
  ASSUME wire \in Seq(Tokens), cut' = cut, NEW s \in Seq(Tokens), NEW p \in Nat,
         Part(s, p), NEW n \in 0..Len(wire), Skip(n)
  PROVE  /\ Part(s, p + n)' /\ p + n \in 0..Len(s) /\ Len(wire') = Len(wire) - n
         /\ \A i \in 1..n : wire[i] = s[p + i]
<1>0. Len(wire) \in Nat /\ Len(s) \in Nat /\ n \in Nat
  BY TokensAre
<1>1. /\ Len(wire') = Len(wire) - n
      /\ \A i \in 1..Len(wire) - n : wire'[i] = wire[n + i]
  BY SkipType DEF Skip
<1>2. /\ p + Len(wire) <= Len(s)
      /\ cut \/ p + Len(wire) = Len(s)
      /\ \A i \in 1..Len(wire) : wire[i] = s[p + i]
  BY DEF Part
<1>3. p + n \in 0..Len(s) /\ \A i \in 1..n : wire[i] = s[p + i]
  BY <1>0, <1>2
<1>4. p + n + Len(wire') <= Len(s) /\ (cut' \/ p + n + Len(wire') = Len(s))
  <2>1. p + n + Len(wire') = p + Len(wire)
    BY <1>0, <1>1
  <2>2. CASE cut
    BY <1>2, <2>1, <2>2
  <2>3. CASE p + Len(wire) = Len(s)
    BY <1>2, <2>1, <2>3
  <2> QED BY <1>2, <2>2, <2>3
<1>5. ASSUME NEW i \in 1..Len(wire') PROVE wire'[i] = s[p + n + i]
  <2>1. i \in Int /\ n + i \in 1..Len(wire) /\ i \in 1..Len(wire) - n
    BY <1>0, <1>1
  <2>2. wire'[i] = wire[n + i] /\ wire[n + i] = s[p + (n + i)] /\ p + (n + i) = p + n + i
    BY <1>0, <1>1, <1>2, <2>1
  <2> QED BY <2>2
<1> QED BY <1>1, <1>3, <1>4, <1>5 DEF Part

(* The headers consumed are one token read. *)
LEMMA HeadSkip ==
  ASSUME Basic, HeadStep
  PROVE  /\ wire \in Seq(Tokens) /\ Skip(1) /\ 1 \in 0..Len(wire) /\ Head(wire) = wire[1]
         /\ 1 \in 1..Len(wire) /\ Len(wire) \in Nat
<1>1. wire \in Seq(Tokens) /\ wire # <<>> /\ wire' = Tail(wire)
  BY DEF Basic, TypeOK, HeadStep, Interim, TooBig, TestHead, NotModified,
     AlreadyComplete, Start, PartialStart, PartialRefused, AtHead
<1>2. 1 \in 0..Len(wire) /\ Head(wire) = wire[1] /\ wire' = SubSeq(wire, 2, Len(wire))
  BY <1>1, HeadGone DEF Basic
<1>3. Len(wire) \in Nat
  BY <1>1, TokensAre
<1> QED BY <1>1, <1>2, <1>3 DEF Skip

(* What an exchange is made of. *)
LEMMA AfterIs ==
  ASSUME NEW e \in Exchanges, NEW h \in DOMAIN e.wire
  PROVE  /\ e.wire \in Seq(Tokens) /\ h \in Nat \ {0} /\ h <= Len(e.wire)
         /\ Len(e.wire) \in Nat
         /\ After(e, h) \in Seq(Tokens) /\ Len(After(e, h)) = Len(e.wire) - h
         /\ Len(After(e, h)) \in Nat
         /\ \A i \in 1..Len(e.wire) - h : After(e, h)[i] = e.wire[h + i]
<1>1. e.wire \in Seq(Tokens)
  BY ExchangesAssumption
<1>2. Len(e.wire) \in Nat /\ DOMAIN e.wire = 1..Len(e.wire)
  BY <1>1, TokensAre
<1>3. h \in 0..Len(e.wire) /\ h \in Nat \ {0} /\ h <= Len(e.wire)
  BY <1>2
<1>4. /\ SubSeq(e.wire, h + 1, Len(e.wire)) \in Seq(Tokens)
      /\ Len(SubSeq(e.wire, h + 1, Len(e.wire))) = Len(e.wire) - h
      /\ \A i \in 1..Len(e.wire) - h : SubSeq(e.wire, h + 1, Len(e.wire))[i] = e.wire[h + i]
  BY <1>1, <1>3, SkipType
<1>5. Len(e.wire) - h \in Nat
  BY <1>2, <1>3
<1> QED BY <1>1, <1>2, <1>3, <1>4, <1>5 DEF After

(* The parts of an exchange. *)
LEMMA PartsOf ==
  ASSUME NEW e \in Exchanges
  PROVE  /\ e.kind \in Kinds /\ e.have \in Seq(Int) /\ e.body \in Seq(Int)
         /\ e.code \in Nat \ {0} /\ e.framing \in Framings /\ e.length \in Nat
         /\ Len(e.have) \in Nat /\ Len(e.body) \in Nat /\ Before(e) \in Nat
<1>1. /\ e.kind \in Kinds /\ e.have \in Seq(Int) /\ e.body \in Seq(Int)
      /\ e.code \in Nat \ {0} /\ e.framing \in Framings /\ e.length \in Nat
  BY ExchangesAssumption
<1> QED BY <1>1, LenProperties DEF Before

(* The beginning of the resource, and the whole of it. *)
LEMMA PrefixIs ==
  ASSUME NEW e \in Exchanges, NEW f, NEW n \in Nat, Prefix(e, f, n)
  PROVE  /\ f = SubSeq(e.body, 1, Len(f))
         /\ n = Len(e.body) => f = e.body
<1>1. /\ f \in Seq(Int) /\ Len(f) = n /\ n <= Len(e.body)
      /\ \A i \in 1..n : f[i] = e.body[i]
  BY DEF Prefix
<1>2. e.body \in Seq(Int) /\ Len(e.body) \in Nat
  BY PartsOf
<1>3. n \in 0..Len(e.body)
  BY <1>1, <1>2
<1>4. /\ SubSeq(e.body, 1, n) \in Seq(Int) /\ Len(SubSeq(e.body, 1, n)) = n
      /\ \A i \in 1..n : SubSeq(e.body, 1, n)[i] = e.body[i]
  BY <1>2, <1>3, CutType
<1>5. f = SubSeq(e.body, 1, n)
  BY <1>1, <1>4, SeqEqual
<1>6. n = Len(e.body) => f = e.body
  BY <1>1, <1>2, SeqEqual
<1> QED BY <1>1, <1>5, <1>6

(* Nothing is a beginning. *)
LEMMA PrefixNone ==
  ASSUME NEW e \in Exchanges
  PROVE  Prefix(e, <<>>, 0)
<1>1. Len(e.body) \in Nat
  BY PartsOf
<1>2. <<>> \in Seq(Int) /\ Len(<<>>) = 0
  BY EmptySeq
<1> QED BY <1>1, <1>2 DEF Prefix

(* What follows the beginning of a sequence, and what is made of two. *)
LEMMA RestType ==
  ASSUME NEW S, NEW s \in Seq(S), NEW m \in Nat, m <= Len(s)
  PROVE  /\ Len(SubSeq(s, m + 1, Len(s))) = Len(s) - m
         /\ \A i \in 1..Len(s) - m : SubSeq(s, m + 1, Len(s))[i] = s[m + i]
<1>0. Len(s) \in Nat /\ \A i \in 1..Len(s) : s[i] \in S
  BY LenProperties, ElementOfSeq
<1>1. \A i \in m + 1..Len(s) : s[i] \in S
  BY <1>0
<1>2. /\ Len(SubSeq(s, m + 1, Len(s))) = IF m + 1 <= Len(s) THEN Len(s) - (m + 1) + 1 ELSE 0
      /\ \A i \in 1..Len(s) - (m + 1) + 1 : SubSeq(s, m + 1, Len(s))[i] = s[m + 1 + i - 1]
  BY <1>0, <1>1, SubSeqProperties
<1>3. ASSUME NEW i \in 1..Len(s) - m PROVE SubSeq(s, m + 1, Len(s))[i] = s[m + i]
  <2>1. i \in 1..Len(s) - (m + 1) + 1 /\ m + 1 + i - 1 = m + i
    BY <1>0
  <2> QED BY <1>2, <2>1
<1>4. (IF m + 1 <= Len(s) THEN Len(s) - (m + 1) + 1 ELSE 0) = Len(s) - m
  BY <1>0
<1> QED BY <1>2, <1>3, <1>4

(* What is made of two sequences. *)
LEMMA BothType ==
  ASSUME NEW S, NEW f \in Seq(S), NEW c \in Seq(S)
  PROVE  /\ f \o c \in Seq(S) /\ Len(f \o c) = Len(f) + Len(c)
         /\ \A i \in 1..Len(f) + Len(c) :
              (f \o c)[i] = IF i <= Len(f) THEN f[i] ELSE c[i - Len(f)]
BY ConcatProperties

(* With its next bytes a beginning is one. *)
LEMMA PrefixMore ==
  ASSUME NEW e \in Exchanges, NEW f, NEW n \in Nat, Prefix(e, f, n),
         NEW c \in Seq(Int), n + Len(c) <= Len(e.body),
         \A i \in 1..Len(c) : c[i] = e.body[n + i]
  PROVE  Prefix(e, f \o c, n + Len(c))
<1>1. /\ f \in Seq(Int) /\ Len(f) = n /\ \A i \in 1..n : f[i] = e.body[i]
      /\ Len(c) \in Nat
  BY LenProperties DEF Prefix
<1>2. /\ f \o c \in Seq(Int) /\ Len(f \o c) = n + Len(c)
      /\ \A i \in 1..n + Len(c) :
           (f \o c)[i] = IF i <= n THEN f[i] ELSE c[i - n]
  <2>1. f \in Seq(Int)
    BY <1>1
  <2>2. /\ f \o c \in Seq(Int) /\ Len(f \o c) = Len(f) + Len(c)
        /\ \A i \in 1..Len(f) + Len(c) :
           (f \o c)[i] = IF i <= Len(f) THEN f[i] ELSE c[i - Len(f)]
    BY ONLY <2>1, c \in Seq(Int), BothType
  <2> QED BY <1>1, <2>2
<1>3. ASSUME NEW i \in 1..n + Len(c) PROVE (f \o c)[i] = e.body[i]
  <2>1. CASE i <= n
    <3>1. i \in 1..n
      BY <1>1, <2>1
    <3> QED BY <1>1, <1>2, <2>1, <3>1
  <2>2. CASE ~(i <= n)
    <3>1. i - n \in 1..Len(c) /\ n + (i - n) = i
      BY <1>1, <2>2
    <3> QED BY <1>1, <1>2, <2>2, <3>1
  <2> QED BY <2>1, <2>2
<1> QED BY <1>2, <1>3 DEF Prefix

(* What an honest server sends that is not in chunks. *)
LEMMA PlainIs ==
  ASSUME NEW e \in Exchanges, NEW h \in DOMAIN e.wire, Sincere(e, h), Kept206(e),
         ~Bare(e), e.framing # "chunked"
  PROVE  /\ e.framing = "length" => e.length = Len(After(e, h))
         /\ e.code \in {200, 206} =>
              /\ Len(e.body) = Before(e) + Len(After(e, h))
              /\ \A i \in 1..Len(After(e, h)) :
                   e.body[Before(e) + i] = After(e, h)[i].n
<1> DEFINE rest == After(e, h)
           bytes == ToSend(e, rest)
<1>1. /\ AreBytes(rest) /\ Numbers(rest) = bytes
      /\ e.framing = "length" => e.length = Len(bytes)
  BY DEF Sincere, Framed
<1>2. rest \in Seq(Tokens) /\ Len(rest) \in Nat /\ DOMAIN rest = 1..Len(rest)
  BY AfterIs, TokensAre
<1>3. bytes \in Seq(Int) /\ Len(bytes) = Len(rest) /\ \A i \in 1..Len(rest) : bytes[i] = rest[i].n
  <2>1. \A i \in 1..Len(rest) : rest[i].n \in Int
    BY <1>2, TokensAre
  <2>2. Numbers(rest) = [i \in 1..Len(rest) |-> rest[i].n]
    BY <1>2 DEF Numbers
  <2> HIDE DEF rest, bytes
  <2>3. bytes = [i \in 1..Len(rest) |-> rest[i].n] /\ bytes \in [1..Len(rest) -> Int]
    BY <1>1, <2>1, <2>2
  <2> QED BY <1>2, <2>3, LenProperties
<1>4. Len(e.body) \in Nat /\ e.body \in Seq(Int) /\ Len(e.have) \in Nat
  BY PartsOf
<1>5. CASE e.code = 200
  <2>1. bytes = e.body /\ Before(e) = 0
    BY <1>5 DEF ToSend, Before
  <2> HIDE DEF rest, bytes
  <2>2. Len(e.body) = Len(rest) /\ \A i \in 1..Len(rest) : e.body[0 + i] = rest[i].n
    BY <1>2, <1>3, <2>1
  <2> QED BY <1>1, <1>3, <1>2, <2>1, <2>2 DEF rest
<1>6. CASE e.code = 206
  <2>1. bytes = SubSeq(e.body, Len(e.have) + 1, Len(e.body)) /\ Before(e) = Len(e.have)
    BY <1>6 DEF ToSend, Before
  <2>2. Len(e.have) <= Len(e.body)
    BY <1>6 DEF Kept206
  <2> HIDE DEF rest, bytes
  <2>4. /\ Len(bytes) = Len(e.body) - Len(e.have)
        /\ \A i \in 1..Len(e.body) - Len(e.have) : bytes[i] = e.body[Len(e.have) + i]
    BY <1>4, <2>1, <2>2, RestType
  <2>5. Len(e.body) = Len(e.have) + Len(rest)
    BY <1>2, <1>3, <1>4, <2>4
  <2>6. ASSUME NEW i \in 1..Len(rest) PROVE e.body[Len(e.have) + i] = rest[i].n
    <3>1. i \in 1..Len(e.body) - Len(e.have)
      BY <1>2, <1>4, <2>5
    <3> QED BY <1>3, <2>4, <3>1
  <2> QED BY <1>1, <1>3, <2>1, <2>5, <2>6 DEF rest
<1> QED BY <1>1, <1>3, <1>5, <1>6

(* What is already on disk of a rest is the beginning. *)
LEMMA HavePrefix ==
  ASSUME NEW e \in Exchanges, Kept206(e), e.code = 206
  PROVE  Prefix(e, e.have, Len(e.have))
<1>1. /\ e.have \in Seq(Int) /\ e.body \in Seq(Int)
      /\ Len(e.have) \in 0..Len(e.body) /\ e.have = SubSeq(e.body, 1, Len(e.have))
  BY PartsOf DEF Kept206
<1>2. \A i \in 1..Len(e.have) : SubSeq(e.body, 1, Len(e.have))[i] = e.body[i]
  BY <1>1, CutType
<1> QED BY <1>1, <1>2 DEF Prefix

(* A server that only sends headers. *)
LEMMA BareIs ==
  ASSUME NEW e \in Exchanges, NEW h \in DOMAIN e.wire, Sincere(e, h), Bare(e)
  PROVE  Len(After(e, h)) = 0
<1>1. After(e, h) = <<>>
  BY DEF Sincere
<1> QED BY <1>1, EmptySeq

(* The file is what was there, or a beginning of the resource. *)
Beginning(e, f) == f = e.have \/ f = SubSeq(e.body, 1, Len(f))

(* What is known once it is over. *)
LEMMA FollowOver ==
  ASSUME NEW e, NEW h, slot'.status \in {"ready", "free"}, OutOfBody(e)',
         ~(e.code = 206 /\ e.framing = "chunked") => Outcome(e)'
  PROVE  Following(e, h)'
BY DEF Following, Heading, InBody, Faithful, Receiving

(* An error is no outcome. *)
LEMMA FollowFails ==
  ASSUME NEW e, NEW h, Fails,
         ~(e.code = 206 /\ e.framing = "chunked") => Beginning(e, file')
  PROVE  Following(e, h)'
<1>1. slot'.status = "ready" /\ OutOfBody(e)'
  BY DEF Fails, OutOfBody
<1>2. slot'.code # 200 /\ slot'.entry # 200
  <2>1. slot'.code \in Int /\ slot'.code < 0 /\ slot'.entry = 0
    BY SlotType DEF Fails
  <2> QED BY <2>1
<1>3. Beginning(e, file') => Outcome(e)'
  BY <1>2 DEF Outcome, Beginning
<1> QED BY <1>1, <1>3, FollowOver

(* So is the end of a reception with an error. *)
LEMMA FollowBad ==
  ASSUME NEW e, NEW h, slot' \in Slot, slot'.status = "ready", slot'.soc = "closed",
         slot'.code < 0, slot'.entry = 0,
         ~(e.code = 206 /\ e.framing = "chunked") => Beginning(e, file')
  PROVE  Following(e, h)'
<1>1. OutOfBody(e)'
  BY DEF OutOfBody
<1>2. slot'.code # 200 /\ slot'.entry # 200
  <2>1. slot'.code \in Int
    BY SlotType
  <2> QED BY <2>1
<1>3. Beginning(e, file') => Outcome(e)'
  BY <1>2 DEF Outcome, Beginning
<1> QED BY <1>1, <1>3, FollowOver

(* The file has always been one or the other. *)
LEMMA FollowBeginning ==
  ASSUME Basic, NEW e \in Exchanges, x = e, NEW h, Sincere(e, h), Following(e, h),
         ~(e.code = 206 /\ e.framing = "chunked")
  PROVE  Beginning(e, file)
<1>1. CASE slot.status = "headers"
  BY <1>1 DEF Basic, Fresh, Beginning
<1>2. CASE Receiving
  <2>1. ~Bare(e)
    BY <1>2 DEF Basic, Taking, HeadersOnly, Bare
  <2>2. OnDisk(e)
    <3>1. CASE e.framing # "chunked"
      BY <1>2, <3>1 DEF Following, Faithful, Plainly
    <3>2. CASE e.framing = "chunked"
      <4> DEFINE rest == After(e, h)
                 bytes == ToSend(e, rest)
      <4>1. PICK off \in [Sizes(rest) -> 0..Len(bytes)] : AreChunks(rest, bytes, off)
        BY <2>1, <3>2 DEF Sincere, Framed
      <4> QED BY <1>2, <3>2, <4>1 DEF Following, Faithful, Chunkly
    <3> QED BY <3>1, <3>2
  <2>3. CASE slot.write
    <3>1. slot.size \in Nat
      BY SlotType DEF Basic, TypeOK
    <3> QED BY <2>2, <2>3, <3>1, PrefixIs DEF OnDisk, Beginning
  <2>4. CASE ~slot.write
    BY <2>2, <2>4 DEF OnDisk, Beginning
  <2> QED BY <2>3, <2>4
<1>3. CASE Over
  BY <1>3 DEF Following, Faithful, Outcome, Beginning
<1>4. slot.status \in {"headers", "body", "size", "crlf", "ready", "free"}
  BY SlotType DEF Basic, TypeOK
<1> QED BY <1>1, <1>2, <1>3, <1>4 DEF Receiving, Over

(* An empty file is a beginning as well. *)
LEMMA OpenedBeginning ==
  ASSUME NEW e \in Exchanges, Beginning(e, file)
  PROVE  Beginning(e, OpenedFile)
BY PrefixNone, PrefixIs, EmptySeq DEF OpenedFile, Beginning

(* Where the headers are, and what follows them. *)
LEMMA HeadPart ==
  ASSUME Basic, HeadStep, UNCHANGED <<x, cut>>,
         NEW e \in Exchanges, NEW h \in DOMAIN e.wire, x = e, Sincere(e, h), Heading(e, h)
  PROVE  IF Interim THEN \E p \in 0..h - 1 : Part(e.wire, p)' ELSE Part(After(e, h), 0)'
<1>1. /\ slot.status = "headers"
      /\ wire \in Seq(Tokens) /\ Skip(1) /\ 1 \in 0..Len(wire) /\ Head(wire) = wire[1]
      /\ 1 \in 1..Len(wire) /\ Len(wire) \in Nat
  BY HeadFrame, HeadSkip
<1>2. PICK p \in 0..h - 1 : Part(e.wire, p)
  BY <1>1 DEF Heading
<1>3. /\ e.wire \in Seq(Tokens) /\ h \in Nat \ {0} /\ h <= Len(e.wire)
      /\ Len(e.wire) \in Nat
      /\ After(e, h) \in Seq(Tokens) /\ Len(After(e, h)) = Len(e.wire) - h
      /\ \A i \in 1..Len(e.wire) - h : After(e, h)[i] = e.wire[h + i]
  BY AfterIs
<1>4. p \in Nat /\ cut' = cut
  BY <1>3
<1>5. Part(e.wire, p + 1)' /\ wire[1] = e.wire[p + 1]
  BY <1>1, <1>2, <1>3, <1>4, PartSkip
<1>6. p + 1 \in 1..h /\ e.wire[p + 1].is = IF p + 1 = h THEN "head" ELSE "continue"
  <2>1. p + 1 \in 1..h
    BY <1>3, <1>4
  <2> QED BY <2>1 DEF Sincere, Headed
<1>7. CASE Interim
  <2>1. p + 1 # h
    BY <1>1, <1>5, <1>6, <1>7 DEF Interim
  <2>2. p + 1 \in 0..h - 1
    BY <1>3, <1>4, <1>6, <2>1
  <2> QED BY <1>5, <1>7, <2>2
<1>8. CASE ~Interim
  <2>1. AtHead
    BY <1>8 DEF HeadStep, TooBig, TestHead, NotModified, AlreadyComplete, Start,
       PartialStart, PartialRefused
  <2>2. p + 1 = h
    BY <1>1, <1>5, <1>6, <2>1 DEF AtHead
  <2>3. wire' \in Seq(Tokens) /\ Len(wire') \in Nat
    BY HeadFrame, TokensAre DEF Frame
  <2>4. /\ h + Len(wire') <= Len(e.wire)
        /\ cut' \/ h + Len(wire') = Len(e.wire)
        /\ \A i \in 1..Len(wire') : wire'[i] = e.wire[h + i]
    BY <1>5, <2>2 DEF Part
  <2>5. 0 + Len(wire') <= Len(After(e, h)) /\ (cut' \/ 0 + Len(wire') = Len(After(e, h)))
    <3>1. 0 + Len(wire') <= Len(After(e, h))
      BY <1>3, <2>3, <2>4
    <3>2. h + Len(wire') = Len(e.wire) => 0 + Len(wire') = Len(After(e, h))
      BY <1>3, <2>3
    <3> QED BY <2>4, <3>1, <3>2
  <2>6. ASSUME NEW i \in 1..Len(wire') PROVE wire'[i] = After(e, h)[0 + i]
    <3>1. i \in 1..Len(e.wire) - h /\ 0 + i = i
      BY <1>3, <2>3, <2>4
    <3> QED BY <1>3, <2>4, <3>1
  <2> QED BY <1>8, <2>5, <2>6 DEF Part
<1> QED BY <1>7, <1>8

(* Nothing is left to come. *)
LEMMA PartEmpty ==
  ASSUME NEW s \in Seq(Tokens), NEW p \in Nat, Part(s, p)', wire' \in Seq(Tokens), p >= Len(s)
  PROVE  wire' = <<>>
<1>1. Len(wire') \in Nat /\ Len(s) \in Nat /\ p + Len(wire') <= Len(s)
  BY TokensAre DEF Part
<1>2. Len(wire') = 0
  BY <1>1
<1> QED BY <1>2, TokensAre

(* The headers end an answer that has no body. *)
LEMMA FollowHead ==
  ASSUME Basic, HeadStep, UNCHANGED <<x, cut>>,
         NEW e \in Exchanges, NEW h \in DOMAIN e.wire, x = e,
         Sincere(e, h), Following(e, h),
         Interim \/ TooBig \/ PartialRefused \/ TestHead \/ NotModified \/ AlreadyComplete
  PROVE  Following(e, h)'
<1>1. /\ Frame /\ file' = file /\ slot.status = "headers" /\ Heading(e, h) /\ file = e.have
  BY HeadFrame DEF Following, Basic, Fresh
<1>2. Beginning(e, file')
  BY <1>1 DEF Beginning
<1>3. IF Interim THEN \E p \in 0..h - 1 : Part(e.wire, p)' ELSE Part(After(e, h), 0)'
  BY <1>1, HeadPart
<1>4. CASE Interim
  <2>1. slot' = slot
    BY <1>4, InterimBasic
  <2>2. Heading(e, h)'
    BY <1>3, <1>4 DEF Heading
  <2> QED BY <1>1, <2>1, <2>2 DEF Following, InBody, OutOfBody, Faithful, Receiving, Over
<1>5. CASE TooBig \/ PartialRefused
  BY <1>2, <1>5, HeadFails, FollowFails
<1>6. Bare(e) /\ ~Interim => wire' = <<>>
  <2>1. SUFFICES ASSUME Bare(e), ~Interim PROVE wire' = <<>>
    OBVIOUS
  <2>2. Part(After(e, h), 0)' /\ Len(After(e, h)) = 0 /\ After(e, h) \in Seq(Tokens)
    BY <1>3, <2>1, BareIs, AfterIs
  <2>3. wire' \in Seq(Tokens) /\ 0 \in Nat /\ 0 >= Len(After(e, h))
    BY <1>1, <2>2 DEF Frame
  <2> QED BY <2>2, <2>3, PartEmpty
<1>7. CASE TestHead
  <2>1. /\ slot'.status = "ready" /\ slot'.entry = 0 /\ Tested /\ x' = x /\ HeadersOnly
        /\ ~Interim
    BY <1>1, <1>7, TestHeadBasic DEF Frame, TestHead, Interim, AtHead
  <2>2. OutOfBody(e)'
    BY <1>6, <2>1 DEF OutOfBody, HeadersOnly, Bare
  <2>3. Outcome(e)'
    BY <1>2, <2>1 DEF Outcome, Beginning, Tested
  <2> QED BY <2>1, <2>2, <2>3, FollowOver
<1>8. CASE NotModified \/ AlreadyComplete
  <2>1. /\ slot'.status = "ready"
        /\ ~Tested => slot'.entry = 200 \/ slot'.guessed
        /\ ~slot'.write /\ ~slot'.alloc
        /\ AlreadyComplete => slot'.soc = "closed"
    BY <1>8, DiskBasic
  <2>2. x' = x /\ ~Interim
    BY <1>1, <1>8 DEF Frame, NotModified, AlreadyComplete, Interim, AtHead
  <2>3. OutOfBody(e)'
    BY <1>6, <1>8, <2>1, <2>2 DEF OutOfBody, NotModified, Bare
  <2>4. Outcome(e)'
    BY <1>2, <2>1, <2>2 DEF Outcome, Beginning, Tested
  <2> QED BY <2>1, <2>3, <2>4, FollowOver
<1> QED BY <1>4, <1>5, <1>7, <1>8

(* The body begins as the server says. *)
LEMMA FollowStart ==
  ASSUME Basic, Basic', HeadStep, UNCHANGED <<x, cut>>, Start \/ PartialStart,
         NEW e \in Exchanges, NEW h \in DOMAIN e.wire, x = e, Kept206(e),
         Sincere(e, h), Following(e, h)
  PROVE  Following(e, h)'
<1> DEFINE rest == After(e, h)
           bytes == ToSend(e, rest)
<1>1. /\ Frame /\ file' = file /\ slot.status = "headers" /\ Heading(e, h) /\ file = e.have
  BY HeadFrame DEF Following, Basic, Fresh
<1>2. Beginning(e, file')
  BY <1>1 DEF Beginning
<1>3. ~HeadersOnly /\ e.code # 304 /\ ~Interim /\ ~Bare(e)
  BY DEF Start, PartialStart, Interim, AtHead, HeadersOnly, Bare
<1>4. /\ Part(rest, 0)' /\ rest \in Seq(Tokens) /\ Len(rest) \in Nat /\ wire' \in Seq(Tokens)
      /\ Len(wire') \in Nat
  BY <1>1, <1>3, HeadPart, AfterIs, TokensAre DEF Frame
<1>5. /\ e.kind \in Kinds /\ e.have \in Seq(Int) /\ e.body \in Seq(Int)
         /\ e.code \in Nat \ {0} /\ e.framing \in Framings /\ e.length \in Nat
         /\ Len(e.have) \in Nat /\ Len(e.body) \in Nat /\ Before(e) \in Nat
  BY PartsOf
<1>6. PICK s \in Slot :
           /\ Intact(s) /\ s.soc = "open" /\ Good(s) /\ slot' \in StartBody(s)
           /\ s.block = 0 /\ ~s.chunked /\ ~s.alloc /\ s.code # 304
           /\ s.code = IF e.code = 206 THEN 200 ELSE e.code
           /\ s.write <=> e.code = 206
           /\ s.size = Before(e)
           /\ s.total = IF e.framing = "length" THEN e.length + s.size ELSE -1
  BY StartIs DEF Before
<1>7. Started(s, slot') /\ x' = e
  BY <1>6, StartBodyIs
<1> HIDE DEF rest, bytes
<1>8. CASE e.kind = "test"
  <2>1. slot'.status = "ready" /\ slot'.soc = "closed" /\ slot'.entry = 0
    BY <1>7, <1>8 DEF Started
  <2>2. OutOfBody(e)' /\ Outcome(e)'
    BY <1>2, <1>7, <1>8, <2>1 DEF OutOfBody, Outcome, Beginning, Tested
  <2> QED BY <2>1, <2>2, FollowOver
<1>9. CASE e.kind # "test" /\ e.framing = "length" /\ e.length = 0
  <2>1. /\ Len(rest) = 0
        /\ e.code \in {200, 206} => Len(e.body) = Before(e) + Len(rest)
    BY <1>3, <1>9, PlainIs DEF rest
  <2>2. ~WrongLength(s) /\ ~Tested
    <3>1. ~Tested
      BY <1>3, <1>9 DEF Tested, HeadersOnly
    <3>2. s.total = s.size
      BY <1>5, <1>6, <1>9
    <3> QED BY <3>1, <3>2 DEF WrongLength
  <2>3. /\ slot'.status = "ready" /\ slot'.write = s.write
        /\ slot'.code = s.code /\ slot'.entry = s.code /\ slot'.kept = Before(e)
    BY <1>6, <1>7, <1>9, <2>2 DEF Started
  <2>4. wire' = <<>>
    <3>1. 0 \in Nat /\ 0 >= Len(rest)
      BY <2>1
    <3> QED BY <1>4, <3>1, PartEmpty
  <2>5. slot'.entry = 200 => Stored(e)'
    <3>1. SUFFICES ASSUME slot'.entry = 200 PROVE Stored(e)'
      OBVIOUS
    <3>2. Len(e.body) = Before(e)
      BY <1>5, <1>6, <2>1, <2>3, <3>1
    <3>3. CASE e.code = 206
      <4>1. Prefix(e, file', Len(e.body))
        BY <1>1, <3>2, <3>3, HavePrefix DEF Before
      <4>2. file' = e.body
        BY <1>5, <4>1, PrefixIs
      <4> QED BY <1>6, <2>3, <3>3, <4>2 DEF Stored
    <3>4. CASE e.code # 206
      BY <1>6, <2>3, <3>2, <3>4 DEF Stored
    <3> QED BY <3>3, <3>4
  <2>6. Outcome(e)' /\ OutOfBody(e)'
    BY <1>2, <2>3, <2>4, <2>5 DEF Outcome, OutOfBody, Beginning
  <2> QED BY <2>3, <2>6, FollowOver
<1>10. CASE e.kind # "test" /\ ~(e.framing = "length" /\ e.length = 0)
  <2>1. /\ slot'.code = s.code /\ slot'.soc = "open" /\ slot'.block = 0
        /\ slot'.size = Before(e) /\ (slot'.write <=> e.code = 206) /\ ~slot'.alloc
        /\ e.framing = "chunked" => slot'.status = "size" /\ slot'.total = -1
        /\ e.framing # "chunked" => slot'.status = "body" /\ slot'.total = s.total
    BY <1>6, <1>7, <1>10 DEF Started
  <2>2. slot'.status \in {"size", "body"}
    BY <2>1
  <2>3. Heading(e, h)' /\ OutOfBody(e)'
    BY <2>2 DEF Heading, OutOfBody, Over
  <2>4. InBody(rest)'
    <3>1. 0 \in 0..Len(rest)
      BY <1>4
    <3> QED BY <1>4, <2>1, <3>1 DEF InBody
  <2>5. OnDisk(e)'
    <3>1. CASE e.code = 206
      BY <1>1, <2>1, <3>1, HavePrefix DEF OnDisk, Before
    <3>2. CASE e.code # 206
      BY <1>1, <2>1, <3>2 DEF OnDisk, Before
    <3> QED BY <3>1, <3>2
  <2>6. e.framing # "chunked" => Plainly(e, rest)'
    <3>1. SUFFICES ASSUME e.framing # "chunked" PROVE Plainly(e, rest)'
      OBVIOUS
    <3>2. e.framing = "length" => e.length = Len(rest)
      BY <1>3, <3>1, PlainIs DEF rest
    <3>3. slot'.total = IF e.framing = "length" THEN Before(e) + Len(rest) ELSE -1
      BY <1>4, <1>5, <1>6, <2>1, <3>1, <3>2
    <3>4. 0 \in 0..Len(rest) /\ slot'.size = Before(e) + 0
      BY <1>4, <1>5, <2>1
    <3> QED BY <1>4, <2>5, <3>3, <3>4 DEF Plainly
  <2>7. ASSUME e.framing = "chunked", e.code # 206,
               NEW off \in [Sizes(rest) -> 0..Len(bytes)], AreChunks(rest, bytes, off)
        PROVE  Chunkly(e, rest, off)'
    <3>1. 1 \in Sizes(rest) /\ off[1] = 0
      BY <2>7 DEF AreChunks
    <3>2. slot'.size = 0 /\ ~slot'.write /\ 0 + 1 = 1 /\ 0 \in 0..Len(rest)
      BY <1>4, <2>1, <2>7 DEF Before
    <3>3. AtSize(rest, off, 0)'
      BY <2>1, <2>7, <3>1, <3>2 DEF AtSize
    <3> QED BY <1>4, <2>5, <3>2, <3>3 DEF Chunkly
  <2>8. ~(e.code = 206 /\ e.framing = "chunked") => Faithful(e, rest, bytes)'
    BY <2>2, <2>6, <2>7 DEF Faithful, Over
  <2> QED BY <2>3, <2>4, <2>8 DEF Following, rest, bytes
<1> QED BY <1>8, <1>9, <1>10

ChunkedRestOf(e) == e.code = 206 /\ e.framing = "chunked"

(* What a body that is received is known to be. *)
LEMMA TakingIs ==
  ASSUME Basic, Receiving, NEW e, x = e
  PROVE  /\ ~Tested /\ ~Bare(e) /\ Busy /\ e \in Exchanges
         /\ slot.chunked <=> e.framing = "chunked"
         /\ slot.code = IF e.code = 206 THEN 200 ELSE e.code
         /\ e.code = 206 => slot.write
         /\ slot.status \in {"body", "size", "crlf"}
         /\ slot.block = -1 => slot.status = "crlf"
         /\ slot.block = 0 => slot.status # "crlf" /\ (slot.chunked => slot.status = "size")
         /\ slot.size \in Nat /\ slot.total \in Int /\ slot.block \in Int
BY SlotType DEF Basic, TypeOK, Taking, Receiving, Busy, HeadersOnly, Tested, Bare

(* The end of a reception, with an error or not. *)
LEMMA FollowEnds ==
  ASSUME NEW e \in Exchanges, NEW h, x = e, UNCHANGED <<x, cut>>,
         NEW s, Intact(s), s.soc \in {"open", "closed"},
         NEW error \in BOOLEAN, slot' \in Ends(s, error),
         ~error /\ Good(s) => ~Tested /\ (s.soc = "open" => wire' = <<>>),
         ~ChunkedRestOf(e) => Beginning(e, file'),
         ~error /\ Good(s) /\ ~ChunkedRestOf(e) => s.total < 0 \/ s.size <= s.total,
         /\ ~error /\ ~ChunkedRestOf(e) /\ s.code = 200 /\ (s.write \/ s.alloc)
         /\ s.total < 0 \/ s.size = s.total
         /\ e.framing = "length" \/ ~cut
         => IF s.write THEN file' = e.body ELSE s.size = Len(e.body)
  PROVE  Following(e, h)'
<1>1. /\ slot' \in Slot /\ slot'.status = "ready"
      /\ slot'.write = s.write
      /\ slot'.soc \in {"parked", "closed"}
      /\ slot'.soc = "parked" => s.soc = "open" /\ ~error /\ s.code >= 0
      /\ error \/ ~Good(s) => slot'.code < 0 /\ slot'.entry = 0
      /\ ~error /\ Good(s) =>
           /\ WrongLength(s) => slot'.entry = 0
           /\ WrongLength(s) => slot'.code = IF s.size < s.total THEN CONNERROR ELSE s.code
           /\ ~WrongLength(s) => slot'.code = s.code /\ slot'.alloc = s.alloc
           /\ ~WrongLength(s) /\ ~Tested => slot'.entry = s.code /\ slot'.kept = s.size
  BY EndsIs DEF Intact
<1>2. s.code \in Int /\ s.code # 0 /\ s.total \in Int /\ s.size \in Nat /\ s.total >= -1
  BY SlotType DEF Intact
<1>3. CASE error \/ ~Good(s)
  <2>1. slot'.soc = "closed"
    BY <1>1, <1>2, <1>3 DEF Good
  <2> QED BY <1>1, <1>3, <2>1, FollowBad DEF ChunkedRestOf
<1>4. CASE ~(error \/ ~Good(s))
  <2>1. OutOfBody(e)'
    BY <1>1, <1>4 DEF OutOfBody
  <2>2. ASSUME ~ChunkedRestOf(e) PROVE Outcome(e)'
    <3>1. CASE WrongLength(s)
      <4>1. slot'.entry = 0 /\ slot'.code = CONNERROR
        BY <1>1, <1>2, <1>4, <2>2, <3>1 DEF WrongLength
      <4> QED BY <2>2, <4>1 DEF Outcome, Beginning, CONNERROR
    <3>2. CASE ~WrongLength(s)
      <4>1. /\ slot'.code = s.code /\ slot'.alloc = s.alloc
            /\ slot'.entry = s.code /\ slot'.kept = s.size
        BY <1>1, <1>4, <3>2
      <4>2. s.total < 0 \/ s.size = s.total
        BY <1>2, <3>2 DEF WrongLength
      <4>3. ASSUME slot'.entry = 200, slot'.write \/ slot'.alloc,
                   e.framing = "length" \/ ~cut'
            PROVE  Stored(e)'
        <5>1. ~error /\ s.code = 200 /\ (s.write \/ s.alloc)
          BY <1>1, <1>4, <4>1, <4>3
        <5>2. e.framing = "length" \/ ~cut
          BY <4>3
        <5>3. IF s.write THEN file' = e.body ELSE s.size = Len(e.body)
          BY <2>2, <4>2, <5>1, <5>2
        <5> QED BY <1>1, <4>1, <5>3 DEF Stored
      <4> QED BY <2>2, <4>1, <4>3 DEF Outcome, Beginning
    <3> QED BY <3>1, <3>2
  <2> QED BY <1>1, <2>1, <2>2, FollowOver DEF ChunkedRestOf
<1> QED BY <1>3, <1>4

(* What is on disk grows by what comes. *)
LEMMA DiskMore ==
  ASSUME Basic, Receiving, NEW e \in Exchanges, x = e, OnDisk(e),
         NEW n \in 1..Len(wire), Written(n),
         e.code \in {200, 206} =>
           /\ slot.size + n <= Len(e.body)
           /\ \A i \in 1..n : wire[i].n = e.body[slot.size + i]
  PROVE  /\ slot.write \/ Opens => e.code \in {200, 206} /\ Prefix(e, file', slot.size + n)
         /\ ~(slot.write \/ Opens) => file' = e.have /\ ~Opened.write
         /\ ~Opened.write \/ (slot.write \/ Opens)
<1>1. /\ Busy /\ slot.size \in Nat /\ e.code = 206 => slot.write
      /\ slot.code = IF e.code = 206 THEN 200 ELSE e.code
  BY TakingIs
<1>2. /\ Content(n) \in Seq(Int) /\ Len(Content(n)) = n
      /\ \A i \in 1..n : Content(n)[i] = wire[i].n
  BY ContentType DEF Basic
<1>3. Opened.write <=> (slot.write \/ Opens)
  BY <1>1, OpenedIs, TakingIs
<1>4. ASSUME slot.write \/ Opens
      PROVE  e.code \in {200, 206} /\ Prefix(e, file', slot.size + n)
  <2>1. e.code \in {200, 206}
    BY <1>1, <1>4, TakingIs DEF Opens, OnDisk
  <2>2. Prefix(e, OpenedFile, slot.size)
    <3>1. CASE Opens
      <4>1. OpenedFile = <<>> /\ slot.size = 0
        BY <3>1 DEF OpenedFile, Opens, OnDisk
      <4> QED BY <4>1, PrefixNone
    <3>2. CASE ~Opens
      BY <1>4, <3>2 DEF OpenedFile, OnDisk
    <3> QED BY <3>1, <3>2
  <2>3. file' = OpenedFile \o Content(n)
    BY <1>3, <1>4 DEF Written
  <2>4. /\ slot.size + Len(Content(n)) <= Len(e.body)
        /\ \A i \in 1..Len(Content(n)) : Content(n)[i] = e.body[slot.size + i]
    BY <1>2, <2>1
  <2>5. Prefix(e, OpenedFile \o Content(n), slot.size + Len(Content(n)))
    BY <1>2, <2>2, <2>4, TakingIs, PrefixMore
  <2> QED BY <1>2, <2>1, <2>3, <2>5
<1>5. ASSUME ~(slot.write \/ Opens)
      PROVE  file' = e.have /\ ~Opened.write
  BY <1>3, <1>5 DEF Written, OpenedFile, OnDisk
<1> QED BY <1>3, <1>4, <1>5

(* What is received does not pass what was announced. *)
LEMMA NoMore ==
  ASSUME Basic, Receiving, NEW e \in Exchanges, x = e, NEW h \in DOMAIN e.wire,
         Sincere(e, h), Following(e, h), ~ChunkedRestOf(e)
  PROVE  /\ OnDisk(e)
         /\ slot.total < 0 \/ slot.size <= slot.total
<1> DEFINE rest == After(e, h)
           bytes == ToSend(e, rest)
<1>1. rest \in Seq(Tokens) /\ Len(rest) \in Nat
  BY AfterIs
<1>2. ~Bare(e) /\ slot.size \in Nat /\ slot.total \in Int /\ slot.block \in Int
  BY TakingIs
<1>3. Faithful(e, rest, bytes)
  BY DEF Following, ChunkedRestOf
<1>4. CASE e.framing # "chunked"
  <2>1. PICK p \in 0..Len(rest) :
          /\ OnDisk(e) /\ slot.size = Before(e) + p
          /\ slot.total = IF e.framing = "length" THEN Before(e) + Len(rest) ELSE -1
    BY <1>3, <1>4 DEF Faithful, Plainly
  <2>2. Before(e) \in Nat
    BY PartsOf
  <2> QED BY <1>1, <2>1, <2>2
<1>5. CASE e.framing = "chunked"
  <2>1. PICK off \in [Sizes(rest) -> 0..Len(bytes)] : AreChunks(rest, bytes, off)
    BY <1>2, <1>5 DEF Sincere, Framed
  <2>2. Chunkly(e, rest, off)
    BY <1>3, <1>5, <2>1 DEF Faithful
  <2>3. PICK p \in 0..Len(rest) :
          /\ OnDisk(e)
          /\ AtSize(rest, off, p) \/ InChunk(rest, off, p) \/ AtEnd(rest, off, p)
    BY <2>2 DEF Chunkly
  <2>5. CASE AtSize(rest, off, p)
    BY <2>3, <2>5 DEF AtSize
  <2>6. CASE InChunk(rest, off, p)
    <3>1. PICK s \in Sizes(rest) :
            /\ p \in s..s + rest[s].n /\ slot.size = off[s] + (p - s)
            /\ slot.total = off[s] + rest[s].n
      BY <2>6 DEF InChunk
    <3>2. s \in 1..Len(rest) /\ rest[s].n \in Int /\ p \in Int
      BY <1>1, <2>3, <3>1, TokensAre DEF Sizes
    <3>3. off[s] \in 0..Len(bytes)
      BY <2>1, <3>1
    <3>4. off[s] \in Int
      BY <3>3
    <3> QED BY <2>3, <3>1, <3>2, <3>4
  <2>7. CASE AtEnd(rest, off, p)
    BY <1>2, <2>3, <2>7 DEF AtEnd
  <2> QED BY <2>3, <2>5, <2>6, <2>7
<1> QED BY <1>4, <1>5

(* The file cannot be created: nothing is in memory, and nothing is written.*)
LEMMA FollowCreateFails ==
  ASSUME Basic, CreateFails, UNCHANGED <<x, cut>>,
         NEW e \in Exchanges, NEW h \in DOMAIN e.wire, x = e,
         Sincere(e, h), Following(e, h)
  PROVE  Following(e, h)'
<1> DEFINE s == Closed(slot)
<1>1. /\ Intact(s) /\ s.soc = "closed"
      /\ slot' \in Ends(s, FALSE) /\ file' = file
      /\ s.code = slot.code /\ s.size = slot.size /\ s.total = slot.total
      /\ s.write = slot.write /\ s.alloc = slot.alloc
      /\ ~slot.write /\ ~slot.alloc /\ Receiving
  BY CreateFailsBasic DEF CreateFails, Opens
<1> HIDE DEF s
<1>2. ~Tested
  BY <1>1, TakingIs
<1>3. ~ChunkedRestOf(e) => /\ Beginning(e, file')
                           /\ s.total < 0 \/ s.size <= s.total
  BY <1>1, FollowBeginning, NoMore DEF ChunkedRestOf
<1>4. FALSE \in BOOLEAN
  OBVIOUS
<1> QED BY <1>1, <1>2, <1>3, <1>4, FollowEnds

(* The disk refuses the bytes. *)
LEMMA FollowWriteFails ==
  ASSUME Basic, WriteFails, UNCHANGED <<x, cut>>,
         NEW e \in Exchanges, NEW h \in DOMAIN e.wire, x = e,
         Sincere(e, h), Following(e, h)
  PROVE  Following(e, h)'
<1>1. file' = OpenedFile
  BY WriteFailsBasic
<1>2. PICK s \in Slot, error \in BOOLEAN :
        Intact(s) /\ s.soc = "open" /\ s.code = INVALID /\ slot' \in Ends(s, error)
  BY WriteFailsBasic
<1>3. ~Good(s) /\ s.code # 200
  BY <1>2 DEF Good, INVALID
<1>4. ~ChunkedRestOf(e) => Beginning(e, file')
  BY <1>1, FollowBeginning, OpenedBeginning DEF ChunkedRestOf
<1> QED BY <1>2, <1>3, <1>4, FollowEnds

(* An answer is given up. *)
LEMMA FollowGivenUp ==
  ASSUME Basic, Timeout \/ Slow \/ Cancel, UNCHANGED <<x, cut>>,
         NEW e \in Exchanges, NEW h \in DOMAIN e.wire, x = e,
         Sincere(e, h), Following(e, h)
  PROVE  Following(e, h)'
<1>1. Fails /\ file' = file
  BY GivenUpBasic
<1>2. ~(e.code = 206 /\ e.framing = "chunked") => Beginning(e, file')
  BY <1>1, FollowBeginning
<1> QED BY <1>1, <1>2, FollowFails

(* What is over stays as it is. *)
LEMMA FollowRests ==
  ASSUME Basic, Park \/ Delete, UNCHANGED <<x, cut>>,
         NEW e \in Exchanges, NEW h \in DOMAIN e.wire, x = e, Following(e, h)
  PROVE  Following(e, h)'
<1>1. /\ Rests /\ UNCHANGED <<wire, file>> /\ Over
  BY RestsIs DEF Park, Delete, Over
<1>2. OutOfBody(e)'
  BY <1>1 DEF Following, OutOfBody, Rests, Over
<1>3. ~(e.code = 206 /\ e.framing = "chunked") => Outcome(e)'
  BY <1>1 DEF Following, Faithful, Outcome, Rests, Stored, Tested
<1> QED BY <1>1, <1>2, <1>3, FollowOver DEF Rests

(* The bytes of a body come. *)
LEMMA FollowReadBody ==
  ASSUME Basic, Basic', ReadBody, UNCHANGED <<x, cut>>,
         NEW e \in Exchanges, NEW h \in DOMAIN e.wire, x = e, Kept206(e),
         Sincere(e, h), Following(e, h)
  PROVE  Following(e, h)'
<1> DEFINE rest == After(e, h)
<1>1. /\ Receiving /\ Busy /\ slot.status = "body" /\ ~slot.chunked /\ e.framing # "chunked"
      /\ ~Bare(e) /\ ~Tested
  BY TakingIs DEF ReadBody, Receiving
<1>2. PICK n \in 1..Len(wire) :
        /\ Skip(n) /\ Written(n)
        /\ slot' \in IF Longer(n).size = Longer(n).total
                      THEN Ends(Longer(n), FALSE) ELSE {Longer(n)}
  BY DEF ReadBody
<1>3. /\ wire \in Seq(Tokens) /\ Len(wire) \in Nat /\ n \in Nat /\ n \in 0..Len(wire)
      /\ slot.size \in Nat /\ slot.code \in Int
  BY <1>1, BusyIs
<1>4. rest \in Seq(Tokens) /\ Len(rest) \in Nat
  BY AfterIs
<1>5. /\ Before(e) \in Nat /\ Len(e.body) \in Nat /\ e.framing \in Framings
  BY PartsOf
<1>6. PICK p \in 0..Len(rest) :
        /\ Part(rest, p) /\ OnDisk(e) /\ slot.size = Before(e) + p
        /\ slot.total = IF e.framing = "length" THEN Before(e) + Len(rest) ELSE -1
  BY <1>1 DEF Following, Faithful, Plainly
<1>7. /\ e.code \in {200, 206} =>
              /\ Len(e.body) = Before(e) + Len(rest)
              /\ \A i \in 1..Len(rest) : e.body[Before(e) + i] = rest[i].n
  BY <1>1, PlainIs
<1> HIDE DEF rest
<1>8. /\ Part(rest, p + n)' /\ p + n \in 0..Len(rest)
      /\ \A i \in 1..n : wire[i] = rest[p + i]
  <2>1. p \in Nat /\ cut' = cut
    BY <1>4
  <2> QED BY <1>2, <1>3, <1>4, <1>6, <2>1, PartSkip
<1>9. /\ slot.write \/ Opens => e.code \in {200, 206} /\ Prefix(e, file', slot.size + n)
      /\ ~(slot.write \/ Opens) => file' = e.have /\ ~Opened.write
      /\ ~Opened.write \/ (slot.write \/ Opens)
  <2>1. ASSUME e.code \in {200, 206}
        PROVE  /\ slot.size + n <= Len(e.body)
               /\ \A i \in 1..n : wire[i].n = e.body[slot.size + i]
    <3>1. slot.size + n <= Len(e.body)
      BY <1>3, <1>4, <1>5, <1>6, <1>7, <1>8, <2>1
    <3>2. ASSUME NEW i \in 1..n PROVE wire[i].n = e.body[slot.size + i]
      <4>1. p + i \in 1..Len(rest) /\ slot.size + i = Before(e) + (p + i)
        BY <1>3, <1>4, <1>5, <1>6, <1>8, SMTT(30)
      <4> QED BY <1>7, <1>8, <2>1, <4>1
    <3> QED BY <3>1, <3>2
  <2> QED BY <1>1, <1>2, <1>6, <2>1, DiskMore
<1> DEFINE s == Longer(n)
<1>10. /\ s \in Slot /\ Intact(s) /\ s.soc = "open" /\ s.status = "body"
       /\ s.code = slot.code /\ s.size = slot.size + n /\ s.total = slot.total
       /\ s.block = slot.block
       /\ s.write <=> (slot.write \/ Opens)
       /\ s.alloc <=> (slot.alloc \/ ~Opened.write)
  BY <1>1, <1>3, LongerIs
<1>11. slot' \in IF s.size = s.total THEN Ends(s, FALSE) ELSE {s}
  BY <1>2
<1> HIDE DEF s
<1>12. s.size = Before(e) + (p + n)
  BY <1>3, <1>5, <1>6, <1>8, <1>10
<1>13. Beginning(e, file')
  <2>1. CASE slot.write \/ Opens
    <3>1. slot.size + n \in Nat
      BY <1>3
    <3> QED BY <1>9, <2>1, <3>1, PrefixIs DEF Beginning
  <2>2. CASE ~(slot.write \/ Opens)
    BY <1>9, <2>2 DEF Beginning
  <2> QED BY <2>1, <2>2
<1>14. CASE s.size = s.total
  <2>1. e.framing = "length" /\ p + n = Len(rest)
    BY <1>3, <1>4, <1>5, <1>6, <1>8, <1>10, <1>12, <1>14
  <2>2. wire' = <<>>
    <3>1. wire' \in Seq(Tokens) /\ p + n \in Nat /\ p + n >= Len(rest)
      BY <1>4, <1>8, <2>1 DEF Basic, TypeOK
    <3> QED BY <1>4, <1>8, <3>1, PartEmpty
  <2>3. s.code = 200 => IF s.write THEN file' = e.body ELSE s.size = Len(e.body)
    <3>1. SUFFICES ASSUME s.code = 200
                   PROVE  IF s.write THEN file' = e.body ELSE s.size = Len(e.body)
      OBVIOUS
    <3>2. e.code \in {200, 206}
      BY <1>1, <1>10, <3>1, TakingIs
    <3>3. s.size = Len(e.body)
      BY <1>7, <1>12, <2>1, <3>2
    <3>4. CASE s.write
      <4>1. Prefix(e, file', Len(e.body))
        BY <1>9, <1>10, <3>3, <3>4
      <4> QED BY <1>5, <3>4, <4>1, PrefixIs
    <3> QED BY <3>3, <3>4
  <2>4. slot' \in Ends(s, FALSE) /\ FALSE \in BOOLEAN
    BY <1>11, <1>14
  <2>5. s.size <= s.total
    BY <1>3, <1>10, <1>14
  <2> QED BY <1>1, <1>10, <1>13, <2>2, <2>3, <2>4, <2>5, FollowEnds
<1>15. CASE s.size # s.total
  <2>1. slot' = s
    BY <1>11, <1>15
  <2>2. Heading(e, h)' /\ OutOfBody(e)'
    BY <1>10, <2>1 DEF Heading, OutOfBody, Over
  <2>3. slot.block # -1
    BY <1>1, TakingIs
  <2>4. InBody(rest)'
    BY <1>8, <1>10, <2>1, <2>3 DEF InBody
  <2>5. OnDisk(e)'
    BY <1>9, <1>10, <2>1 DEF OnDisk
  <2>6. Plainly(e, rest)'
    BY <1>6, <1>8, <1>10, <1>12, <2>1, <2>5 DEF Plainly
  <2>7. Faithful(e, rest, ToSend(e, rest))'
    BY <1>1, <1>10, <2>1, <2>6 DEF Faithful, Over
  <2> QED BY <2>2, <2>4, <2>7 DEF Following, rest
<1> QED BY <1>14, <1>15

(* What is consumed of a body leaves the rest of it. *)
LEMMA BodySkip ==
  ASSUME Basic, Receiving, NEW rest \in Seq(Tokens), InBody(rest), slot.block # -1,
         cut' = cut, slot'.block = slot.block,
         NEW n \in 0..Len(wire), Skip(n)
  PROVE  InBody(rest)'
<1>1. PICK p \in 0..Len(rest) : Part(rest, p)
  BY DEF InBody
<1>2. wire \in Seq(Tokens) /\ p \in Nat
  BY TokensAre DEF Basic, TypeOK
<1>3. Part(rest, p + n)' /\ p + n \in 0..Len(rest)
  BY <1>1, <1>2, PartSkip
<1> QED BY <1>3 DEF InBody

(* Nothing is consumed. *)
LEMMA PartStays ==
  ASSUME wire' = wire, cut' = cut, NEW s, NEW p, Part(s, p)
  PROVE  Part(s, p)'
BY DEF Part

(* The reception of chunks goes on. *)
LEMMA FollowChunks ==
  ASSUME NEW e, NEW h, e.framing = "chunked", slot'.status \in {"body", "size", "crlf"},
         InBody(After(e, h))',
         ~ChunkedRestOf(e) =>
           \A off \in [Sizes(After(e, h)) -> 0..Len(ToSend(e, After(e, h)))] :
             AreChunks(After(e, h), ToSend(e, After(e, h)), off) =>
               Chunkly(e, After(e, h), off)'
  PROVE  Following(e, h)'
<1>1. Heading(e, h)' /\ OutOfBody(e)'
  BY DEF Heading, OutOfBody, Over
<1>2. ~ChunkedRestOf(e) => Faithful(e, After(e, h), ToSend(e, After(e, h)))'
  BY DEF Faithful, Over
<1> QED BY <1>1, <1>2 DEF Following, ChunkedRestOf

(* What an honest server sends in chunks. *)
LEMMA ChunksAre ==
  ASSUME NEW e \in Exchanges, NEW h \in DOMAIN e.wire, ~ChunkedRestOf(e),
         e.framing = "chunked"
  PROVE  LET rest == After(e, h)
             bytes == ToSend(e, rest)
         IN /\ rest \in Seq(Tokens) /\ Len(rest) \in Nat
            /\ \A i \in Sizes(rest) : i \in 1..Len(rest) /\ rest[i].n \in Int /\ i \in Int
            /\ e.code \in {200, 206} => bytes = e.body /\ e.code = 200
            /\ Len(e.body) \in Nat
<1>1. After(e, h) \in Seq(Tokens) /\ Len(After(e, h)) \in Nat
  BY AfterIs
<1>2. ASSUME NEW i \in Sizes(After(e, h))
      PROVE  i \in 1..Len(After(e, h)) /\ After(e, h)[i].n \in Int /\ i \in Int
  <2>1. i \in 1..Len(After(e, h))
    BY <1>1, TokensAre DEF Sizes
  <2> QED BY <1>1, <2>1, TokensAre
<1>3. e.code \in {200, 206} => ToSend(e, After(e, h)) = e.body /\ e.code = 200
  BY DEF ToSend, ChunkedRestOf
<1>4. Len(e.body) \in Nat
  BY PartsOf
<1> QED BY <1>1, <1>2, <1>3, <1>4

(* In the body the data of a chunk come. *)
LEMMA InAChunk ==
  ASSUME slot.status = "body", NEW e, NEW rest, NEW off, Chunkly(e, rest, off)
  PROVE  \E p \in 0..Len(rest) : Part(rest, p) /\ OnDisk(e) /\ InChunk(rest, off, p)
BY DEF Chunkly, AtSize, AtEnd

(* So nothing is missing but what is left of it. *)
LEMMA MissingIs ==
  ASSUME Basic, slot.status = "body", slot.chunked,
         NEW e \in Exchanges, NEW h \in DOMAIN e.wire, x = e,
         Sincere(e, h), Following(e, h), ~ChunkedRestOf(e)
  PROVE  Missing >= 0
<1> DEFINE rest == After(e, h)
           bytes == ToSend(e, rest)
<1>1. Receiving /\ e.framing = "chunked" /\ ~Bare(e)
  BY TakingIs DEF Receiving
<1>2. PICK off \in [Sizes(rest) -> 0..Len(bytes)] : AreChunks(rest, bytes, off)
  BY <1>1 DEF Sincere, Framed
<1>3. Chunkly(e, rest, off)
  BY <1>1, <1>2 DEF Following, Faithful, ChunkedRestOf
<1>4. PICK p \in 0..Len(rest) : InChunk(rest, off, p)
  BY <1>3, InAChunk
<1>5. /\ Len(rest) \in Nat
      /\ \A i \in Sizes(rest) : i \in 1..Len(rest) /\ rest[i].n \in Int /\ i \in Int
  BY <1>1, ChunksAre
<1>6. PICK s \in Sizes(rest) :
            /\ p \in s..s + rest[s].n /\ slot.size = off[s] + (p - s)
            /\ slot.total = off[s] + rest[s].n
  BY <1>4 DEF InChunk
<1>7. off[s] \in 0..Len(bytes)
  BY <1>2, <1>6
<1>8. off[s] \in Int /\ p \in Int /\ s \in Int /\ rest[s].n \in Int
  BY <1>5, <1>6, <1>7
<1> QED BY <1>6, <1>8 DEF Missing

(* Where n more bytes of a chunk of m at s lead, of which p - s were read. *)
LEMMA Within ==
  ASSUME NEW a \in Int, NEW m \in Int, NEW p \in Int, NEW s \in Int,
         p \in s..s + m, NEW n \in Int, n \in 1..m - (p - s), NEW z, z = a + (p - s)
  PROVE  /\ z + n <= a + m /\ p + n \in s..s + m /\ z + n = a + ((p + n) - s)
         /\ n = m - (p - s) => p + n = s + m
         /\ \A i \in 1..n : /\ (p - s) + i \in 1..m /\ s + ((p - s) + i) = p + i
                            /\ a + ((p - s) + i) = z + i
OBVIOUS

(* Within a chunk after a step. *)
LEMMA InChunkNext ==
  ASSUME NEW rest, NEW off, NEW q, NEW s \in Sizes(rest),
         rest[s].n > 0, slot'.block = rest[s].n, q \in s..s + rest[s].n,
         slot'.size = off[s] + (q - s), slot'.total = off[s] + rest[s].n,
         slot'.write \/ slot'.alloc,
         slot'.status = "body" \/ (slot'.status = "crlf" /\ q = s + rest[s].n)
  PROVE  InChunk(rest, off, q)'
BY DEF InChunk

(* The data of a chunk come. *)
LEMMA FollowReadChunk ==
  ASSUME Basic, ReadChunk, UNCHANGED <<x, cut>>,
         NEW e \in Exchanges, NEW h \in DOMAIN e.wire, x = e,
         Sincere(e, h), Following(e, h)
  PROVE  Following(e, h)'
<1> DEFINE rest == After(e, h)
           bytes == ToSend(e, rest)
<1>1. /\ Receiving /\ slot.status = "body" /\ slot.chunked
      /\ e.framing = "chunked" /\ Busy /\ slot.block # -1 /\ slot.block # 0
  BY TakingIs DEF ReadChunk, Receiving
<1>2. PICK n \in 1..Missing :
        /\ Bytes(n) /\ Skip(n) /\ Written(n)
        /\ slot' = IF n = Missing THEN [Longer(n) EXCEPT !.status = "crlf"]
                                  ELSE Longer(n)
  BY DEF ReadChunk
<1>3. /\ n \in Nat /\ n \in 1..Len(wire) /\ n \in 0..Len(wire) /\ wire \in Seq(Tokens)
      /\ slot.size \in Nat /\ slot.total \in Int
  BY <1>1, <1>2, BusyIs DEF Missing, Bytes
<1>4. PICK c \in {"body", "crlf"} :
        /\ slot' = [Longer(n) EXCEPT !.status = c]
        /\ c = "crlf" => n = Missing
  <2>1. Longer(n) \in Slot /\ Longer(n).status = "body"
    BY <1>1, <1>3, LongerIs
  <2>2. Longer(n) = [Longer(n) EXCEPT !.status = "body"]
    BY <2>1 DEF Slot
  <2> QED BY <1>2, <2>2
<1>5. /\ slot'.status = c /\ slot'.size = slot.size + n /\ slot'.total = slot.total
      /\ slot'.block = slot.block
      /\ slot'.write <=> (slot.write \/ Opens)
      /\ slot'.alloc <=> (slot.alloc \/ ~Opened.write)
  <2> DEFINE s == Longer(n)
  <2>1. /\ s \in Slot /\ s.size = slot.size + n /\ s.total = slot.total
        /\ s.block = slot.block
        /\ s.write <=> (slot.write \/ Opens)
        /\ s.alloc <=> (slot.alloc \/ ~Opened.write)
    BY <1>1, <1>3, LongerIs
  <2>2. slot' = [s EXCEPT !.status = c]
    BY <1>4
  <2> HIDE DEF s
  <2>3. /\ slot'.status = c /\ slot'.size = s.size /\ slot'.total = s.total
        /\ slot'.block = s.block /\ slot'.write = s.write /\ slot'.alloc = s.alloc
    BY <2>1, <2>2 DEF Slot
  <2> QED BY <2>1, <2>3
<1>6. rest \in Seq(Tokens) /\ cut' = cut
  BY AfterIs
<1>7. InBody(rest)'
  <2>1. InBody(rest)
    BY DEF Following
  <2> QED BY <1>1, <1>2, <1>3, <1>5, <1>6, <2>1, BodySkip
<1>8. ASSUME ~ChunkedRestOf(e),
             NEW off \in [Sizes(rest) -> 0..Len(bytes)], AreChunks(rest, bytes, off)
      PROVE  Chunkly(e, rest, off)'
  <2>1. Chunkly(e, rest, off)
    BY <1>1, <1>8 DEF Following, Faithful, ChunkedRestOf
  <2>2. /\ Len(rest) \in Nat
        /\ \A i \in Sizes(rest) : i \in 1..Len(rest) /\ rest[i].n \in Int /\ i \in Int
        /\ e.code \in {200, 206} => bytes = e.body /\ e.code = 200
        /\ Len(e.body) \in Nat
    BY <1>1, <1>8, ChunksAre
  <2>3. PICK p \in 0..Len(rest) : Part(rest, p) /\ OnDisk(e) /\ InChunk(rest, off, p)
    BY <1>1, <2>1, InAChunk
  <2> HIDE DEF rest, bytes
  <2>4. PICK s \in Sizes(rest) :
            /\ rest[s].n > 0 /\ slot.block = rest[s].n
            /\ p \in s..s + rest[s].n /\ slot.size = off[s] + (p - s)
            /\ slot.total = off[s] + rest[s].n
            /\ slot.write \/ slot.alloc
    BY <2>3 DEF InChunk
  <2>5. PICK a \in Int, m \in Nat : a = off[s] /\ m = rest[s].n
    <3>1. off[s] \in 0..Len(bytes)
      BY <1>8, <2>4
    <3> QED BY <2>2, <2>4, <3>1
  <2>6. /\ p \in Nat /\ s \in Int /\ m > 0 /\ slot.block = m /\ p \in s..s + m
        /\ slot.size = a + (p - s) /\ slot.total = a + m
    BY <2>2, <2>3, <2>4, <2>5
  <2>7. /\ s + m + 2 \in Sizes(rest)
        /\ off[s + m + 2] = a + m
        /\ \A j \in 1..m : rest[s + j].n = bytes[a + j]
    BY <1>8, <2>4, <2>5 DEF AreChunks, IsChunk
  <2>8. n \in 1..m - (p - s) /\ n \in Int /\ Missing = m - (p - s)
    <3>1. Missing = m - (p - s)
      BY <2>6, <2>5 DEF Missing
    <3> QED BY <1>2, <1>3, <3>1
  <2> DEFINE z == slot.size
  <2>13. /\ z + n <= a + m /\ p + n \in s..s + m /\ z + n = a + ((p + n) - s)
         /\ n = m - (p - s) => p + n = s + m
         /\ \A i \in 1..n : /\ (p - s) + i \in 1..m /\ s + ((p - s) + i) = p + i
                            /\ a + ((p - s) + i) = z + i
    <3>1. z = a + (p - s) /\ p \in Int /\ m \in Int
      BY <2>6
    <3>2. p \in s..s + m /\ n \in 1..m - (p - s) /\ n \in Int /\ s \in Int /\ a \in Int
      BY <2>5, <2>6, <2>8
    <3> HIDE DEF z
    <3> QED BY ONLY <3>1, <3>2, Within
  <2>9. /\ Part(rest, p + n)' /\ p + n \in 0..Len(rest)
        /\ \A i \in 1..n : wire[i] = rest[p + i]
    BY <1>2, <1>3, <1>6, <2>3, <2>6, PartSkip
  <2>10. /\ slot.write \/ Opens => e.code \in {200, 206} /\ Prefix(e, file', slot.size + n)
         /\ ~(slot.write \/ Opens) => file' = e.have /\ ~Opened.write
         /\ ~Opened.write \/ (slot.write \/ Opens)
    <3>1. ASSUME e.code \in {200, 206}
          PROVE  /\ slot.size + n <= Len(e.body)
                 /\ \A i \in 1..n : wire[i].n = e.body[slot.size + i]
      <4>1. bytes = e.body
        BY <2>2, <3>1
      <4>2. a + m \in 0..Len(bytes)
        BY <1>8, <2>7
      <4>3. slot.size + n <= Len(e.body)
        <5>1. slot.size + n <= a + m
          BY <2>13
        <5>2. a + m <= Len(e.body) /\ a + m \in Int /\ slot.size + n \in Int
          BY <1>3, <2>2, <4>1, <4>2
        <5> QED BY <2>2, <5>1, <5>2
      <4>4. ASSUME NEW i \in 1..n PROVE wire[i].n = e.body[slot.size + i]
        <5>1. /\ (p - s) + i \in 1..m /\ s + ((p - s) + i) = p + i
              /\ a + ((p - s) + i) = slot.size + i
          BY <2>13
        <5>2. rest[s + ((p - s) + i)].n = bytes[a + ((p - s) + i)]
          BY <2>7, <5>1
        <5>3. rest[p + i].n = bytes[slot.size + i]
          BY <5>1, <5>2
        <5> QED BY <2>9, <4>1, <5>3
      <4> QED BY <4>3, <4>4
    <3> QED BY <1>1, <1>2, <1>3, <2>3, <3>1, DiskMore
  <2>11. (slot'.write \/ slot'.alloc) /\ OnDisk(e)'
    BY <1>5, <2>10 DEF OnDisk
  <2>12. InChunk(rest, off, p + n)'
    <3>1. /\ p + n \in s..s + m /\ slot.size + n = a + ((p + n) - s)
          /\ n = m - (p - s) => p + n = s + m
      BY <2>13
    <3>2. slot'.status = "body" \/ (slot'.status = "crlf" /\ p + n = s + m)
      BY <1>4, <1>5, <2>8, <3>1
    <3>5. slot'.size = off[s] + ((p + n) - s)
      BY <1>5, <2>5, <3>1
    <3>3. /\ rest[s].n > 0 /\ slot'.block = rest[s].n
          /\ p + n \in s..s + rest[s].n
          /\ slot'.total = off[s] + rest[s].n
      BY <1>5, <2>5, <2>6, <3>1
    <3>4. slot'.status = "body" \/ (slot'.status = "crlf" /\ p + n = s + rest[s].n)
      BY <2>5, <3>2
    <3>6. slot'.write \/ slot'.alloc
      BY <2>11
    <3>7. s \in Sizes(rest)
      OBVIOUS
    <3> DEFINE q == p + n
    <3>8. /\ rest[s].n > 0 /\ slot'.block = rest[s].n /\ q \in s..s + rest[s].n
          /\ slot'.size = off[s] + (q - s) /\ slot'.total = off[s] + rest[s].n
          /\ slot'.status = "body" \/ (slot'.status = "crlf" /\ q = s + rest[s].n)
      BY <3>3, <3>4, <3>5
    <3> HIDE DEF q
    <3>9. InChunk(rest, off, q)'
      BY ONLY <3>6, <3>7, <3>8, InChunkNext
    <3> QED BY <3>9 DEF q
  <2> QED BY <2>9, <2>11, <2>12 DEF Chunkly
<1> QED BY <1>1, <1>5, <1>7, <1>8, FollowChunks

(* All the data of a chunk have come. *)
LEMMA FollowChunkFull ==
  ASSUME Basic, ChunkFull, UNCHANGED <<x, cut>>,
         NEW e \in Exchanges, NEW h \in DOMAIN e.wire, x = e,
         Sincere(e, h), Following(e, h)
  PROVE  Following(e, h)'
<1> DEFINE rest == After(e, h)
           bytes == ToSend(e, rest)
<1>1. /\ Receiving /\ slot.status = "body" /\ slot.chunked
      /\ e.framing = "chunked" /\ Busy /\ slot.block # -1 /\ slot.block # 0
  BY TakingIs DEF ChunkFull, Receiving
<1>2. /\ slot' = [slot EXCEPT !.status = "crlf"] /\ wire' = wire /\ file' = file
      /\ cut' = cut /\ Missing = 0
  BY DEF ChunkFull
<1>3. slot \in Slot /\ slot.size \in Nat /\ slot.total \in Int
  BY <1>1, BusyIs
<1>4. /\ slot'.status = "crlf" /\ slot'.size = slot.size /\ slot'.total = slot.total
      /\ slot'.block = slot.block /\ slot'.write = slot.write /\ slot'.alloc = slot.alloc
  BY <1>2, <1>3 DEF Slot
<1>5. InBody(rest)'
  <2>1. PICK p \in 0..Len(rest) : Part(rest, p)
    BY <1>1 DEF Following, InBody
  <2>2. Part(rest, p)'
    BY <1>2, <2>1, PartStays
  <2> QED BY <1>1, <1>4, <2>2 DEF InBody
<1>6. ASSUME ~ChunkedRestOf(e),
             NEW off \in [Sizes(rest) -> 0..Len(bytes)], AreChunks(rest, bytes, off)
      PROVE  Chunkly(e, rest, off)'
  <2>1. Chunkly(e, rest, off)
    BY <1>1, <1>6 DEF Following, Faithful, ChunkedRestOf
  <2>2. PICK p \in 0..Len(rest) : Part(rest, p) /\ OnDisk(e) /\ InChunk(rest, off, p)
    BY <1>1, <2>1, InAChunk
  <2>3. Part(rest, p)' /\ OnDisk(e)'
    BY <1>2, <1>4, <2>2, PartStays DEF OnDisk
  <2>4. /\ Len(rest) \in Nat
        /\ \A i \in Sizes(rest) : i \in 1..Len(rest) /\ rest[i].n \in Int /\ i \in Int
    BY <1>1, <1>6, ChunksAre
  <2> HIDE DEF rest, bytes
  <2>5. PICK s \in Sizes(rest) :
            /\ rest[s].n > 0 /\ slot.block = rest[s].n
            /\ p \in s..s + rest[s].n /\ slot.size = off[s] + (p - s)
            /\ slot.total = off[s] + rest[s].n
            /\ slot.write \/ slot.alloc
    BY <2>2 DEF InChunk
  <2>6. PICK a \in Int, m \in Int : a = off[s] /\ m = rest[s].n
    <3>1. off[s] \in 0..Len(bytes)
      BY <1>6, <2>5
    <3> QED BY <2>4, <2>5, <3>1
  <2>7. p = s + rest[s].n
    <3>1. slot.size = a + (p - s) /\ slot.total = a + m /\ p \in Int /\ s \in Int
      BY <2>4, <2>5, <2>6
    <3>2. (a + m) - (a + (p - s)) = 0
      BY <1>2, <3>1 DEF Missing
    <3>3. p = s + m
      <4>1. p \in Int /\ s \in Int /\ a \in Int /\ m \in Int
        BY <3>1
      <4> QED BY ONLY <3>2, <4>1
    <3> QED BY <2>6, <3>3
  <2>8. InChunk(rest, off, p)'
    <3>1. /\ rest[s].n > 0 /\ slot'.block = rest[s].n
          /\ p \in s..s + rest[s].n /\ slot'.size = off[s] + (p - s)
          /\ slot'.total = off[s] + rest[s].n
          /\ slot'.write \/ slot'.alloc
          /\ slot'.status = "crlf" /\ p = s + rest[s].n
      BY <1>4, <2>5, <2>7
    <3>2. s \in Sizes(rest)
      OBVIOUS
    <3> QED BY ONLY <3>1, <3>2, InChunkNext
  <2> QED BY <2>3, <2>8 DEF Chunkly
<1> QED BY <1>1, <1>4, <1>5, <1>6, FollowChunks

(* Memory is reserved where the size has passed the total: that is only so *)
(* for a rest in chunks.                                                   *)
LEMMA FollowReserve ==
  ASSUME Basic, Reserve, UNCHANGED <<x, cut>>,
         NEW e \in Exchanges, NEW h \in DOMAIN e.wire, x = e,
         Sincere(e, h), Following(e, h)
  PROVE  Following(e, h)'
<1> DEFINE rest == After(e, h)
<1>1. /\ Receiving /\ slot.status = "body" /\ slot.chunked
      /\ e.framing = "chunked" /\ Busy /\ slot.block # -1 /\ slot.block # 0
      /\ Missing = -2 /\ wire' = wire /\ file' = file /\ cut' = cut
  BY TakingIs DEF Reserve, Receiving
<1>2. ChunkedRestOf(e)
  <2>1. ~(Missing >= 0)
    BY <1>1
  <2> QED BY <1>1, <2>1, MissingIs
<1>3. slot \in Slot /\ Intact(slot) /\ slot.soc = "open"
  BY <1>1, BusyIs
<1>4. CASE slot.alloc
  <2>1. slot' \in Ends(slot, TRUE) /\ TRUE \in BOOLEAN
    BY <1>4 DEF Reserve
  <2> QED BY <1>2, <1>3, <2>1, FollowEnds
<1>5. CASE ~slot.alloc
  <2>1. slot' = [slot EXCEPT !.alloc = TRUE, !.size = 0]
    BY <1>5 DEF Reserve
  <2>2. slot'.status = "body" /\ slot'.block = slot.block
    BY <1>1, <1>3, <2>1 DEF Slot
  <2>3. InBody(rest)'
    <3>1. PICK p \in 0..Len(rest) : Part(rest, p)
      BY <1>1 DEF Following, InBody
    <3>2. Part(rest, p)'
      BY <1>1, <3>1, PartStays
    <3> QED BY <1>1, <2>2, <3>2 DEF InBody
  <2> QED BY <1>1, <1>2, <2>2, <2>3, FollowChunks
<1> QED BY <1>4, <1>5

(* So it is with a line that is read instead of the data. *)
LEMMA FollowReadLineInstead ==
  ASSUME Basic, ReadLineInstead, UNCHANGED <<x, cut>>,
         NEW e \in Exchanges, NEW h \in DOMAIN e.wire, x = e,
         Sincere(e, h), Following(e, h)
  PROVE  Following(e, h)'
<1> DEFINE rest == After(e, h)
<1>1. /\ Receiving /\ slot.status = "body" /\ slot.chunked
      /\ e.framing = "chunked" /\ Busy /\ slot.block # -1 /\ slot.block # 0
      /\ Missing < 0 /\ cut' = cut
  BY TakingIs DEF ReadLineInstead, Receiving
<1>2. slot \in Slot /\ Len(wire) \in Nat /\ slot.size \in Nat /\ slot.total \in Int
  BY <1>1, BusyIs
<1>3. ChunkedRestOf(e)
  <2>1. ~(Missing >= 0)
    BY <1>1, <1>2 DEF Missing
  <2> QED BY <1>1, <2>1, MissingIs
<1>4. PICK n \in 1..Len(wire) :
       /\ Skip(n)
       /\ LET size == (IF slot.alloc THEN slot.size ELSE 0)
                        + (n - 1) + Width(wire[n])
          IN slot' = [slot EXCEPT !.alloc = TRUE, !.size = size,
                        !.status = IF size = slot.total THEN "crlf" ELSE @]
  BY DEF ReadLineInstead
<1>5. slot'.status \in {"body", "crlf"} /\ slot'.block = slot.block
  BY <1>1, <1>2, <1>4 DEF Slot
<1>6. n \in 0..Len(wire) /\ rest \in Seq(Tokens)
  BY <1>2, AfterIs
<1>7. InBody(rest)
  BY DEF Following
<1>8. InBody(rest)'
  BY <1>1, <1>4, <1>5, <1>6, <1>7, BodySkip
<1> QED BY <1>1, <1>3, <1>5, <1>8, FollowChunks

(* What is on disk once the file is open. *)
LEMMA OpenedPrefix ==
  ASSUME Basic, Receiving, NEW e \in Exchanges, x = e, OnDisk(e), slot.write \/ Opens
  PROVE  e.code \in {200, 206} /\ Prefix(e, OpenedFile, slot.size)
<1>1. CASE Opens
  <2>1. OpenedFile = <<>> /\ slot.size = 0
    BY <1>1 DEF OpenedFile, Opens, OnDisk
  <2>2. slot.code = 200 /\ slot.code = IF e.code = 206 THEN 200 ELSE e.code
    BY <1>1, TakingIs DEF Opens
  <2> QED BY <2>1, <2>2, PrefixNone
<1>2. CASE ~Opens
  BY <1>2 DEF OpenedFile, OnDisk
<1> QED BY <1>1, <1>2

(* It stays what it is where a line is read. *)
LEMMA OpenedDisk ==
  ASSUME Basic, Receiving, NEW e \in Exchanges, x = e, OnDisk(e), file' = OpenedFile,
         slot'.write <=> (slot.write \/ Opens), slot'.size = slot.size,
         slot.alloc => slot'.alloc
  PROVE  OnDisk(e)'
<1>1. slot.write \/ Opens => e.code \in {200, 206} /\ Prefix(e, OpenedFile, slot.size)
  BY OpenedPrefix
<1>2. ~(slot.write \/ Opens) => OpenedFile = e.have /\ (~slot.alloc => slot.size = 0)
  BY DEF OnDisk, OpenedFile
<1> QED BY <1>1, <1>2 DEF OnDisk

(* Nothing but the last lines comes after a size of 0. *)
LEMMA LastChunk ==
  ASSUME NEW e, NEW h, Sincere(e, h), ~Bare(e), e.framing = "chunked",
         NEW i \in Sizes(After(e, h)), ~(After(e, h)[i].n > 0)
  PROVE  Trailer(After(e, h), i)
<1> DEFINE rest == After(e, h)
           bytes == ToSend(e, rest)
<1>1. PICK off \in [Sizes(rest) -> 0..Len(bytes)] : AreChunks(rest, bytes, off)
  BY DEF Sincere, Framed
<1>2. IsLastChunk(rest, bytes, off, i)
  BY <1>1 DEF AreChunks
<1> QED BY <1>2 DEF IsLastChunk, Trailer

(* The line that is read is the next token, where that is no byte. *)
LEMMA NextLine ==
  ASSUME wire \in Seq(Tokens), NEW s \in Seq(Tokens), NEW p \in Nat, Part(s, p),
         NEW n \in 1..Len(wire), Bytes(n - 1), wire[n].is # "byte"
  PROVE  /\ p + 1 \in 1..Len(s) /\ wire[1] = s[p + 1]
         /\ s[p + 1].is # "byte" => n = 1
<1>1. Len(wire) \in Nat /\ Len(s) \in Nat /\ 1 \in 1..Len(wire)
  BY TokensAre
<1>2. p + Len(wire) <= Len(s) /\ wire[1] = s[p + 1]
  BY <1>1 DEF Part
<1>3. p + 1 \in 1..Len(s)
  BY <1>1, <1>2
<1>4. ASSUME n # 1 PROVE wire[1].is = "byte"
  <2>1. 1 \in 1..n - 1
    BY <1>1, <1>4
  <2> QED BY <2>1 DEF Bytes
<1> QED BY <1>2, <1>3, <1>4

(* A line that is neither the size of a chunk nor its end. *)
LEMMA ChunkEndValue ==
  ASSUME Basic, slot.status \in {"size", "crlf"}, NEW t \in Tokens, NEW alone \in BOOLEAN,
         NEW v, v = Value(alone, t)
  PROVE  /\ v >= 0 /\ slot.status = "crlf" => alone /\ t.is = "line"
         /\ slot.status = "crlf" /\ alone /\ t.is = "line" /\ slot.block > 0 => v = slot.block
         /\ slot.status = "size" /\ alone /\ t.is = "size" => v = t.n
         /\ slot.status = "crlf" /\ v = 0 => slot.block = -1
<1>1. Receiving
  BY DEF Receiving
<1>2. slot.block \in Int /\ t.n \in Int /\ slot.block >= -1
  BY <1>1, BusyIs, ReceivingBusy DEF Tokens
<1>3. slot.status = "crlf" => slot.block # 0
  BY <1>1, TakingIs DEF Basic, TypeOK
<1> QED BY <1>2, <1>3 DEF Value

(* A line has been read, and the reception goes on. *)
LineGoesOn(v) ==
  /\ slot'.status = IF slot.status = "crlf" THEN "size" ELSE IF v = 0 THEN "crlf" ELSE "body"
  /\ slot'.size = slot.size
  /\ slot'.write <=> (slot.write \/ Opens)
  /\ slot.status = "size" =>
       /\ slot'.total = (IF slot.total < 0 THEN 0 ELSE slot.total) + v
       /\ slot'.block = (IF v > 0 THEN v ELSE -1)
       /\ slot'.alloc <=> (slot.alloc \/ ~Opened.write)
  /\ slot.status = "crlf" =>
       /\ slot'.total = (IF slot.total < 0 THEN 0 ELSE slot.total)
       /\ slot'.block = slot.block /\ slot'.alloc = slot.alloc

(* A line is read: the reception goes on, or the chunks are over. *)
LEMMA LineIs ==
  ASSUME Basic, ReadLine, NEW v \in Int, slot' = AfterLine(Announced(v), v)
  PROVE  IF (slot.status = "crlf" /\ v > 0) \/ (slot.status = "size" /\ v >= 0)
         THEN LineGoesOn(v)
         ELSE /\ ChunksOver(Announced(v), v, slot')
              /\ Announced(v).code = slot.code /\ Announced(v).size = slot.size
              /\ Announced(v).total = (IF slot.total < 0 THEN 0 ELSE slot.total)
              /\ Announced(v).write <=> (slot.write \/ Opens)
<1> DEFINE s == Announced(v)
<1>1. slot.status \in {"size", "crlf"} /\ slot.total \in Int
  BY BusyIs DEF ReadLine, Busy
<1>2. /\ s \in Slot /\ Intact(s) /\ s.soc = "open"
      /\ s.status = slot.status /\ s.code = slot.code /\ s.size = slot.size
      /\ s.write <=> (slot.write \/ Opens)
      /\ slot.status = "size" /\ v >= 0 =>
              /\ s.total = (IF slot.total < 0 THEN 0 ELSE slot.total) + v
              /\ s.block = (IF v > 0 THEN v ELSE -1)
              /\ s.alloc <=> (slot.alloc \/ ~Opened.write)
      /\ ~(slot.status = "size" /\ v >= 0) =>
              /\ s.total = (IF slot.total < 0 THEN 0 ELSE slot.total)
              /\ s.block = slot.block
              /\ s.alloc = slot.alloc
  BY <1>1, AnnouncedIs
<1>3. slot' = AfterLine(s, v)
  OBVIOUS
<1> HIDE DEF s
<1>4. CASE (slot.status = "crlf" /\ v > 0) \/ (slot.status = "size" /\ v >= 0)
  <2> DEFINE c == IF slot.status = "crlf" THEN "size" ELSE IF v = 0 THEN "crlf" ELSE "body"
  <2>1. slot' = [s EXCEPT !.status = c]
    <3>1. CASE slot.status = "crlf" /\ v > 0
      BY <1>3, <3>1 DEF AfterLine
    <3>2. CASE slot.status = "size" /\ v = 0
      BY <1>3, <3>2 DEF AfterLine
    <3>3. CASE slot.status = "size" /\ v > 0
      BY <1>3, <3>3 DEF AfterLine
    <3> QED BY <1>4, <3>1, <3>2, <3>3
  <2>2. slot'.status = c /\ slot'.size = s.size /\ slot'.write = s.write
        /\ slot'.total = s.total /\ slot'.block = s.block /\ slot'.alloc = s.alloc
    BY <1>2, <2>1 DEF Slot
  <2>3. LineGoesOn(v)
    <3>1. CASE slot.status = "crlf"
      BY <1>2, <2>2, <3>1 DEF LineGoesOn
    <3>2. CASE slot.status = "size"
      BY <1>2, <1>4, <2>2, <3>2 DEF LineGoesOn
    <3> QED BY <1>1, <3>1, <3>2
  <2> QED BY <1>4, <2>3
<1>5. CASE ~((slot.status = "crlf" /\ v > 0) \/ (slot.status = "size" /\ v >= 0))
  <2>1. slot' = ChunkEnd(s, v)
    BY <1>3, <1>5 DEF AfterLine
  <2>2. ChunksOver(s, v, slot')
    BY <1>2, <2>1, ChunkEndIs
  <2> QED BY <1>2, <1>5, <2>2 DEF s
<1> QED BY <1>4, <1>5

(* The size of a chunk has been read. *)
LEMMA SizeGoesOn ==
  ASSUME Basic, Basic', slot.status = "size", NEW v \in Nat, LineGoesOn(v),
         cut' = cut, Skip(1), 1 \in 0..Len(wire), file' = OpenedFile,
         NEW e \in Exchanges, x = e, OnDisk(e),
         NEW rest \in Seq(Tokens), NEW bytes,
         NEW off \in [Sizes(rest) -> 0..Len(bytes)],
         NEW p \in 0..Len(rest), Part(rest, p), AtSize(rest, off, p),
         v = rest[p + 1].n
  PROVE  Chunkly(e, rest, off)'
<1>1. Receiving /\ wire \in Seq(Tokens)
  BY DEF Receiving, Basic, TypeOK
<1>2. Len(rest) \in Nat /\ p \in Nat
  BY TokensAre
<1>3. Part(rest, p + 1)' /\ p + 1 \in 0..Len(rest)
  BY <1>1, <1>2, PartSkip
<1>4. /\ slot'.size = slot.size /\ slot'.status = IF v = 0 THEN "crlf" ELSE "body"
      /\ slot'.total = (IF slot.total < 0 THEN 0 ELSE slot.total) + v
      /\ slot'.block = (IF v > 0 THEN v ELSE -1)
      /\ slot'.write <=> (slot.write \/ Opens)
      /\ slot'.alloc <=> (slot.alloc \/ ~Opened.write)
  BY DEF LineGoesOn
<1>5. OnDisk(e)'
  BY <1>1, <1>4, OpenedDisk
<1>6. slot'.write \/ slot'.alloc
  <2>1. Opened.write <=> (slot.write \/ Opens)
    BY <1>1, OpenedIs, ReceivingBusy
  <2> QED BY <1>4, <2>1
<1>7. p + 1 \in Sizes(rest) /\ slot.size = off[p + 1]
  BY DEF AtSize
<1>8. slot'.total = off[p + 1] + v /\ off[p + 1] \in Int
  <2>1. off[p + 1] \in Int
    <3>1. off[p + 1] \in 0..Len(bytes)
      BY <1>7
    <3> QED BY <3>1
  <2>2. PICK a \in Int : a = off[p + 1]
    BY <2>1
  <2>3. (IF slot.total < 0 THEN 0 ELSE slot.total) = a
    <3>1. CASE slot.total = -1 /\ slot.size = 0
      BY <1>7, <2>2, <3>1
    <3>2. CASE slot.total = slot.size
      <4>1. slot.size \in Nat
        BY <1>1, TakingIs
      <4> QED BY <1>7, <2>2, <3>2, <4>1
    <3> QED BY <3>1, <3>2 DEF AtSize
  <2> QED BY <1>4, <2>1, <2>2, <2>3
<1>9. CASE v > 0
  <2>1. /\ p + 1 \in p + 1..p + 1 + rest[p + 1].n
        /\ slot'.size = off[p + 1] + ((p + 1) - (p + 1))
    BY <1>2, <1>4, <1>7, <1>8, <1>9
  <2>2. slot'.status = "body" /\ slot'.block = rest[p + 1].n /\ rest[p + 1].n > 0
    BY <1>4, <1>9
  <2>3. InChunk(rest, off, p + 1)'
    BY <1>6, <1>7, <1>8, <2>1, <2>2, InChunkNext
  <2> QED BY <1>3, <1>5, <2>3 DEF Chunkly
<1>10. CASE v = 0
  <2>1. slot'.total = off[p + 1]
    BY <1>8, <1>10
  <2>2. p + 1 <= p + 1 /\ rest[p + 1].n = 0 /\ slot'.size = off[p + 1]
    BY <1>2, <1>4, <1>7, <1>10
  <2>3. slot'.status = "crlf" /\ slot'.block = -1
    BY <1>4, <1>10
  <2>4. AtEnd(rest, off, p + 1)'
    BY <1>6, <1>7, <2>1, <2>2, <2>3 DEF AtEnd
  <2> QED BY <1>3, <1>5, <2>4 DEF Chunkly
<1> QED BY <1>9, <1>10

(* The end of a chunk has been read. *)
LEMMA ChunkGoesOn ==
  ASSUME Basic, Basic', slot.status = "crlf", NEW v \in Nat, LineGoesOn(v),
         cut' = cut, Skip(1), 1 \in 0..Len(wire), file' = OpenedFile,
         NEW e \in Exchanges, x = e, OnDisk(e),
         NEW rest \in Seq(Tokens), NEW bytes,
         NEW off \in [Sizes(rest) -> 0..Len(bytes)], AreChunks(rest, bytes, off),
         NEW p \in 0..Len(rest), Part(rest, p), InChunk(rest, off, p)
  PROVE  Chunkly(e, rest, off)'
<1>1. Receiving /\ wire \in Seq(Tokens)
  BY DEF Receiving, Basic, TypeOK
<1>2. Len(rest) \in Nat /\ p \in Nat
  BY TokensAre
<1>3. Part(rest, p + 1)' /\ p + 1 \in 0..Len(rest)
  BY <1>1, <1>2, PartSkip
<1>4. /\ slot'.size = slot.size /\ slot'.status = "size"
      /\ slot'.total = (IF slot.total < 0 THEN 0 ELSE slot.total)
      /\ slot'.block = slot.block /\ slot'.alloc = slot.alloc
      /\ slot'.write <=> (slot.write \/ Opens)
  BY DEF LineGoesOn
<1>5. OnDisk(e)'
  BY <1>1, <1>4, OpenedDisk
<1>6. PICK s \in Sizes(rest) :
        /\ rest[s].n > 0 /\ slot.block = rest[s].n
        /\ slot.size = off[s] + (p - s) /\ slot.total = off[s] + rest[s].n
        /\ (slot.write \/ slot.alloc) /\ p = s + rest[s].n
  BY DEF InChunk
<1>7. s + rest[s].n + 2 \in Sizes(rest) /\ off[s + rest[s].n + 2] = off[s] + rest[s].n
  BY <1>6 DEF AreChunks, IsChunk
<1>8. PICK a \in Nat, m \in Nat : a = off[s] /\ m = rest[s].n /\ m > 0
  <2>1. s \in 1..Len(rest)
    BY TokensAre DEF Sizes
  <2>2. rest[s].n \in Int
    BY <2>1, TokensAre
  <2>3. off[s] \in 0..Len(bytes)
    OBVIOUS
  <2> QED BY <1>6, <2>2, <2>3
<1>9. s \in Int
  BY <1>2, TokensAre DEF Sizes
<1>10. s + m + 2 = p + 1 + 1 /\ p - s = m
  BY <1>6, <1>8, <1>9, SMTT(30)
<1>11. /\ p + 1 + 1 \in Sizes(rest) /\ off[p + 1 + 1] = a + m
       /\ slot.size = a + m /\ slot.total = a + m
  BY <1>6, <1>7, <1>8, <1>10
<1>12. slot'.total = slot'.size /\ slot'.size = off[p + 1 + 1]
  BY <1>4, <1>8, <1>11
<1>13. slot'.block > 0 /\ (slot'.write \/ slot'.alloc)
  BY <1>4, <1>6, <1>8
<1>14. AtSize(rest, off, p + 1)'
  BY <1>4, <1>11, <1>12, <1>13 DEF AtSize
<1> QED BY <1>3, <1>5, <1>14 DEF Chunkly

(* Which line may come: the size of a chunk, its end, or the very end. *)
LEMMA LineExpected ==
  ASSUME Basic, slot.status \in {"size", "crlf"}, NEW e \in Exchanges, x = e,
         NEW rest \in Seq(Tokens), NEW bytes,
         NEW off \in [Sizes(rest) -> 0..Len(bytes)], AreChunks(rest, bytes, off),
         NEW p \in 0..Len(rest), Part(rest, p),
         AtSize(rest, off, p) \/ InChunk(rest, off, p) \/ AtEnd(rest, off, p),
         NEW n \in 1..Len(wire), Bytes(n - 1), wire[n].is # "byte",
         NEW v \in Int, v = Value(n = 1, wire[n])
  PROVE  /\ slot.status = "size" =>
              AtSize(rest, off, p) /\ n = 1 /\ v = rest[p + 1].n /\ v >= 0
         /\ slot.status = "crlf" =>
              \/ InChunk(rest, off, p) /\ n = 1 /\ v > 0
              \/ AtEnd(rest, off, p) /\ ~(v > 0)
<1>1. Receiving /\ wire \in Seq(Tokens) /\ Len(wire) \in Nat /\ slot.block \in Int
  BY BusyIs, ReceivingBusy DEF Receiving
<1>2. Len(rest) \in Nat /\ p \in Nat
  BY TokensAre
<1>3. p + 1 \in 1..Len(rest) /\ wire[1] = rest[p + 1] /\ (rest[p + 1].is # "byte" => n = 1)
  BY <1>1, <1>2, NextLine
<1>4. (n = 1) \in BOOLEAN /\ wire[n] \in Tokens
  BY <1>1, TokensAre
<1>5. ASSUME AtSize(rest, off, p)
      PROVE  slot.status = "size" /\ n = 1 /\ v = rest[p + 1].n /\ v >= 0
  <2>1. p + 1 \in Sizes(rest) /\ slot.status = "size"
    BY <1>5 DEF AtSize
  <2>2. rest[p + 1].is = "size"
    BY <2>1 DEF Sizes
  <2>3. n = 1 /\ wire[n] = rest[p + 1]
    BY <1>3, <2>2
  <2>4. v = rest[p + 1].n
    BY <1>4, <2>1, <2>2, <2>3, ChunkEndValue
  <2>5. rest[p + 1].n > 0 \/ rest[p + 1].n = 0
    BY <2>1 DEF AreChunks, IsLastChunk
  <2> QED BY <2>1, <2>3, <2>4, <2>5
<1>6. ASSUME InChunk(rest, off, p), slot.status = "crlf"
      PROVE  n = 1 /\ v > 0
  <2>1. PICK s \in Sizes(rest) :
        rest[s].n > 0 /\ slot.block = rest[s].n /\ p = s + rest[s].n
    BY <1>6 DEF InChunk
  <2>2. rest[p + 1].is = "line"
    BY <2>1 DEF AreChunks, IsChunk
  <2>3. n = 1 /\ wire[n] = rest[p + 1]
    BY <1>3, <2>2
  <2>4. v = slot.block
    BY <1>4, <1>6, <2>1, <2>2, <2>3, ChunkEndValue, ZenonT(30)
  <2> QED BY <2>1, <2>3, <2>4
<1>7. ASSUME AtEnd(rest, off, p)
      PROVE  slot.status = "crlf" /\ ~(v > 0)
  <2>1. slot.status = "crlf" /\ slot.block = -1
    BY <1>7 DEF AtEnd
  <2>2. v > 0 => v = slot.block
    BY <1>4, <2>1, ValueIs
  <2> QED BY <2>1, <2>2
<1>8. InChunk(rest, off, p) => slot.status # "size"
  BY DEF InChunk
<1> QED BY <1>5, <1>6, <1>7, <1>8

(* A line is read, and the reception goes on. *)
LEMMA FollowLine ==
  ASSUME Basic, Basic', ReadLine, UNCHANGED <<x, cut>>,
         NEW e \in Exchanges, NEW h \in DOMAIN e.wire, x = e,
         Sincere(e, h), Following(e, h),
         NEW n \in 1..Len(wire), Bytes(n - 1), wire[n].is # "byte", Skip(n),
         NEW v \in Int, v = Value(n = 1, wire[n]), LineGoesOn(v),
         (slot.status = "crlf" /\ v > 0) \/ (slot.status = "size" /\ v >= 0)
  PROVE  Following(e, h)'
<1> DEFINE rest == After(e, h)
           bytes == ToSend(e, rest)
<1>1. /\ slot.status \in {"size", "crlf"} /\ Receiving /\ file' = OpenedFile
      /\ cut' = cut /\ v \in Nat
  BY DEF ReadLine, Receiving
<1>2. ~Bare(e) /\ e.framing = "chunked" /\ slot.block \in Int
  <2>1. slot.chunked
    BY <1>1 DEF Basic, Taking
  <2> QED BY <1>1, <2>1, TakingIs
<1>3. rest \in Seq(Tokens) /\ Len(rest) \in Nat
  BY AfterIs
<1>4. wire \in Seq(Tokens) /\ n \in 0..Len(wire) /\ wire[n] \in Tokens
      /\ (n = 1) \in BOOLEAN /\ 1 \in 1..Len(wire) /\ 1 \in 0..Len(wire)
  <2>1. wire \in Seq(Tokens) /\ Len(wire) \in Nat
    BY <1>1, BusyIs, ReceivingBusy
  <2> QED BY <2>1, TokensAre
<1>5. slot'.status \in {"body", "size", "crlf"}
  BY <1>1 DEF LineGoesOn
<1>6. InBody(rest)'
  <2>1. PICK p \in 0..Len(rest) : Part(rest, p)
    BY <1>1 DEF Following, InBody
  <2>2. p \in Nat
    BY <1>3
  <2>3. Part(rest, p + n)' /\ p + n \in 0..Len(rest)
    BY <1>1, <1>3, <1>4, <2>1, <2>2, PartSkip
  <2>4. ASSUME slot'.block = -1 PROVE Trailer(rest, p + n)
    <3>1. slot.status = "size" /\ ~(v > 0)
      <4>1. CASE slot.status = "crlf"
        <5>1. v > 0 /\ v = slot.block
          BY <1>1, <1>4, <4>1, ValueIs
        <5>2. slot'.block = slot.block
          BY <4>1 DEF LineGoesOn
        <5> QED BY <2>4, <5>1, <5>2
      <4>2. CASE slot.status = "size"
        BY <2>4, <4>2 DEF LineGoesOn
      <4> QED BY <1>1, <4>1, <4>2
    <3>2. n = 1 /\ wire[n].is = "size" /\ v = wire[n].n
      <4>1. slot.status = "size" /\ v >= 0
        BY <3>1
      <4> QED BY <1>1, <1>4, <4>1, ValueIs
    <3>3. p + 1 \in 1..Len(rest) /\ wire[1] = rest[p + 1]
      BY <1>3, <1>4, <2>1, <2>2, NextLine
    <3>4. p + 1 \in Sizes(rest) /\ ~(rest[p + 1].n > 0)
      BY <1>3, <3>1, <3>2, <3>3, TokensAre DEF Sizes
    <3>5. Trailer(rest, p + 1)
      BY <1>2, <3>4, LastChunk
    <3> QED BY <3>2, <3>5
  <2> HIDE DEF rest
  <2> QED BY <2>3, <2>4 DEF InBody
<1>7. ASSUME ~ChunkedRestOf(e),
             NEW off \in [Sizes(rest) -> 0..Len(bytes)], AreChunks(rest, bytes, off)
      PROVE  Chunkly(e, rest, off)'
  <2>1. Chunkly(e, rest, off)
    BY <1>1, <1>2, <1>7 DEF Following, Faithful, ChunkedRestOf
  <2>2. PICK p \in 0..Len(rest) :
    /\ Part(rest, p) /\ OnDisk(e)
    /\ AtSize(rest, off, p) \/ InChunk(rest, off, p) \/ AtEnd(rest, off, p)
    BY <2>1 DEF Chunkly
  <2>3. /\ slot.status = "size" =>
             AtSize(rest, off, p) /\ n = 1 /\ v = rest[p + 1].n /\ v >= 0
        /\ slot.status = "crlf" =>
             \/ InChunk(rest, off, p) /\ n = 1 /\ v > 0
             \/ AtEnd(rest, off, p) /\ ~(v > 0)
    BY <1>1, <1>3, <1>7, <2>2, LineExpected
  <2>4. CASE slot.status = "size"
    <3>1. AtSize(rest, off, p) /\ v = rest[p + 1].n /\ n = 1
      BY <2>3, <2>4
    <3>3. Skip(1)
      BY <3>1 DEF Skip
    <3>2. Chunkly(e, rest, off)'
      BY <1>1, <1>3, <1>4, <2>2, <2>4, <3>1, <3>3, SizeGoesOn
    <3> QED BY <3>2
  <2>5. CASE slot.status = "crlf"
    <3>1. InChunk(rest, off, p) /\ n = 1
      BY <2>3, <2>5
    <3>3. Skip(1)
      BY <3>1 DEF Skip
    <3>2. Chunkly(e, rest, off)'
      BY <1>1, <1>3, <1>4, <1>7, <2>2, <2>5, <3>1, <3>3, ChunkGoesOn
    <3> QED BY <3>2
  <2> QED BY <1>1, <2>4, <2>5
<1> QED BY <1>2, <1>5, <1>6, <1>7, FollowChunks

(* A file of the length of the resource is the resource. *)
LEMMA OpenedWhole ==
  ASSUME Basic, Receiving, NEW e \in Exchanges, x = e, OnDisk(e), slot.write \/ Opens,
         slot.size = Len(e.body)
  PROVE  OpenedFile = e.body
<1>1. Prefix(e, OpenedFile, slot.size)
  BY OpenedPrefix
<1>2. slot.size \in Nat
  BY TakingIs
<1> QED BY <1>1, <1>2, PrefixIs

(* The last line has been read. *)
LEMMA FollowOutOfChunks ==
  ASSUME Basic, Basic', ReadLine, UNCHANGED <<x, cut>>,
         NEW e \in Exchanges, NEW h \in DOMAIN e.wire, x = e,
         Sincere(e, h), Following(e, h),
         NEW n \in 1..Len(wire), Bytes(n - 1), wire[n].is # "byte", Skip(n),
         NEW v \in Int, v = Value(n = 1, wire[n]),
         ~((slot.status = "crlf" /\ v > 0) \/ (slot.status = "size" /\ v >= 0)),
         NEW s, ChunksOver(s, v, slot'), s.code = slot.code, s.size = slot.size,
         s.total = (IF slot.total < 0 THEN 0 ELSE slot.total),
         s.write <=> (slot.write \/ Opens)
  PROVE  Following(e, h)'
<1> DEFINE rest == After(e, h)
           bytes == ToSend(e, rest)
<1>1. /\ slot.status \in {"size", "crlf"} /\ Receiving /\ file' = OpenedFile
      /\ cut' = cut
  BY DEF ReadLine, Receiving
<1>2. /\ ~Bare(e) /\ e.framing = "chunked" /\ slot.block \in Int /\ ~Tested
      /\ slot.size \in Nat /\ slot.code = IF e.code = 206 THEN 200 ELSE e.code
  <2>1. slot.chunked
    BY <1>1 DEF Basic, Taking
  <2> QED BY <1>1, <2>1, TakingIs
<1>3. rest \in Seq(Tokens) /\ Len(rest) \in Nat /\ wire' \in Seq(Tokens)
  BY AfterIs DEF Basic, TypeOK
<1>4. wire \in Seq(Tokens) /\ n \in 0..Len(wire) /\ wire[n] \in Tokens
      /\ (n = 1) \in BOOLEAN /\ 1 \in 1..Len(wire) /\ 1 \in 0..Len(wire)
  <2>1. wire \in Seq(Tokens) /\ Len(wire) \in Nat
    BY <1>1, BusyIs, ReceivingBusy
  <2> QED BY <2>1, TokensAre
<1>5. /\ slot'.status = "ready" /\ slot'.write = s.write
      /\ IF ~WrongLength(s) /\ Good(s) /\ ~Tested
         THEN slot'.entry = s.code /\ slot'.kept = s.size
         ELSE slot'.entry = 0
      /\ v < 0 => slot'.soc = "closed" /\ slot'.code = INVALID
      /\ v >= 0 /\ WrongLength(s) => slot'.code = INVALID
      /\ v >= 0 /\ ~WrongLength(s) => slot'.code = s.code
  BY DEF ChunksOver
<1>6. OutOfBody(e)'
  <2>1. SUFFICES ASSUME slot'.soc # "closed" PROVE wire' = <<>>
    BY DEF OutOfBody
  <2>2. v = 0 /\ slot.status = "crlf"
    BY <1>1, <1>5, <2>1
  <2>3. n = 1 /\ wire[n].is = "line" /\ slot.block = -1
    <3>1. v >= 0
      BY <2>2
    <3> QED BY <1>1, <1>4, <2>2, <3>1, ChunkEndValue
  <2>4. PICK p \in 0..Len(rest) : Part(rest, p) /\ Trailer(rest, p)
    BY <1>1, <2>3 DEF Following, InBody
  <2>5. p \in Nat
    BY <1>3
  <2>6. Part(rest, p + n)' /\ p + n \in 0..Len(rest)
    BY <1>1, <1>3, <1>4, <2>4, <2>5, PartSkip
  <2>7. p + 1 \in 1..Len(rest) /\ wire[1] = rest[p + 1]
    BY <1>3, <1>4, <2>4, <2>5, NextLine
  <2>8. p + 1 \in p + 1..Len(rest)
    BY <1>3, <2>5, <2>7
  <2>9. p + 1 = Len(rest)
    BY <2>3, <2>4, <2>7, <2>8 DEF Trailer
  <2>10. p + n >= Len(rest) /\ p + n \in Nat
    BY <1>3, <2>3, <2>6, <2>9
  <2> HIDE DEF rest
  <2> QED BY <1>3, <2>6, <2>10, PartEmpty
<1>7. ASSUME ~ChunkedRestOf(e)
      PROVE  Outcome(e)'
  <2>1. PICK off \in [Sizes(rest) -> 0..Len(bytes)] : AreChunks(rest, bytes, off)
    BY <1>2 DEF Sincere, Framed
  <2>2. Chunkly(e, rest, off)
    BY <1>1, <1>2, <1>7, <2>1 DEF Following, Faithful, ChunkedRestOf
  <2>3. e.code \in {200, 206} => bytes = e.body
    BY <1>2, <1>7, ChunksAre
  <2>4. Beginning(e, file')
    BY <1>1, <1>7, FollowBeginning, OpenedBeginning DEF ChunkedRestOf
  <2> HIDE DEF rest, bytes
  <2>5. PICK p \in 0..Len(rest) :
          /\ Part(rest, p) /\ OnDisk(e)
          /\ AtSize(rest, off, p) \/ InChunk(rest, off, p) \/ AtEnd(rest, off, p)
    BY <2>2 DEF Chunkly
  <2>6. /\ slot.status = "size" => v >= 0
        /\ slot.status = "crlf" => v > 0 \/ AtEnd(rest, off, p)
    BY <1>1, <1>3, <2>1, <2>5, LineExpected
  <2>7. PICK i \in Sizes(rest) :
          rest[i].n = 0 /\ slot.size = off[i] /\ slot.total = off[i]
    BY <1>1, <2>6 DEF AtEnd
  <2>8. off[i] = Len(bytes)
    <3>1. ~(rest[i].n > 0)
      BY <2>7
    <3> QED BY <2>1, <3>1 DEF AreChunks, IsLastChunk
  <2>9. s.total = s.size /\ ~WrongLength(s)
    <3>1. s.total = s.size
      BY <1>2, <2>7
    <3> QED BY <3>1 DEF WrongLength
  <2>10. ASSUME slot'.code = 200 PROVE slot'.entry = 200
    <3>1. s.code = 200
      BY <1>2, <1>5, <2>9, <2>10 DEF INVALID
    <3> QED BY <1>2, <1>5, <2>9, <3>1 DEF Good
  <2>11. ASSUME slot'.entry = 200 PROVE Stored(e)'
    <3>1. s.code = 200 /\ slot'.kept = s.size
      BY <1>5, <2>11
    <3>2. slot.size = Len(e.body)
      BY <1>2, <2>3, <2>7, <2>8, <3>1
    <3>3. CASE slot.write \/ Opens
      BY <1>1, <1>5, <2>5, <3>2, <3>3, OpenedWhole DEF Stored
    <3>4. CASE ~(slot.write \/ Opens)
      BY <1>5, <3>1, <3>2, <3>4 DEF Stored
    <3> QED BY <3>3, <3>4
  <2> QED BY <2>4, <2>10, <2>11 DEF Outcome, Beginning
<1> QED BY <1>5, <1>6, <1>7, FollowOver DEF ChunkedRestOf

(* A line is read. *)
LEMMA FollowReadLine ==
  ASSUME Basic, Basic', ReadLine, UNCHANGED <<x, cut>>,
         NEW e \in Exchanges, NEW h \in DOMAIN e.wire, x = e,
         Sincere(e, h), Following(e, h)
  PROVE  Following(e, h)'
<1>1. PICK n \in 1..Len(wire), v \in Int :
        /\ Bytes(n - 1) /\ wire[n].is # "byte" /\ Skip(n)
        /\ v = Value(n = 1, wire[n])
        /\ slot' = AfterLine(Announced(v), v)
  BY ReadLineIs
<1>2. CASE (slot.status = "crlf" /\ v > 0) \/ (slot.status = "size" /\ v >= 0)
  <2>1. LineGoesOn(v)
    BY <1>1, <1>2, LineIs
  <2> QED BY <1>1, <1>2, <2>1, FollowLine
<1>3. CASE ~((slot.status = "crlf" /\ v > 0) \/ (slot.status = "size" /\ v >= 0))
  <2>1. /\ ChunksOver(Announced(v), v, slot')
        /\ Announced(v).code = slot.code /\ Announced(v).size = slot.size
        /\ Announced(v).total = (IF slot.total < 0 THEN 0 ELSE slot.total)
        /\ Announced(v).write <=> (slot.write \/ Opens)
    BY <1>1, <1>3, LineIs
  <2> DEFINE s == Announced(v)
  <2> HIDE DEF s
  <2>2. /\ ChunksOver(s, v, slot') /\ s.code = slot.code /\ s.size = slot.size
        /\ s.total = (IF slot.total < 0 THEN 0 ELSE slot.total)
        /\ s.write <=> (slot.write \/ Opens)
    BY <2>1 DEF s
  <2> QED BY <1>1, <1>3, <2>2, FollowOutOfChunks
<1> QED BY <1>2, <1>3

(* The server has closed the connection. *)
LEMMA FollowPeerEnd ==
  ASSUME Basic, PeerEnd, UNCHANGED <<x, cut>>,
         NEW e \in Exchanges, NEW h \in DOMAIN e.wire, x = e, Kept206(e),
         Sincere(e, h), Following(e, h)
  PROVE  Following(e, h)'
<1> DEFINE rest == After(e, h)
           bytes == ToSend(e, rest)
<1>1. /\ Busy /\ wire' = <<>> /\ file' = OpenedFile
  BY PeerEndBasic
<1>2. PICK error \in BOOLEAN :
              /\ slot' \in Ends(Opened, error)
              /\ ~error => peer = "closed" /\ Good(slot)
  BY PeerEndBasic
<1> DEFINE s == Opened
<1>3. /\ Intact(s) /\ s.soc = "open" /\ s.status = slot.status /\ s.code = slot.code
      /\ s.size = slot.size /\ s.total = slot.total /\ s.alloc = slot.alloc
      /\ s.write <=> (slot.write \/ Opens)
  BY <1>1, OpenedIs
<1> HIDE DEF s
<1>4. ~ChunkedRestOf(e) => Beginning(e, file')
  BY <1>1, FollowBeginning, OpenedBeginning DEF ChunkedRestOf
<1>5. Good(slot) => Receiving
  <2>1. slot.status \in {"headers", "body", "size", "crlf", "ready", "free"}
    BY SlotType DEF Basic, TypeOK
  <2>2. slot.status = "headers" => ~Good(slot)
    BY DEF Basic, Fresh, Good, INVALID
  <2> QED BY <1>1, <2>1, <2>2 DEF Busy, Receiving
<1>6. Good(s) <=> Good(slot)
  BY <1>3 DEF Good
<1>7. ~error /\ Good(s) => ~Tested
  BY <1>5, <1>6, TakingIs
<1>8. ~error /\ Good(s) /\ ~ChunkedRestOf(e) => s.total < 0 \/ s.size <= s.total
  BY <1>3, <1>5, <1>6, NoMore
<1>9. ASSUME ~error, ~ChunkedRestOf(e), s.code = 200, s.write \/ s.alloc,
             s.total < 0 \/ s.size = s.total, e.framing = "length" \/ ~cut
      PROVE  IF s.write THEN file' = e.body ELSE s.size = Len(e.body)
  <2>1. /\ Receiving /\ Good(slot) /\ peer = "closed" /\ OnDisk(e)
    BY <1>2, <1>3, <1>5, <1>9, NoMore DEF Good
  <2>2. /\ ~Bare(e) /\ slot.code = IF e.code = 206 THEN 200 ELSE e.code
        /\ slot.size \in Nat /\ slot.total \in Int
    BY <2>1, TakingIs
  <2>3. e.code \in {200, 206}
    BY <1>3, <1>9, <2>2, ZenonT(30)
  <2>4. rest \in Seq(Tokens) /\ Len(rest) \in Nat /\ Before(e) \in Nat /\ e.framing \in Framings
        /\ wire \in Seq(Tokens)
    BY AfterIs, PartsOf DEF Basic, TypeOK
  <2>5. cut \/ Len(wire) = 0
    BY <2>1, EmptySeq DEF Basic, Closes
  <2>6. slot.size = Len(e.body)
    <3>1. CASE e.framing # "chunked"
      <4>1. Len(e.body) = Before(e) + Len(rest)
        BY <2>2, <2>3, <3>1, PlainIs
      <4>2. PICK p \in 0..Len(rest) :
              /\ Part(rest, p) /\ slot.size = Before(e) + p
              /\ slot.total = IF e.framing = "length" THEN Before(e) + Len(rest) ELSE -1
        BY <2>1, <3>1 DEF Following, Faithful, Plainly
      <4>3. CASE e.framing = "length"
        <5>1. slot.size = slot.total
          BY <1>3, <1>9, <2>4, <4>2, <4>3
        <5> QED BY <4>1, <4>2, <4>3, <5>1
      <4>4. CASE e.framing # "length"
        <5>1. p + Len(wire) = Len(rest) /\ Len(wire) = 0
          BY <1>9, <2>5, <4>2, <4>4 DEF Part
        <5>2. p = Len(rest)
          BY <2>4, <5>1
        <5> QED BY <4>1, <4>2, <5>2
      <4> QED BY <4>3, <4>4
    <3>2. CASE e.framing = "chunked"
      <4>1. PICK off \in [Sizes(rest) -> 0..Len(bytes)] : AreChunks(rest, bytes, off)
        BY <2>2, <3>2 DEF Sincere, Framed
      <4>2. Chunkly(e, rest, off)
        BY <1>9, <2>1, <3>2, <4>1 DEF Following, Faithful, ChunkedRestOf
      <4>3. bytes = e.body
        BY <1>9, <2>3, <3>2, ChunksAre
      <4> HIDE DEF rest, bytes
      <4>4. PICK p \in 0..Len(rest) :
              /\ Part(rest, p)
              /\ AtSize(rest, off, p) \/ InChunk(rest, off, p) \/ AtEnd(rest, off, p)
        BY <4>2 DEF Chunkly
      <4>5. p = Len(rest)
        <5>1. p + Len(wire) = Len(rest) /\ Len(wire) = 0
          BY <1>9, <2>5, <3>2, <4>4 DEF Part
        <5> QED BY <2>4, <5>1
      <4>6. Sizes(rest) \subseteq 1..Len(rest)
        BY <2>4, TokensAre DEF Sizes
      <4>7. ~AtSize(rest, off, p)
        <5>1. p + 1 \notin 1..Len(rest)
          BY <2>4, <4>5
        <5> QED BY <4>6, <5>1 DEF AtSize
      <4>8. ~InChunk(rest, off, p)
        <5>1. SUFFICES ASSUME NEW i \in Sizes(rest), rest[i].n > 0, p \in i..i + rest[i].n
                       PROVE  FALSE
          BY DEF InChunk
        <5>2. i + rest[i].n + 2 \in Sizes(rest)
          BY <4>1, <5>1 DEF AreChunks, IsChunk
        <5>3. rest[i].n \in Int /\ i \in Int
          <6>1. i \in 1..Len(rest)
            BY <4>6
          <6> QED BY <2>4, <6>1, TokensAre
        <5>4. PICK m \in Int : m = rest[i].n
          BY <5>3
        <5>5. i + m + 2 \in 1..Len(rest) /\ p \in i..i + m
          BY <4>6, <5>1, <5>2, <5>4
        <5> QED BY <2>4, <4>5, <5>3, <5>5
      <4>9. PICK i \in Sizes(rest) : rest[i].n = 0 /\ slot.size = off[i]
        BY <4>4, <4>7, <4>8 DEF AtEnd
      <4>10. off[i] = Len(bytes)
        <5>1. ~(rest[i].n > 0)
          BY <4>9
        <5> QED BY <4>1, <5>1 DEF AreChunks, IsLastChunk
      <4> QED BY <4>3, <4>9, <4>10
    <3> QED BY <3>1, <3>2
  <2>7. CASE s.write
    BY <1>1, <1>3, <2>1, <2>6, <2>7, OpenedWhole
  <2>8. CASE ~s.write
    BY <1>3, <2>6, <2>8
  <2> QED BY <2>7, <2>8
<1>10. slot' \in Ends(s, error)
  BY <1>2 DEF s
<1> QED BY <1>1, <1>3, <1>4, <1>7, <1>8, <1>9, <1>10, FollowEnds

(* The server stops: what is left of its answer is a part of it. *)
LEMMA PartCut ==
  ASSUME wire \in Seq(Tokens), NEW k \in 0..(Len(wire) - 1), wire' = SubSeq(wire, 1, k), cut',
         NEW s \in Seq(Tokens), NEW p \in Nat, Part(s, p)
  PROVE  Part(s, p)'
<1>1. Len(wire) \in Nat /\ Len(s) \in Nat
  BY TokensAre
<1>2. k \in 0..Len(wire) /\ k \in Nat
  BY <1>1
<1>3. Len(wire') = k /\ \A i \in 1..k : wire'[i] = wire[i]
  BY <1>2, CutType
<1>4. p + Len(wire) <= Len(s) /\ \A i \in 1..Len(wire) : wire[i] = s[p + i]
  BY DEF Part
<1>5. p + Len(wire') <= Len(s)
  BY <1>1, <1>2, <1>3, <1>4
<1>6. ASSUME NEW i \in 1..Len(wire') PROVE wire'[i] = s[p + i]
  <2>1. i \in 1..Len(wire)
    BY <1>1, <1>2, <1>3
  <2> QED BY <1>3, <1>4, <2>1
<1> QED BY <1>5, <1>6 DEF Part

(* Only the other end of the connection changes. *)
LEMMA FollowPeer ==
  ASSUME Basic, PeerStops,
         NEW e \in Exchanges, NEW h \in DOMAIN e.wire, x = e, Following(e, h)
  PROVE  Following(e, h)'
<1> DEFINE rest == After(e, h)
           bytes == ToSend(e, rest)
<1>1. Busy /\ UNCHANGED <<x, file, slot>> /\ cut' /\ wire \in Seq(Tokens)
  BY DEF PeerStops, Basic, TypeOK
<1>2. PICK k \in 0..(Len(wire) - 1) : wire' = SubSeq(wire, 1, k)
  BY DEF PeerStops
<1>3. /\ e.wire \in Seq(Tokens) /\ h \in Nat \ {0} /\ rest \in Seq(Tokens)
      /\ Len(rest) \in Nat
  BY AfterIs
<1>4. Heading(e, h)'
  <2>1. SUFFICES ASSUME slot.status = "headers" PROVE \E p \in 0..h - 1 : Part(e.wire, p)'
    BY <1>1 DEF Heading
  <2>2. PICK p \in 0..h - 1 : Part(e.wire, p)
    BY <2>1 DEF Following, Heading
  <2>3. p \in Nat
    BY <1>3
  <2>4. Part(e.wire, p)'
    BY <1>1, <1>2, <1>3, <2>2, <2>3, PartCut
  <2> QED BY <2>4
<1>5. InBody(rest)'
  <2>1. SUFFICES ASSUME Receiving
                 PROVE  \E p \in 0..Len(rest) : Part(rest, p)' /\ (slot.block = -1 => Trailer(rest, p))
    BY <1>1 DEF InBody, Receiving
  <2>2. PICK p \in 0..Len(rest) : Part(rest, p) /\ (slot.block = -1 => Trailer(rest, p))
    BY <2>1 DEF Following, InBody
  <2>3. p \in Nat
    BY <1>3
  <2>4. Part(rest, p)'
    BY <1>1, <1>2, <1>3, <2>2, <2>3, PartCut
  <2> QED BY <2>2, <2>4
<1>6. ~Over' /\ OutOfBody(e)'
  BY <1>1 DEF Over, Busy, OutOfBody
<1>7. OnDisk(e) => OnDisk(e)'
  BY <1>1 DEF OnDisk
<1>8. Plainly(e, rest) => Plainly(e, rest)'
  <2>1. SUFFICES ASSUME Plainly(e, rest) PROVE Plainly(e, rest)'
    OBVIOUS
  <2>2. PICK p \in 0..Len(rest) :
    /\ Part(rest, p) /\ OnDisk(e) /\ slot.size = Before(e) + p
    /\ slot.total = IF e.framing = "length" THEN Before(e) + Len(rest) ELSE -1
    BY <2>1 DEF Plainly
  <2>3. p \in Nat
    BY <1>3
  <2>4. Part(rest, p)'
    BY <1>1, <1>2, <1>3, <2>2, <2>3, PartCut
  <2> QED BY <1>1, <1>7, <2>2, <2>4 DEF Plainly
<1>9. ASSUME NEW off, Chunkly(e, rest, off) PROVE Chunkly(e, rest, off)'
  <2>2. PICK p \in 0..Len(rest) :
    /\ Part(rest, p) /\ OnDisk(e)
    /\ AtSize(rest, off, p) \/ InChunk(rest, off, p) \/ AtEnd(rest, off, p)
    BY <1>9 DEF Chunkly
  <2>3. p \in Nat
    BY <1>3
  <2>4. Part(rest, p)'
    BY <1>1, <1>2, <1>3, <2>2, <2>3, PartCut
  <2>5. (AtSize(rest, off, p) \/ InChunk(rest, off, p) \/ AtEnd(rest, off, p))'
    BY <1>1, <2>2 DEF AtSize, InChunk, AtEnd
  <2> QED BY <1>7, <2>2, <2>4, <2>5 DEF Chunkly
<1>10. ~(e.code = 206 /\ e.framing = "chunked") => Faithful(e, rest, bytes)'
  BY <1>1, <1>6, <1>8, <1>9 DEF Following, Faithful, Receiving
<1> QED BY <1>4, <1>5, <1>6, <1>10 DEF Following

(* Nothing that is followed changes. *)
LEMMA FollowStill ==
  ASSUME UNCHANGED <<x, wire, cut, file, slot>>, NEW e, NEW h, Following(e, h)
  PROVE  Following(e, h)'
<1>1. \A s, p : Part(s, p) <=> Part(s, p)'
  BY DEF Part
<1>2. Heading(e, h)' /\ OutOfBody(e)'
  BY <1>1 DEF Following, Heading, OutOfBody, Over
<1>3. InBody(After(e, h))'
  BY <1>1 DEF Following, InBody, Receiving
<1>4. OnDisk(e) => OnDisk(e)'
  BY DEF OnDisk
<1>5. ASSUME NEW rest, NEW off
      PROVE  /\ Plainly(e, rest) => Plainly(e, rest)'
             /\ Chunkly(e, rest, off) => Chunkly(e, rest, off)'
  <2>1. ASSUME NEW p
        PROVE  /\ AtSize(rest, off, p) <=> AtSize(rest, off, p)'
               /\ InChunk(rest, off, p) <=> InChunk(rest, off, p)'
               /\ AtEnd(rest, off, p) <=> AtEnd(rest, off, p)'
    BY DEF AtSize, InChunk, AtEnd
  <2>2. Plainly(e, rest) => Plainly(e, rest)'
    BY <1>1, <1>4 DEF Plainly
  <2>3. Chunkly(e, rest, off) => Chunkly(e, rest, off)'
    <3>1. SUFFICES ASSUME Chunkly(e, rest, off) PROVE Chunkly(e, rest, off)'
      OBVIOUS
    <3>2. PICK p \in 0..Len(rest) :
            /\ Part(rest, p) /\ OnDisk(e)
            /\ AtSize(rest, off, p) \/ InChunk(rest, off, p) \/ AtEnd(rest, off, p)
      BY <3>1 DEF Chunkly
    <3> QED BY <1>1, <1>4, <2>1, <3>2 DEF Chunkly
  <2> QED BY <2>2, <2>3
<1>6. Outcome(e) => Outcome(e)'
  BY DEF Outcome, Stored, Tested
<1>7. \A rest, bytes : Faithful(e, rest, bytes) => Faithful(e, rest, bytes)'
  BY <1>5, <1>6 DEF Faithful, Receiving, Over
<1> QED BY <1>2, <1>3, <1>7 DEF Following

-----------------------------------------------------------------------------
(* The invariant, and what it gives *)

(* Every step follows what an honest server sends. *)
LEMMA Follows ==
  ASSUME Basic, Basic', [Next]_vars,
         NEW e \in Exchanges, NEW h \in DOMAIN e.wire, x = e, Kept206(e),
         Sincere(e, h), Following(e, h)
  PROVE  Following(e, h)'
<1>1. CASE HeadStep /\ UNCHANGED <<x, cut>>
  <2>1. CASE Start \/ PartialStart
    BY <1>1, <2>1, FollowStart
  <2>2. CASE ~(Start \/ PartialStart)
    <3>1. Interim \/ TooBig \/ PartialRefused \/ TestHead \/ NotModified \/ AlreadyComplete
      BY <1>1, <2>2 DEF HeadStep
    <3> QED BY <1>1, <3>1, FollowHead
  <2> QED BY <2>1, <2>2
<1>2. CASE BodyStep /\ UNCHANGED <<x, cut>>
  BY <1>2, FollowCreateFails, FollowReadBody, FollowWriteFails, FollowReadChunk,
     FollowChunkFull, FollowReserve, FollowReadLineInstead, FollowReadLine DEF BodyStep
<1>3. CASE (PeerEnd \/ Timeout \/ Slow \/ Cancel \/ Park \/ Delete) /\ UNCHANGED <<x, cut>>
  BY <1>3, FollowPeerEnd, FollowGivenUp, FollowRests
<1>4. CASE PeerStops
  BY <1>4, FollowPeer
<1>5. CASE PeerCloses \/ UNCHANGED vars
  BY <1>5, FollowStill DEF PeerCloses, vars
<1> QED BY <1>1, <1>2, <1>3, <1>4, <1>5 DEF Next, Turn, Interrupted

(* What is asked never changes. *)
LEMMA SameExchange == [Next]_vars => x' = x
BY DEF Next, Turn, Interrupted, PeerStops, PeerCloses, vars

(* The second part of the invariant holds at the beginning. *)
LEMMA HonestlyInitially == Init => Honestly
<1> SUFFICES ASSUME Init, NEW e \in Exchanges, NEW h \in DOMAIN e.wire, x = e
             PROVE  Following(e, h)
  BY DEF Honestly
<1>1. slot.status = "headers" /\ wire = e.wire /\ ~cut
  BY DEF Init, NewSlot
<1>2. e.wire \in Seq(Tokens) /\ h \in Nat \ {0} /\ Len(e.wire) \in Nat
  BY AfterIs
<1>3. Part(e.wire, 0)
  BY <1>1, <1>2 DEF Part
<1>4. 0 \in 0..h - 1
  BY <1>2
<1>5. Heading(e, h)
  BY <1>3, <1>4 DEF Heading
<1> QED BY <1>1, <1>5 DEF Following, InBody, OutOfBody, Faithful, Receiving, Over

(* Every step keeps the second part of the invariant. *)
LEMMA HonestlyInvariance == Basic /\ Basic' /\ Honestly /\ [Next]_vars => Honestly'
<1> SUFFICES ASSUME Basic, Basic', Honestly, [Next]_vars,
                    NEW e \in Exchanges, NEW h \in DOMAIN e.wire,
                    x' = e, Kept206(e), Sincere(e, h)
             PROVE  Following(e, h)'
  BY DEF Honestly
<1>1. x = e
  BY SameExchange
<1>2. Following(e, h)
  BY <1>1 DEF Honestly
<1> QED BY <1>1, <1>2, Follows

(* The invariant, for every exchange and every fault. *)
LEMMA Invariant == Spec => [](Basic /\ Honestly)
<1>1. Init => Basic /\ Honestly
  BY BasicInitially, HonestlyInitially
<1>2. Basic /\ Honestly /\ [Next]_vars => Basic' /\ Honestly'
  BY BasicInvariance, HonestlyInvariance
<1> QED BY <1>1, <1>2, PTL DEF Spec

(* An honest exchange is followed. *)
LEMMA Followed ==
  ASSUME Basic, Honestly, Honest(x)
  PROVE  \E h \in DOMAIN x.wire : Sincere(x, h) /\ Following(x, h)
<1>1. x \in Exchanges /\ Kept206(x)
  BY DEF Basic, TypeOK, Honest, Kept206
<1>2. PICK h \in DOMAIN x.wire : Sincere(x, h)
  BY DEF Honest
<1> QED BY <1>1, <1>2 DEF Honestly

(* An answer that is stored, or whose connection is kept, is over. *)
LEMMA StoredIsOver ==
  ASSUME Basic, slot.entry # 0 \/ slot.soc # "open"
  PROVE  Over
<1>1. ~Busy
  BY DEF Basic, Going, Intact
<1>2. slot.status \in {"headers", "body", "size", "crlf", "ready", "free"}
  BY SlotType DEF Basic, TypeOK
<1> QED BY <1>1, <1>2 DEF Busy, Over

(* An answer stored as complete is complete, whatever the resource, its    *)
(* framing and the way its bytes arrive (back_wait, back_finalize).        *)
THEOREM Whole == Spec => []StoredWhole
<1>1. ASSUME Basic, Honestly PROVE StoredWhole
  <2>1. SUFFICES ASSUME slot.entry = 200, Honest(x), ~ChunkedRest, slot.write \/ slot.alloc,
                        x.framing = "length" \/ ~cut
                 PROVE  Complete
    BY DEF StoredWhole
  <2>2. PICK h \in DOMAIN x.wire : Following(x, h)
    BY <1>1, <2>1, Followed
  <2>3. Over
    BY <1>1, <2>1, StoredIsOver
  <2> QED BY <2>1, <2>2, <2>3 DEF Following, Faithful, Outcome, Stored, Complete, ChunkedRest
<1> QED BY <1>1, Invariant, PTL

(* A connection that is kept holds nothing of the answer it brought        *)
(* (back_maydeletehttp).                                                   *)
THEOREM InSync == Spec => []ParkedInSync
<1>1. ASSUME Basic, Honestly PROVE ParkedInSync
  <2>1. SUFFICES ASSUME slot.soc = "parked", Honest(x), x.kind # "gettest"
                 PROVE  wire = <<>>
    BY DEF ParkedInSync
  <2>2. PICK h \in DOMAIN x.wire : Following(x, h)
    BY <1>1, <2>1, Followed
  <2>3. Over
    BY <1>1, <2>1, StoredIsOver
  <2> QED BY <2>1, <2>2, <2>3 DEF Following, OutOfBody
<1> QED BY <1>1, Invariant, PTL

(* What is on disk can be continued, at every moment of the reception.     *)
THEOREM Continues206 == Spec => []Continuable
<1>1. ASSUME Basic, Honestly PROVE Continuable
  <2>1. ASSUME Honest(x), ~ChunkedRest
        PROVE  file = x.have \/ file = SubSeq(x.body, 1, Len(file))
    <3>1. PICK h \in DOMAIN x.wire : Sincere(x, h) /\ Following(x, h)
      BY <1>1, <2>1, Followed
    <3>2. x \in Exchanges
      BY <1>1 DEF Basic, TypeOK
    <3>3. Beginning(x, file)
      BY <1>1, <2>1, <3>1, <3>2, FollowBeginning DEF ChunkedRest
    <3> QED BY <3>3 DEF Beginning
  <2>2. Over /\ slot.write /\ slot.entry = 0 => slot.ref
    BY <1>1 DEF Basic, Ended
  <2> QED BY <2>1, <2>2 DEF Continuable
<1> QED BY <1>1, Invariant, PTL

(* An answer that is over with its good code was stored, or is the file on *)
(* disk that is trusted.                                                   *)
THEOREM GoodStored == Spec => []GoodMeansStored
<1>1. ASSUME Basic, Honestly PROVE GoodMeansStored
  <2>1. SUFFICES ASSUME slot.status = "free", slot.code = 200, ~Tested, Honest(x), ~ChunkedRest
                 PROVE  slot.entry = 200 \/ slot.guessed
    BY DEF GoodMeansStored
  <2>2. PICK h \in DOMAIN x.wire : Following(x, h)
    BY <1>1, <2>1, Followed
  <2> QED BY <2>1, <2>2 DEF Following, Faithful, Outcome, Over, ChunkedRest
<1> QED BY <1>1, Invariant, PTL

=============================================================================
