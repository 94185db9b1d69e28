----------------------------- MODULE Coucal_proofs -----------------------------
(***************************************************************************)
(* Proofs about the hash table, for every set of keys, every pair of hashes *)
(* and every size of the table and of the stash.  The invariant is that of *)
(* the places: the entry of a key is in the table at one of its two         *)
(* positions, or in the stash, or in hand, or waits to be merged, and in    *)
(* one place only (PlaceInv).  A move, a doubling or a return from the      *)
(* stash changes the place and keeps the entries (SameEntries); a call      *)
(* changes the entry of one key (Becomes).  From this follow the count of   *)
(* the entries (Counted), what an enumeration has passed and has still      *)
(* before it (CursorInv), and that the table is the map its callers see.    *)
(* The next part follows the moves of one placement (Walk): they are as    *)
(* many as the table has positions, of which less than half are taken, so  *)
(* that what ends in the stash could stand nowhere.  Then come the strings *)
(* of the keys (Sound): an addition puts one above the others, a removal   *)
(* frees the bytes of one, and a relocation, which meets each entry once   *)
(* (PassOf), copies as many bytes as they take, one string after the other. *)
(***************************************************************************)
EXTENDS Coucal, Greatest, FiniteSetTheorems, SequenceTheorems, TLAPS

-----------------------------------------------------------------------------
(* Arithmetic *)

(* What is left of a number by another. *)
LEMMA Remainder ==
  ASSUME NEW r \in Nat, NEW q \in Nat, NEW n \in Nat \ {0}, r < n
  PROVE (n * q + r) % n = r
OBVIOUS

(* A number divided by another. *)
LEMMA Division ==
  ASSUME NEW h \in Nat, NEW n \in Nat \ {0}
  PROVE  \E q \in Nat, r \in 0 .. n - 1 : h = n * q + r
<1> DEFINE S == {i \in 1 .. h + 1 : n * (i - 1) <= h}
<1>1. 1 \in S /\ S \subseteq 1 .. (h + 1) /\ h + 1 \in Nat
  OBVIOUS
<1> HIDE DEF S
<1>2. PICK i \in S : \A j \in S : j <= i
  BY <1>1, LastOf
<1>3. i \in 1 .. h + 1 /\ n * (i - 1) <= h
  BY DEF S
<1>4. h < n * i
  <2> SUFFICES ASSUME n * i <= h
               PROVE  FALSE
    BY <1>3
  <2>1. i <= n * i
    BY <1>3
  <2>2. i + 1 \in 1 .. h + 1 /\ n * ((i + 1) - 1) <= h
    BY <1>3, <2>1
  <2>3. i + 1 \in S
    BY <2>2 DEF S
  <2>4. i + 1 <= i
    BY <1>2, <2>3
  <2> QED BY <1>3, <2>4
<1>5. n * i = n * (i - 1) + n
  BY <1>3
<1>6. PICK m \in Nat : m = n * (i - 1)
  BY <1>3
<1>7. h - m \in 0 .. n - 1 /\ h = m + (h - m)
  BY <1>3, <1>4, <1>5, <1>6
<1>8. i - 1 \in Nat
  BY <1>3
<1>9. h = n * (i - 1) + (h - m)
  BY <1>6, <1>7
<1> QED BY <1>7, <1>8, <1>9

(* The position in the doubled table tells the one in the old table. *)
LEMMA Halved ==
  ASSUME NEW h \in Nat, NEW n \in Nat \ {0}
  PROVE  (h % (2 * n)) % n = h % n
<1>0. 2 * n \in Nat \ {0}
  OBVIOUS
<1>1. PICK q \in Nat, r \in 0 .. 2 * n - 1 : h = (2 * n) * q + r
  BY <1>0, Division
<1>2. h % (2 * n) = r
  BY <1>0, <1>1, Remainder
<1>3. CASE r < n
  <2>1. h = n * (2 * q) + r
    BY <1>1
  <2>2. h % n = r
    BY <1>3, <2>1, Remainder
  <2>3. r = n * 0 + r
    OBVIOUS
  <2>4. r % n = r
    BY <1>3, <2>3, Remainder
  <2> QED BY <1>2, <2>2, <2>4
<1>4. CASE r >= n
  <2>1. PICK s \in Nat : r = n + s /\ s < n
    BY <1>4
  <2>2. h = n * (2 * q + 1) + s
    BY <1>1, <2>1
  <2>3. h % n = s
    BY <2>1, <2>2, Remainder
  <2>4. r = n * 1 + s
    BY <2>1
  <2>5. r % n = s
    BY <2>1, <2>4, Remainder
  <2> QED BY <1>2, <2>3, <2>5
<1> QED BY <1>3, <1>4
-----------------------------------------------------------------------------
(* Where the entries are *)

(* No key has two entries, wherever they are. *)
DistinctTable ==
  \A p, q \in Positions :
    ~Free(p) /\ ~Free(q) /\ items[p].key = items[q].key => p = q

(* Nor in a sequence of entries. *)
DistinctIn(s) == \A i, j \in DOMAIN s : s[i].key = s[j].key => i = j

(* No key has an entry in the table and another in the sequence. *)
ApartFrom(s) == \A p \in Positions, i \in DOMAIN s : ~Free(p) => items[p].key # s[i].key

(* The key of the entry in hand has no other. *)
HandApart ==
  hand # None =>
    /\ \A p \in Positions : ~Free(p) => items[p].key # hand.key
    /\ \A i \in DOMAIN stash : stash[i].key # hand.key
    /\ \A i \in DOMAIN pending : pending[i].key # hand.key

(* All of these: a key has one entry. *)
Distinct ==
  /\ DistinctTable /\ DistinctIn(stash) /\ DistinctIn(pending)
  /\ ApartFrom(stash) /\ ApartFrom(pending)
  /\ \A i \in DOMAIN stash, j \in DOMAIN pending : stash[i].key # pending[j].key
  /\ HandApart

(* What is in hand, and where it goes next. *)
Phases ==
  /\ pc \in {"idle", "added", "merge"} => hand = None
  /\ pc = "move" => hash \in {Hash1[hand.key], Hash2[hand.key]}
  /\ pc \in {"idle", "added"} => ~growing
  /\ pc = "merge" => growing
  /\ ~growing => pending = <<>>
  /\ pc # "idle" => cursor = NoCursor

(* Every entry has its place, and it has one. *)
PlaceInv == TypeOK /\ AtHome /\ Distinct /\ Phases

(* An entry is somewhere. *)
Somewhere(x) ==
  \/ \E p \in Positions : items[p] = x
  \/ \E i \in DOMAIN stash : stash[i] = x
  \/ hand = x
  \/ \E i \in DOMAIN pending : pending[i] = x

(* The entries are the items that are somewhere. *)
LEMMA EntriesAre ==
  ASSUME TypeOK
  PROVE  /\ \A x : x \in Entries <=> x \in Item /\ Somewhere(x)
         /\ None \notin Item
<1>1. /\ \A p \in Positions : items[p] \in Item \cup {None}
      /\ \A i \in DOMAIN stash : stash[i] \in Item
      /\ \A i \in DOMAIN pending : pending[i] \in Item
      /\ hand \in Item \cup {None}
  BY DEF TypeOK
<1> QED BY <1>1, NoneIsNothing DEF Entries, Contents, Contained, Somewhere

(* The same after a step. *)
LEMMA EntriesAfter ==
  TypeOK =>
    /\ \A x : x \in Entries <=> x \in Item /\ Somewhere(x)
    /\ None \notin Item
BY EntriesAre

(* A key has one entry. *)
LEMMA OneOfEach ==
  ASSUME TypeOK, Distinct
  PROVE  \A x, y \in Entries : x.key = y.key => x = y
<1> SUFFICES ASSUME NEW x \in Entries, NEW y \in Entries, x.key = y.key
             PROVE  x = y
  OBVIOUS
<1>1. x \in Item /\ y \in Item /\ Somewhere(x) /\ Somewhere(y) /\ None \notin Item
  BY EntriesAre
<1>2. CASE \E p \in Positions : items[p] = x
  BY <1>1, <1>2 DEF Somewhere, Distinct, DistinctTable, ApartFrom, HandApart, Free
<1>3. CASE \E i \in DOMAIN stash : stash[i] = x
  BY <1>1, <1>3 DEF Somewhere, Distinct, DistinctIn, ApartFrom, HandApart, Free
<1>4. CASE hand = x
  BY <1>1, <1>4 DEF Somewhere, Distinct, HandApart, Free
<1>5. CASE \E i \in DOMAIN pending : pending[i] = x
  BY <1>1, <1>5 DEF Somewhere, Distinct, DistinctIn, ApartFrom, HandApart, Free
<1> QED BY <1>1, <1>2, <1>3, <1>4, <1>5 DEF Somewhere

(* The two positions of a key are positions. *)
LEMMA PosType ==
  ASSUME TypeOK, NEW k \in Keys
  PROVE  /\ Pos1(k) \in Positions /\ Pos2(k) \in Positions
         /\ BothPos(k) \subseteq Positions
<1>1. Hash1[k] \in Nat /\ Hash2[k] \in Nat /\ size \in Nat \ {0}
  BY HashesAreNumbers DEF TypeOK
<1>2. \A h \in Nat : h % size \in 0 .. size - 1
  BY <1>1
<1> QED BY <1>1, <1>2 DEF Pos1, Pos2, BothPos, Positions

(* The least of some places of a sequence is one of them. *)
LEMMA LeastOf ==
  ASSUME NEW S, NEW n \in Nat, S \subseteq 1 .. n, S # {}
  PROVE  Least(S) \in S /\ \A i \in S : Least(S) <= i
BY FirstOf DEF Least

(* A sequence without one of its elements. *)
LEMMA Removed ==
  ASSUME NEW s \in Seq(Item), NEW i \in 1 .. Len(s), NEW t, t = RemoveAt(s, i)
  PROVE  /\ t \in Seq(Item) /\ Len(t) = Len(s) - 1
         /\ \A j \in 1 .. Len(t) : t[j] = IF j < i THEN s[j] ELSE s[j + 1]
<1> DEFINE a == SubSeq(s, 1, i - 1)
           b == SubSeq(s, i + 1, Len(s))
<1>0. Len(s) \in Nat
  BY LenProperties
<1>1. a \in Seq(Item) /\ Len(a) = i - 1 /\ \A j \in 1 .. i - 1 : a[j] = s[j]
  <2>1. \A j \in 1 .. i - 1 : s[j] \in Item
    BY <1>0, ElementOfSeq
  <2> QED BY <1>0, <2>1, SubSeqProperties
<1>2. /\ b \in Seq(Item) /\ Len(b) = Len(s) - i
      /\ \A j \in 1 .. Len(s) - i : b[j] = s[i + j]
  <2>1. \A j \in i + 1 .. Len(s) : s[j] \in Item
    BY <1>0, ElementOfSeq
  <2>2. i + 1 \in Int /\ Len(s) \in Int
    BY <1>0
  <2>3. /\ b \in Seq(Item) /\ Len(b) = IF i + 1 <= Len(s) THEN Len(s) - (i + 1) + 1 ELSE 0
        /\ \A j \in 1 .. Len(s) - (i + 1) + 1 : b[j] = s[(i + 1) + j - 1]
    BY <2>1, <2>2, SubSeqProperties
  <2> QED BY <1>0, <2>3
<1> HIDE DEF a, b
<1>3. /\ t = a \o b /\ t \in Seq(Item) /\ Len(t) = Len(a) + Len(b)
      /\ \A j \in 1 .. Len(a) + Len(b) : t[j] = IF j <= Len(a) THEN a[j] ELSE b[j - Len(a)]
  BY <1>1, <1>2, ConcatProperties DEF RemoveAt, a, b
<1>4. ASSUME NEW j \in 1 .. Len(t)
      PROVE  t[j] = IF j < i THEN s[j] ELSE s[j + 1]
  <2>1. CASE j < i
    BY <1>0, <1>1, <1>2, <1>3, <2>1
  <2>2. CASE j >= i
    <3>1. j - (i - 1) \in 1 .. Len(s) - i /\ i + (j - (i - 1)) = j + 1
      BY <1>0, <1>1, <1>2, <1>3, <2>2
    <3>2. t[j] = b[j - (i - 1)]
      BY <1>0, <1>1, <1>2, <1>3, <2>2
    <3> QED BY <1>2, <2>2, <3>1, <3>2
  <2> QED BY <1>0, <2>1, <2>2
<1>5. Len(t) = Len(s) - 1
  BY <1>0, <1>1, <1>2, <1>3
<1>6. \A j \in 1 .. Len(t) : t[j] = IF j < i THEN s[j] ELSE s[j + 1]
  BY ONLY <1>4
<1> QED BY ONLY <1>3, <1>5, <1>6

(* The entries stay the ones they were. *)
SameEntries == \A x \in Item : Somewhere(x)' <=> Somewhere(x)

(* If each is still somewhere and nothing else is, the entries are the same. *)
LEMMA SameWhenSomewhere ==
  ASSUME TypeOK, TypeOK', SameEntries
  PROVE  Entries' = Entries
<1>1. (/\ \A x : x \in Entries <=> x \in Item /\ Somewhere(x)
       /\ None \notin Item)'
  BY EntriesAfter, PTL
<1>2. \A x : x \in Entries <=> x \in Item /\ Somewhere(x)
  BY EntriesAre
<1> QED BY <1>1, <1>2 DEF SameEntries

(* The entry in hand takes a free position of its own. *)
LEMMA PutKeeps ==
  ASSUME PlaceInv, NEW p \in Positions, Free(p), hand # None,
         p \in BothPos(hand.key), PutAt(p), pc # "idle",
         UNCHANGED <<size, used, growing, pending, cursor>>
  PROVE  PlaceInv' /\ SameEntries
<1>0. hand \in Item /\ None \notin Item /\ Positions' = Positions
  BY NoneIsNothing DEF PlaceInv, TypeOK, Positions
<1>1. /\ items' = [items EXCEPT ![p] = hand] /\ items \in [Positions -> Item \cup {None}]
      /\ items[p] = None /\ items'[p] = hand
      /\ \A q \in Positions : q # p => items'[q] = items[q]
      /\ DOMAIN items = Positions /\ hand' = None /\ stash' = stash
      /\ pending' = pending /\ size' = size
  BY DEF PlaceInv, TypeOK, PutAt, Settled, Free
<1>2. TypeOK'
  BY <1>0, <1>1 DEF PlaceInv, TypeOK, PutAt, Settled
<1>3. AtHome'
  BY <1>0, <1>1 DEF PlaceInv, AtHome, Free, BothPos, Pos1, Pos2
<1>4. Distinct'
  <2>1. DistinctTable'
    BY <1>0, <1>1 DEF PlaceInv, Distinct, DistinctTable, HandApart, Free
  <2>2. DistinctIn(stash)' /\ DistinctIn(pending)'
    BY <1>1 DEF PlaceInv, Distinct, DistinctIn
  <2>3. ApartFrom(stash)' /\ ApartFrom(pending)'
    BY <1>0, <1>1 DEF PlaceInv, Distinct, ApartFrom, HandApart, Free
  <2>4. HandApart'
    BY <1>1 DEF HandApart
  <2> QED BY <1>1, <2>1, <2>2, <2>3, <2>4 DEF PlaceInv, Distinct
<1>5. Phases'
  BY <1>1 DEF PlaceInv, Phases, PutAt, Settled
<1>6. SameEntries
  <2> SUFFICES ASSUME NEW x \in Item
               PROVE  Somewhere(x)' <=> Somewhere(x)
    BY DEF SameEntries
  <2>1. (\E q \in Positions : items'[q] = x) <=> (hand = x \/ \E q \in Positions : items[q] = x)
    BY <1>0, <1>1
  <2> QED BY <1>0, <1>1, <2>1 DEF Somewhere
<1> QED BY <1>2, <1>3, <1>4, <1>5, <1>6 DEF PlaceInv

(* The entry in hand pushes another one out. *)
LEMMA KickKeeps ==
  ASSUME PlaceInv, NEW p \in Positions, ~Free(p), hand # None,
         p \in BothPos(hand.key), KickFrom(p), pc = "move", loops # 0,
         UNCHANGED <<size, used, growing, pending, cursor>>
  PROVE  PlaceInv' /\ SameEntries
<1>0. hand \in Item /\ None \notin Item /\ Positions' = Positions
  BY NoneIsNothing DEF PlaceInv, TypeOK, Positions
<1>1. /\ items' = [items EXCEPT ![p] = hand] /\ items \in [Positions -> Item \cup {None}]
      /\ items[p] \in Item /\ items'[p] = hand
      /\ \A q \in Positions : q # p => items'[q] = items[q]
      /\ DOMAIN items = Positions /\ hand' = items[p] /\ stash' = stash
      /\ pending' = pending /\ size' = size
  BY DEF PlaceInv, TypeOK, KickFrom, Free
<1>2. items[p].key \in Keys /\ p \in BothPos(items[p].key)
  BY <1>1 DEF Item, PlaceInv, AtHome
<1>3. /\ hash' \in {Hash1[items[p].key], Hash2[items[p].key]}
      /\ pc' \in {"stash", "move"} /\ hash' \in Nat
  BY <1>2, HashesAreNumbers DEF KickFrom
<1>4. TypeOK'
  <2>1. loops' \in Nat
    BY DEF KickFrom, PlaceInv, TypeOK
  <2>2. items' \in [Positions -> Item \cup {None}]
    BY <1>0, <1>1
  <2> QED BY <1>0, <1>1, <1>3, <2>1, <2>2 DEF PlaceInv, TypeOK, KickFrom
<1>5. AtHome'
  BY <1>0, <1>1 DEF PlaceInv, AtHome, Free, BothPos, Pos1, Pos2
<1>6. Distinct'
  <2>1. DistinctTable'
    BY <1>0, <1>1 DEF PlaceInv, Distinct, DistinctTable, HandApart, Free
  <2>2. DistinctIn(stash)' /\ DistinctIn(pending)'
    BY <1>1 DEF PlaceInv, Distinct, DistinctIn
  <2>3. ApartFrom(stash)' /\ ApartFrom(pending)'
    BY <1>0, <1>1 DEF PlaceInv, Distinct, ApartFrom, HandApart, Free
  <2>4. HandApart'
    BY <1>0, <1>1 DEF PlaceInv, Distinct, DistinctTable, ApartFrom, HandApart, Free
  <2> QED BY <1>1, <2>1, <2>2, <2>3, <2>4 DEF PlaceInv, Distinct
<1>7. Phases'
  BY <1>1, <1>3 DEF PlaceInv, Phases
<1>8. SameEntries
  <2> SUFFICES ASSUME NEW x \in Item
               PROVE  Somewhere(x)' <=> Somewhere(x)
    BY DEF SameEntries
  <2>1. (items[p] = x \/ \E q \in Positions : items'[q] = x)
          <=> (hand = x \/ \E q \in Positions : items[q] = x)
    BY <1>0, <1>1
  <2> QED BY <1>0, <1>1, <2>1 DEF Somewhere
<1> QED BY <1>4, <1>5, <1>6, <1>7, <1>8 DEF PlaceInv

(* The first attempt to place an entry. *)
LEMMA PlaceKeeps ==
  ASSUME PlaceInv, Place
  PROVE  PlaceInv' /\ SameEntries
<1>1. /\ pc = "place" /\ hand # None /\ hand \in Item /\ hand.key \in Keys
      /\ UNCHANGED <<size, used, growing, pending, cursor>>
  BY DEF Place, PlaceInv, TypeOK, Item
<1>2. /\ Pos1(hand.key) \in Positions /\ Pos2(hand.key) \in Positions
      /\ Pos1(hand.key) \in BothPos(hand.key) /\ Pos2(hand.key) \in BothPos(hand.key)
  BY <1>1, PosType DEF PlaceInv, BothPos
<1>3. CASE Free(Pos1(hand.key)) /\ PutAt(Pos1(hand.key))
  BY <1>1, <1>2, <1>3, PutKeeps
<1>4. CASE Free(Pos2(hand.key)) /\ PutAt(Pos2(hand.key))
  BY <1>1, <1>2, <1>4, PutKeeps
<1>5. CASE /\ pc' = "move" /\ hash' = Hash1[hand.key] /\ first' = Hash1[hand.key]
           /\ loops' = size /\ UNCHANGED <<items, stash, hand>>
  <2>1. Hash1[hand.key] \in Nat
    BY <1>1, HashesAreNumbers
  <2>2. TypeOK'
    BY <1>1, <1>5, <2>1 DEF PlaceInv, TypeOK, Positions
  <2>3. AtHome'
    BY <1>1, <1>5 DEF PlaceInv, AtHome, Positions, Free, BothPos, Pos1, Pos2
  <2>4. Distinct'
    BY <1>1, <1>5 DEF PlaceInv, Distinct, DistinctTable, DistinctIn, ApartFrom, HandApart,
                      Positions, Free
  <2>5. Phases'
    BY <1>1, <1>5 DEF PlaceInv, Phases
  <2>6. SameEntries
    BY <1>1, <1>5 DEF SameEntries, Somewhere, Positions
  <2> QED BY <2>2, <2>3, <2>4, <2>5, <2>6 DEF PlaceInv
<1> QED BY <1>3, <1>4, <1>5 DEF Place

(* One entry is moved. *)
LEMMA MoveKeeps ==
  ASSUME PlaceInv, Move
  PROVE  PlaceInv' /\ SameEntries
<1>1. /\ pc = "move" /\ hand # None /\ hand \in Item /\ hand.key \in Keys
      /\ UNCHANGED <<size, used, growing, pending, cursor>> /\ loops # 0
  BY DEF Move, PlaceInv, TypeOK, Item
<1>2. hash % size \in BothPos(hand.key)
  BY <1>1 DEF PlaceInv, Phases, BothPos, Pos1, Pos2
<1>3. hash % size \in Positions
  BY <1>1, <1>2, PosType DEF PlaceInv
<1>4. CASE Free(hash % size) /\ PutAt(hash % size)
  BY <1>1, <1>2, <1>3, <1>4, PutKeeps
<1>5. CASE ~Free(hash % size) /\ KickFrom(hash % size)
  BY <1>1, <1>2, <1>3, <1>5, KickKeeps
<1> QED BY <1>4, <1>5 DEF Move

(* The entry in hand goes to the stash. *)
LEMMA StashKeeps ==
  ASSUME PlaceInv, ToStash
  PROVE  PlaceInv' /\ SameEntries
<1>1. /\ pc \in {"move", "stash"} /\ hand # None /\ hand \in Item
      /\ UNCHANGED <<size, used, items, growing, pending, cursor>>
      /\ hand' = None /\ stash' = Append(stash, hand) /\ stash \in Seq(Item)
      /\ None \notin Item /\ Positions' = Positions
  BY NoneIsNothing DEF ToStash, Lost, Settled, PlaceInv, TypeOK, Positions
<1>2. PICK n \in Nat : n = Len(stash)
  BY <1>1, LenProperties
<1>3. /\ DOMAIN stash = 1 .. n /\ DOMAIN stash' = 1 .. n + 1 /\ stash' \in Seq(Item)
      /\ stash'[n + 1] = hand /\ \A i \in 1 .. n : stash'[i] = stash[i]
  BY <1>1, <1>2, AppendProperties, LenProperties
<1>4. TypeOK'
  BY <1>1, <1>3 DEF ToStash, PlaceInv, TypeOK, Settled
<1>5. AtHome'
  BY <1>1 DEF PlaceInv, AtHome, Free, BothPos, Pos1, Pos2
<1>6. Distinct'
  <2>1. DistinctTable' /\ DistinctIn(pending)' /\ ApartFrom(pending)'
    BY <1>1 DEF PlaceInv, Distinct, DistinctTable, DistinctIn, ApartFrom, Free
  <2>2. DistinctIn(stash)'
    BY <1>1, <1>2, <1>3 DEF PlaceInv, Distinct, DistinctIn, HandApart
  <2>3. ApartFrom(stash)'
    BY <1>1, <1>2, <1>3 DEF PlaceInv, Distinct, ApartFrom, HandApart, Free
  <2>4. \A i \in DOMAIN stash', j \in DOMAIN pending' : stash'[i].key # pending'[j].key
    BY <1>1, <1>2, <1>3 DEF PlaceInv, Distinct, HandApart
  <2>5. HandApart'
    BY <1>1 DEF HandApart
  <2> QED BY <2>1, <2>2, <2>3, <2>4, <2>5 DEF Distinct
<1>7. Phases'
  BY <1>1 DEF ToStash, Settled, PlaceInv, Phases
<1>8. SameEntries
  <2> SUFFICES ASSUME NEW x \in Item
               PROVE  Somewhere(x)' <=> Somewhere(x)
    BY DEF SameEntries
  <2>1. (\E i \in DOMAIN stash' : stash'[i] = x) <=> (hand = x \/ \E i \in DOMAIN stash : stash[i] = x)
    BY <1>2, <1>3
  <2> QED BY <1>1, <2>1 DEF Somewhere
<1> QED BY <1>4, <1>5, <1>6, <1>7, <1>8 DEF PlaceInv

(* The program ends. *)
LEMMA FailKeeps ==
  ASSUME PlaceInv, Fail
  PROVE  PlaceInv' /\ SameEntries
<1>1. /\ pc # "idle" /\ pc' = "failed"
      /\ UNCHANGED <<items, size, used, stash, hand, hash, first, loops, growing, pending,
                     cursor>>
  BY DEF Fail, Lost, table
<1>2. TypeOK'
  BY <1>1 DEF PlaceInv, TypeOK, Positions
<1>3. AtHome'
  BY <1>1 DEF PlaceInv, AtHome, Positions, Free, BothPos, Pos1, Pos2
<1>4. Distinct'
  BY <1>1 DEF PlaceInv, Distinct, DistinctTable, DistinctIn, ApartFrom, HandApart,
              Positions, Free
<1>5. Phases'
  BY <1>1 DEF PlaceInv, Phases
<1>6. SameEntries
  BY <1>1 DEF SameEntries, Somewhere, Positions
<1> QED BY <1>2, <1>3, <1>4, <1>5, <1>6 DEF PlaceInv

(* An entry of the table has a place in the doubled table, from which its  *)
(* old one is found again.                                                 *)
LEMMA NewPlace ==
  ASSUME PlaceInv, NEW q \in Positions, ~Free(q)
  PROVE  /\ NewPos(q) \in 0 .. 2 * size - 1
         /\ NewPos(q) % size = q
         /\ NewPos(q) \in {Hash1[items[q].key] % (2 * size), Hash2[items[q].key] % (2 * size)}
<1>1. /\ size \in Nat \ {0} /\ items[q] \in Item /\ items[q].key \in Keys
      /\ q \in BothPos(items[q].key)
  BY DEF PlaceInv, TypeOK, AtHome, Free, Item
<1>2. PICK h \in Nat : /\ h \in {Hash1[items[q].key], Hash2[items[q].key]}
                       /\ NewPos(q) = h % (2 * size) /\ h % size = q
  <2>1. Hash1[items[q].key] \in Nat /\ Hash2[items[q].key] \in Nat
    BY <1>1, HashesAreNumbers
  <2> QED BY <1>1, <2>1 DEF NewPos, BothPos, Pos1, Pos2
<1>3. PICK n \in Nat \ {0} : n = size
  BY <1>1
<1>4. 2 * n \in Nat \ {0}
  OBVIOUS
<1>5. (h % (2 * n)) % n = h % n
  BY Halved
<1>6. h % (2 * n) \in 0 .. 2 * n - 1
  BY <1>4
<1> QED BY <1>2, <1>3, <1>5, <1>6

(* The table doubles, and its stash waits to be merged into it. *)
LEMMA DoublingKeeps ==
  ASSUME PlaceInv, pc = "added", size' = 2 * size, items' = Doubled,
         pending' = stash, stash' = <<>>, growing' = TRUE, pc' = "merge",
         used' \in Nat, UNCHANGED <<hand, hash, first, loops, cursor>>
  PROVE  PlaceInv' /\ SameEntries
<1>0. /\ size \in Nat \ {0} /\ items \in [Positions -> Item \cup {None}] /\ None \notin Item
      /\ hand = None /\ pending = <<>> /\ stash \in Seq(Item) /\ cursor = NoCursor
  BY NoneIsNothing DEF PlaceInv, TypeOK, Phases
<1>1. Positions' = 0 .. 2 * size - 1
  BY DEF Positions
<1>2. ASSUME NEW p \in Positions'
      PROVE  p % size \in Positions
  BY <1>0, <1>1, <1>2 DEF Positions
<1>3. \A p \in Positions' : items'[p] = IF ~Free(p % size) /\ NewPos(p % size) = p
                                        THEN items[p % size] ELSE None
  BY <1>1 DEF Doubled
<1>4. \A q \in Positions : ~Free(q) =>
        \E p \in Positions' : items'[p] = items[q]
  <2> SUFFICES ASSUME NEW q \in Positions, ~Free(q)
               PROVE  \E p \in Positions' : items'[p] = items[q]
    OBVIOUS
  <2>1. PICK p : p = NewPos(q)
    OBVIOUS
  <2>2. p \in Positions' /\ p % size = q
    BY <1>1, <2>1, NewPlace
  <2>3. items'[p] = items[q]
    BY <1>3, <2>1, <2>2
  <2> QED BY <2>2, <2>3
<1>5. \A p \in Positions' : ~Free(p)' =>
        /\ p % size \in Positions /\ ~Free(p % size) /\ NewPos(p % size) = p
        /\ items'[p] = items[p % size]
  BY <1>2, <1>3 DEF Free
<1>6. TypeOK'
  <2>1. items' \in [Positions' -> Item \cup {None}]
    <3>1. \A p \in Positions' : items'[p] \in Item \cup {None}
      BY <1>0, <1>2, <1>3
    <3> QED BY <1>1, <3>1 DEF Doubled
  <2>2. size' \in Nat \ {0}
    BY <1>0
  <2> QED BY <1>0, <2>1, <2>2 DEF PlaceInv, TypeOK
<1>7. AtHome'
  <2> SUFFICES ASSUME NEW p, (p \in Positions /\ ~Free(p))'
               PROVE  p \in {Hash1[items'[p].key] % size', Hash2[items'[p].key] % size'}
    BY DEF AtHome, BothPos, Pos1, Pos2
  <2>1. PICK q \in Positions : ~Free(q) /\ NewPos(q) = p /\ items'[p] = items[q]
    BY <1>5
  <2>2. p \in {Hash1[items[q].key] % (2 * size), Hash2[items[q].key] % (2 * size)}
    BY <2>1, NewPlace
  <2> QED BY <2>1, <2>2
<1>8. Distinct'
  <2>1. DistinctTable'
    <3> SUFFICES ASSUME NEW p \in Positions', NEW q \in Positions', ~Free(p)', ~Free(q)',
                        items'[p].key = items'[q].key
                 PROVE  p = q
      BY DEF DistinctTable
    <3>1. p % size = q % size
      BY <1>5 DEF PlaceInv, Distinct, DistinctTable
    <3> QED BY <1>5, <3>1
  <2>2. DistinctIn(stash)' /\ DistinctIn(pending)' /\ ApartFrom(stash)'
    BY DEF PlaceInv, Distinct, DistinctIn, ApartFrom
  <2>3. ApartFrom(pending)'
    <3> SUFFICES ASSUME NEW p \in Positions', NEW i \in DOMAIN stash, ~Free(p)'
                 PROVE  items'[p].key # stash[i].key
      BY DEF ApartFrom
    <3> QED BY <1>5 DEF PlaceInv, Distinct, ApartFrom
  <2>4. HandApart'
    BY <1>0 DEF HandApart
  <2>5. \A i \in DOMAIN stash', j \in DOMAIN pending' : stash'[i].key # pending'[j].key
    OBVIOUS
  <2> QED BY <2>1, <2>2, <2>3, <2>4, <2>5 DEF Distinct
<1>9. Phases'
  BY <1>0 DEF PlaceInv, Phases
<1>10. SameEntries
  <2> SUFFICES ASSUME NEW x \in Item
               PROVE  Somewhere(x)' <=> Somewhere(x)
    BY DEF SameEntries
  <2>1. (\E p \in Positions' : items'[p] = x) <=> (\E q \in Positions : items[q] = x)
    <3>1. ASSUME NEW p \in Positions', items'[p] = x
          PROVE  \E q \in Positions : items[q] = x
      BY <1>0, <1>5, <3>1 DEF Free
    <3>2. ASSUME NEW q \in Positions, items[q] = x
          PROVE  \E p \in Positions' : items'[p] = x
      BY <1>0, <1>4, <3>2 DEF Free
    <3> QED BY <3>1, <3>2
  <2> QED BY <1>0, <2>1 DEF Somewhere
<1> QED BY <1>6, <1>7, <1>8, <1>9, <1>10 DEF PlaceInv

(* The entry added is counted, and the table may double. *)
LEMMA AddedKeeps ==
  ASSUME PlaceInv, Added
  PROVE  PlaceInv' /\ SameEntries
<1>1. used' \in Nat /\ pc = "added"
  BY DEF Added, PlaceInv, TypeOK
<1>2. CASE /\ size' = 2 * size /\ items' = Doubled /\ pending' = stash /\ stash' = <<>>
           /\ growing' = TRUE /\ pc' = "merge"
  BY <1>1, <1>2, DoublingKeeps DEF Added
<1>3. CASE /\ pc' = "idle" /\ UNCHANGED <<items, size, stash, growing, pending>>
  <2>1. UNCHANGED <<hand, hash, first, loops, cursor>>
    BY DEF Added
  <2>2. TypeOK'
    BY <1>1, <1>3, <2>1 DEF PlaceInv, TypeOK, Positions
  <2>3. AtHome'
    BY <1>1, <1>3, <2>1 DEF PlaceInv, AtHome, Positions, Free, BothPos, Pos1, Pos2
  <2>4. Distinct'
    BY <1>1, <1>3, <2>1 DEF PlaceInv, Distinct, DistinctTable, DistinctIn, ApartFrom, HandApart,
                Positions, Free
  <2>5. Phases'
    BY <1>1, <1>3, <2>1 DEF PlaceInv, Phases
  <2>6. SameEntries
    BY <1>1, <1>3, <2>1 DEF SameEntries, Somewhere, Positions
  <2> QED BY <2>2, <2>3, <2>4, <2>5, <2>6 DEF PlaceInv
<1> QED BY <1>2, <1>3 DEF Added

(* One entry of the old stash is taken in hand, or none is left. *)
LEMMA MergeKeeps ==
  ASSUME PlaceInv, Merge
  PROVE  PlaceInv' /\ SameEntries
<1>0. /\ pc = "merge" /\ hand = None /\ pending \in Seq(Item) /\ None \notin Item
      /\ UNCHANGED <<items, size, used, stash, hash, first, loops, cursor>>
      /\ Positions' = Positions
  BY NoneIsNothing DEF Merge, PlaceInv, TypeOK, Phases, table, Positions
<1>1. CASE pending # <<>> /\ hand' = Head(pending) /\ pending' = Tail(pending) /\ pc' = "place"
           /\ UNCHANGED growing
  <2>1. PICK n \in Nat : n = Len(pending)
    BY <1>0, LenProperties
  <2>2. /\ DOMAIN pending = 1 .. n /\ n >= 1
        /\ \A i \in 1 .. n : pending[i] \in Item
    BY <1>0, <1>1, <2>1, EmptySeq, LenProperties, ElementOfSeq
  <2>3. /\ hand' = pending[1] /\ pending' \in Seq(Item) /\ DOMAIN pending' = 1 .. n - 1
        /\ \A i \in 1 .. n - 1 : pending'[i] = pending[i + 1]
    BY <1>0, <1>1, <2>1, HeadTailProperties, LenProperties
  <2>4. TypeOK'
    BY <1>0, <1>1, <2>2, <2>3 DEF PlaceInv, TypeOK
  <2>5. AtHome'
    BY <1>0 DEF PlaceInv, AtHome, Free, BothPos, Pos1, Pos2
  <2>6. Distinct'
    <3>1. DistinctTable' /\ DistinctIn(stash)' /\ ApartFrom(stash)'
      BY <1>0 DEF PlaceInv, Distinct, DistinctTable, DistinctIn, ApartFrom, Free
    <3>2. DistinctIn(pending)'
      BY <2>2, <2>3 DEF PlaceInv, Distinct, DistinctIn
    <3>3. ApartFrom(pending)'
      BY <1>0, <2>2, <2>3 DEF PlaceInv, Distinct, ApartFrom, Free
    <3>4. \A i \in DOMAIN stash', j \in DOMAIN pending' : stash'[i].key # pending'[j].key
      BY <1>0, <2>2, <2>3 DEF PlaceInv, Distinct
    <3>5. HandApart'
      <4>1. \A p \in Positions : ~Free(p) => items[p].key # pending[1].key
        BY <2>2 DEF PlaceInv, Distinct, ApartFrom
      <4>2. \A i \in DOMAIN stash : stash[i].key # pending[1].key
        BY <2>2 DEF PlaceInv, Distinct
      <4>3. \A i \in DOMAIN pending' : pending'[i].key # pending[1].key
        BY <2>2, <2>3 DEF PlaceInv, Distinct, DistinctIn
      <4> QED BY <1>0, <2>3, <4>1, <4>2, <4>3 DEF HandApart, Free
    <3> QED BY <3>1, <3>2, <3>3, <3>4, <3>5 DEF Distinct
  <2>7. Phases'
    BY <1>0, <1>1 DEF PlaceInv, Phases
  <2>8. SameEntries
    <3> SUFFICES ASSUME NEW x \in Item
                 PROVE  Somewhere(x)' <=> Somewhere(x)
      BY DEF SameEntries
    <3>1. (\E i \in DOMAIN pending : pending[i] = x)
            <=> (hand' = x \/ \E i \in DOMAIN pending' : pending'[i] = x)
      <4>1. ASSUME NEW i \in 1 .. n, pending[i] = x, i # 1
            PROVE  \E j \in DOMAIN pending' : pending'[j] = x
        <5>1. i - 1 \in 1 .. n - 1 /\ (i - 1) + 1 = i
          BY <2>1, <4>1
        <5> QED BY <2>3, <4>1, <5>1
      <4>2. \A j \in 1 .. n - 1 : j + 1 \in 1 .. n
        BY <2>1
      <4> QED BY <2>2, <2>3, <4>1, <4>2
    <3> QED BY <1>0, <3>1 DEF Somewhere
  <2> QED BY <2>4, <2>5, <2>6, <2>7, <2>8 DEF PlaceInv
<1>2. CASE /\ pending = <<>> /\ growing' = FALSE /\ pc' = "idle" /\ UNCHANGED <<hand, pending>>
  <2>1. TypeOK'
    BY <1>0, <1>2 DEF PlaceInv, TypeOK
  <2>2. AtHome'
    BY <1>0, <1>2 DEF PlaceInv, AtHome, Free, BothPos, Pos1, Pos2
  <2>3. Distinct'
    BY <1>0, <1>2 DEF PlaceInv, Distinct, DistinctTable, DistinctIn, ApartFrom, HandApart, Free
  <2>4. Phases'
    BY <1>0, <1>2 DEF PlaceInv, Phases
  <2>5. SameEntries
    BY <1>0, <1>2 DEF SameEntries, Somewhere
  <2> QED BY <2>1, <2>2, <2>3, <2>4, <2>5 DEF PlaceInv
<1> QED BY <1>1, <1>2 DEF Merge

(* Where a key is found, when it is. *)
LEMMA Located ==
  ASSUME PlaceInv, NEW k \in Keys
  PROVE  /\ InTable(k) => /\ TablePos(k) \in Positions /\ TablePos(k) \in BothPos(k)
                          /\ items[TablePos(k)] \in Item /\ items[TablePos(k)].key = k
         /\ StashPlaces(k) # {} => /\ StashPos(k) \in 1 .. Len(stash)
                                   /\ stash[StashPos(k)] \in Item
                                   /\ stash[StashPos(k)].key = k
<1>0. /\ items \in [Positions -> Item \cup {None}] /\ stash \in Seq(Item)
      /\ Len(stash) \in Nat /\ DOMAIN stash = 1 .. Len(stash)
      /\ \A i \in 1 .. Len(stash) : stash[i] \in Item
  BY LenProperties, ElementOfSeq DEF PlaceInv, TypeOK
<1>1. Pos1(k) \in Positions /\ Pos2(k) \in Positions /\ BothPos(k) = {Pos1(k), Pos2(k)}
  BY PosType DEF PlaceInv, BothPos
<1>2. InTable(k) => /\ TablePos(k) \in Positions /\ TablePos(k) \in BothPos(k)
                    /\ items[TablePos(k)] \in Item /\ items[TablePos(k)].key = k
  BY <1>0, <1>1 DEF InTable, TablePos, Matches, Free
<1>3. ASSUME StashPlaces(k) # {}
      PROVE  StashPos(k) \in StashPlaces(k)
  <2>1. StashPlaces(k) \subseteq 1 .. Len(stash)
    BY <1>0 DEF StashPlaces
  <2> QED BY <1>0, <1>3, <2>1, LeastOf DEF StashPos
<1>4. StashPlaces(k) # {} => /\ StashPos(k) \in 1 .. Len(stash)
                             /\ stash[StashPos(k)] \in Item
                             /\ stash[StashPos(k)].key = k
  BY <1>0, <1>3 DEF StashPlaces
<1> QED BY <1>2, <1>4

(* Between calls nothing is in hand and nothing waits to be merged. *)
LEMMA AtRest ==
  ASSUME PlaceInv, pc \in {"idle", "added"}
  PROVE  /\ hand = None /\ pending = <<>> /\ ~growing
         /\ \A x \in Item : Somewhere(x) <=>
              \/ \E p \in Positions : items[p] = x
              \/ \E i \in 1 .. Len(stash) : stash[i] = x
<1>1. hand = None /\ pending = <<>> /\ ~growing /\ None \notin Item /\ stash \in Seq(Item)
  BY NoneIsNothing DEF PlaceInv, Phases, TypeOK
<1>2. DOMAIN pending = {} /\ DOMAIN stash = 1 .. Len(stash)
  BY <1>1, LenProperties
<1> QED BY <1>1, <1>2 DEF Somewhere

(* A look-up finds the entry of a key whenever there is one: its two       *)
(* positions and the stash are all the places where it can be.             *)
LEMMA Finding ==
  ASSUME PlaceInv, pc = "idle", NEW k \in Keys
  PROVE  /\ InTable(k) => items[TablePos(k)] \in Entries
         /\ InStash(k) => stash[StashPos(k)] \in Entries
         /\ Present(k) <=> \E x \in Entries : x.key = k
         /\ Present(k) => \E x \in Entries : x.key = k /\ Fetch(k) = x.value
<1>1. /\ items \in [Positions -> Item \cup {None}] /\ None \notin Item
      /\ DOMAIN stash = 1 .. Len(stash) /\ stash \in Seq(Item)
  BY NoneIsNothing, LenProperties DEF PlaceInv, TypeOK
<1>2. \A x : x \in Entries <=> x \in Item /\ Somewhere(x)
  BY EntriesAre DEF PlaceInv
<1>3. InTable(k) => items[TablePos(k)] \in Entries /\ items[TablePos(k)].key = k
  BY <1>2, Located DEF Somewhere
<1>4. InStash(k) => stash[StashPos(k)] \in Entries /\ stash[StashPos(k)].key = k
  BY <1>1, <1>2, Located DEF Somewhere, InStash
<1>5. ASSUME NEW x \in Entries, x.key = k
      PROVE  Present(k)
  <2>1. x \in Item /\ Somewhere(x)
    BY <1>2, <1>5
  <2>2. CASE \E p \in Positions : items[p] = x
    <3>1. PICK p \in Positions : items[p] = x
      BY <2>2
    <3>2. ~Free(p) /\ p \in BothPos(k)
      BY <1>1, <1>5, <2>1, <3>1 DEF PlaceInv, AtHome, Free
    <3> QED BY <1>5, <3>1, <3>2 DEF Present, InTable, Matches, BothPos
  <2>3. CASE \E i \in 1 .. Len(stash) : stash[i] = x
    BY <1>1, <1>5, <2>3 DEF Present, InStash, StashPlaces
  <2> QED BY <2>1, <2>2, <2>3, AtRest
<1>6. Present(k) => \E x \in Entries : x.key = k /\ Fetch(k) = x.value
  BY <1>3, <1>4 DEF Present, Fetch, InStash
<1> QED BY <1>3, <1>4, <1>5, <1>6

(* The entry of k is now in S, if S holds one, and nowhere else; the entries *)
(* of the other keys stay.                                                  *)
Becomes(k, S) == \A x \in Item : Somewhere(x)' <=> (x.key # k /\ Somewhere(x)) \/ x \in S

(* A new entry is in hand. *)
LEMMA InsertKeeps ==
  ASSUME PlaceInv, pc = "idle", NEW k \in Keys, NEW v \in Values, ~Present(k), Insert(k, v)
  PROVE  PlaceInv' /\ Becomes(k, {[key |-> k, value |-> v]})
<1>0. /\ hand = None /\ pending = <<>> /\ ~growing
      /\ UNCHANGED <<items, size, used, stash, hash, first, loops, growing, pending>>
      /\ hand' = [key |-> k, value |-> v] /\ pc' = "place" /\ cursor' = NoCursor
      /\ Positions' = Positions /\ hand' \in Item /\ None \notin Item
  BY AtRest, NoneIsNothing DEF Insert, table, Positions, Item
<1>1. \A x \in Entries : x.key # k
  BY Finding
<1>2. \A x \in Item : Somewhere(x) => x.key # k
  BY <1>1, EntriesAre DEF PlaceInv
<1>3. TypeOK'
  BY <1>0 DEF PlaceInv, TypeOK
<1>4. AtHome'
  BY <1>0 DEF PlaceInv, AtHome, Free, BothPos, Pos1, Pos2
<1>5. Distinct'
  <2>1. HandApart'
    <3>1. \A p \in Positions : ~Free(p) => items[p].key # k
      BY <1>2 DEF PlaceInv, TypeOK, Somewhere, Free
    <3>2. \A i \in DOMAIN stash : stash[i].key # k
      <4>1. \A i \in DOMAIN stash : stash[i] \in Item
        BY LenProperties, ElementOfSeq DEF PlaceInv, TypeOK
      <4> QED BY <1>2, <4>1 DEF Somewhere
    <3> QED BY <1>0, <3>1, <3>2 DEF HandApart, Free
  <2> QED BY <1>0, <2>1 DEF PlaceInv, Distinct, DistinctTable, DistinctIn, ApartFrom, Free
<1>6. Phases'
  BY <1>0 DEF PlaceInv, Phases
<1>7. \A x \in Item : Somewhere(x)' <=> Somewhere(x) \/ x = [key |-> k, value |-> v]
  BY <1>0 DEF Somewhere
<1>8. Becomes(k, {[key |-> k, value |-> v]})
  BY <1>2, <1>7 DEF Becomes
<1> QED BY <1>3, <1>4, <1>5, <1>6, <1>8 DEF PlaceInv

(* The value of an entry is replaced where it is. *)
LEMMA SetKeeps ==
  ASSUME PlaceInv, pc = "idle", NEW k \in Keys, NEW v \in Values, SetValue(k, v),
         UNCHANGED <<size, used, strings, call, cursor>>
  PROVE  /\ PlaceInv' /\ Becomes(k, {[key |-> k, value |-> v]}) /\ Present(k)
         /\ stash \in Seq(Item) /\ Len(stash') = Len(stash)
         /\ \A p \in Positions : Free(p)' <=> Free(p)
         /\ \A p \in Positions : ~Free(p) => items'[p].key = items[p].key
         /\ \A i \in 1 .. Len(stash) : stash'[i].key = stash[i].key
<1> DEFINE new == [key |-> k, value |-> v]
<1>0. /\ hand = None /\ pending = <<>> /\ ~growing /\ None \notin Item /\ new \in Item
      /\ UNCHANGED <<size, used, pc, hand, hash, first, loops, growing, pending, cursor>>
      /\ Positions' = Positions /\ items \in [Positions -> Item \cup {None}]
      /\ stash \in Seq(Item) /\ DOMAIN stash = 1 .. Len(stash) /\ Len(stash) \in Nat
      /\ \A i \in 1 .. Len(stash) : stash[i] \in Item
  BY AtRest, NoneIsNothing, LenProperties, ElementOfSeq DEF PlaceInv, TypeOK, call, Positions, Item
<1>1. \A x \in Item : x.key = k => [x EXCEPT !.value = v] = new
  BY DEF Item
<1> HIDE DEF new
<1>2. new.key = k
  BY DEF new
<1>3. CASE InTable(k) /\ items' = [items EXCEPT ![TablePos(k)].value = v] /\ stash' = stash
  <2>1. PICK p \in Positions : p = TablePos(k) /\ items[p] \in Item /\ items[p].key = k
    BY <1>3, Located
  <2>2. /\ items' = [items EXCEPT ![p] = new] /\ items'[p] = new
        /\ \A q \in Positions : q # p => items'[q] = items[q]
    <3>1. items' = [items EXCEPT ![p] = [items[p] EXCEPT !.value = v]]
      BY <1>3, <2>1
    <3> QED BY <1>0, <1>1, <2>1, <3>1
  <2>3. /\ \A q \in Positions : Free(q)' <=> Free(q)
        /\ \A q \in Positions : ~Free(q) => items'[q].key = items[q].key
    BY <1>0, <1>2, <2>1, <2>2 DEF Free
  <2>4. items' \in [Positions -> Item \cup {None}]
    BY <1>0, <2>2
  <2>5. TypeOK'
    BY <1>0, <1>3, <2>4 DEF PlaceInv, TypeOK
  <2>6. AtHome'
    BY <1>0, <2>3 DEF PlaceInv, AtHome, BothPos, Pos1, Pos2
  <2>7. Distinct'
    <3>1. DistinctTable'
      BY <1>0, <2>3 DEF PlaceInv, Distinct, DistinctTable
    <3>2. ApartFrom(stash)' /\ ApartFrom(pending)'
      BY <1>0, <1>3, <2>3 DEF PlaceInv, Distinct, ApartFrom
    <3> QED BY <1>0, <1>3, <3>1, <3>2 DEF PlaceInv, Distinct, DistinctIn, HandApart
  <2>8. Phases'
    BY <1>0 DEF PlaceInv, Phases
  <2>9. ASSUME NEW x \in Item
        PROVE  Somewhere(x)' <=> (x.key # k /\ Somewhere(x)) \/ x = new
    <3>1. \A q \in Positions : q # p => items[q] = None \/ items[q].key # k
      BY <2>1, <1>0 DEF PlaceInv, Distinct, DistinctTable, Free
    <3>2. \A i \in 1 .. Len(stash) : stash[i].key # k
      BY <2>1, <1>0 DEF PlaceInv, Distinct, ApartFrom, Free
    <3>3. Somewhere(x)' <=> \/ \E q \in Positions : items'[q] = x
                            \/ \E i \in 1 .. Len(stash) : stash[i] = x
      BY <1>0, <1>3 DEF Somewhere
    <3>4. Somewhere(x) <=> \/ \E q \in Positions : items[q] = x
                           \/ \E i \in 1 .. Len(stash) : stash[i] = x
      BY AtRest
    <3>5. (\E q \in Positions : items'[q] = x)
            <=> x = new \/ (x.key # k /\ \E q \in Positions : items[q] = x)
      BY <1>0, <2>1, <2>2, <3>1
    <3> QED BY <3>2, <3>3, <3>4, <3>5
  <2>10. Becomes(k, {new})
    BY <2>9 DEF Becomes
  <2> QED BY <1>0, <1>3, <2>3, <2>5, <2>6, <2>7, <2>8, <2>10 DEF PlaceInv, new, Present
<1>4. CASE InStash(k) /\ stash' = [stash EXCEPT ![StashPos(k)].value = v] /\ items' = items
  <2>1. PICK j \in 1 .. Len(stash) : j = StashPos(k) /\ stash[j] \in Item /\ stash[j].key = k
    BY <1>4, Located DEF InStash
  <2>2. /\ stash' = [stash EXCEPT ![j] = new] /\ stash'[j] = new
        /\ \A i \in 1 .. Len(stash) : i # j => stash'[i] = stash[i]
    <3>1. stash' = [stash EXCEPT ![j] = [stash[j] EXCEPT !.value = v]]
      BY <1>4, <2>1
    <3> QED BY <1>0, <1>1, <2>1, <3>1
  <2>3. stash' \in Seq(Item) /\ Len(stash') = Len(stash) /\ DOMAIN stash' = 1 .. Len(stash)
    BY <1>0, <2>2, ExceptSeq
  <2>4. \A i \in 1 .. Len(stash) : stash'[i].key = stash[i].key
    BY <1>2, <2>1, <2>2
  <2>5. TypeOK'
    BY <1>0, <1>4, <2>3 DEF PlaceInv, TypeOK
  <2>6. AtHome'
    BY <1>0, <1>4 DEF PlaceInv, AtHome, BothPos, Pos1, Pos2, Free
  <2>7. Distinct'
    <3>1. DistinctIn(stash)'
      BY <1>0, <2>3, <2>4 DEF PlaceInv, Distinct, DistinctIn
    <3>2. ApartFrom(stash)'
      BY <1>0, <1>4, <2>3, <2>4 DEF PlaceInv, Distinct, ApartFrom, Free
    <3>3. DistinctTable' /\ ApartFrom(pending)'
      BY <1>0, <1>4 DEF PlaceInv, Distinct, DistinctTable, ApartFrom, Free
    <3> QED BY <1>0, <3>1, <3>2, <3>3 DEF PlaceInv, Distinct, DistinctIn, HandApart
  <2>8. Phases'
    BY <1>0 DEF PlaceInv, Phases
  <2>9. ASSUME NEW x \in Item
        PROVE  Somewhere(x)' <=> (x.key # k /\ Somewhere(x)) \/ x = new
    <3>1. \A i \in 1 .. Len(stash) : i # j => stash[i].key # k
      BY <2>1, <1>0 DEF PlaceInv, Distinct, DistinctIn
    <3>2. \A q \in Positions : items[q] \in Item => items[q].key # k
      BY <2>1, <1>0 DEF PlaceInv, Distinct, ApartFrom, Free
    <3>3. Somewhere(x)' <=> \/ \E q \in Positions : items[q] = x
                            \/ \E i \in 1 .. Len(stash) : stash'[i] = x
      BY <1>0, <1>4, <2>3 DEF Somewhere
    <3>4. Somewhere(x) <=> \/ \E q \in Positions : items[q] = x
                           \/ \E i \in 1 .. Len(stash) : stash[i] = x
      BY AtRest
    <3>5. (\E i \in 1 .. Len(stash) : stash'[i] = x)
            <=> x = new \/ (x.key # k /\ \E i \in 1 .. Len(stash) : stash[i] = x)
      BY <1>0, <1>2, <2>1, <2>2, <3>1
    <3> QED BY <3>2, <3>3, <3>4, <3>5
  <2>10. Becomes(k, {new})
    BY <2>9 DEF Becomes
  <2> QED BY <1>0, <1>4, <2>3, <2>4, <2>5, <2>6, <2>7, <2>8, <2>10 DEF PlaceInv, new, Present, Free
<1> QED BY <1>3, <1>4 DEF SetValue

(* The stash is a sequence of entries. *)
LEMMA StashType ==
  ASSUME PlaceInv
  PROVE  /\ stash \in Seq(Item) /\ DOMAIN stash = 1 .. Len(stash) /\ Len(stash) \in Nat
         /\ \A i \in 1 .. Len(stash) : stash[i] \in Item
BY LenProperties, ElementOfSeq DEF PlaceInv, TypeOK

(* The m - 1 elements of t are those of s but the one at d, each in its *)
(* place or one place further down.                                     *)
OthersOf(t, s, d, m) ==
  /\ \A j \in 1 .. m - 1 : \E i \in 1 .. m : /\ t[j] = s[i] /\ i # d
                                            /\ (i = j \/ i = j + 1)
  /\ \A i \in 1 .. m : i # d => \E j \in 1 .. m - 1 : t[j] = s[i]

(* They are what a removal leaves. *)
LEMMA RemovedElements ==
  ASSUME NEW s \in Seq(Item), NEW d \in 1 .. Len(s), NEW t, t = RemoveAt(s, d)
  PROVE  OthersOf(t, s, d, Len(s))
<1>1. PICK m \in Nat : m = Len(s)
  BY LenProperties
<1>2. /\ Len(t) = m - 1 /\ d \in 1 .. m
      /\ \A j \in 1 .. m - 1 : t[j] = IF j < d THEN s[j] ELSE s[j + 1]
  BY <1>1, Removed
<1>3. ASSUME NEW j \in 1 .. m - 1
      PROVE  \E i \in 1 .. m : t[j] = s[i] /\ i # d /\ (i = j \/ i = j + 1)
  <2>1. j \in 1 .. m /\ j + 1 \in 1 .. m
    BY <1>1
  <2>2. CASE j < d
    <3>1. t[j] = s[j] /\ j # d
      BY <1>2, <2>2
    <3> QED BY <2>1, <3>1
  <2>3. CASE ~(j < d)
    <3>1. t[j] = s[j + 1] /\ j + 1 # d
      BY <1>2, <2>3
    <3> QED BY <2>1, <3>1
  <2> QED BY <2>2, <2>3
<1>4. ASSUME NEW i \in 1 .. m, i # d
      PROVE  \E j \in 1 .. m - 1 : t[j] = s[i]
  <2>1. CASE i < d
    <3>1. i \in 1 .. m - 1 /\ t[i] = s[i]
      BY <1>1, <1>2, <2>1
    <3> QED BY <3>1
  <2>2. CASE i > d
    <3>1. i - 1 \in 1 .. m - 1 /\ ~(i - 1 < d) /\ (i - 1) + 1 = i
      BY <1>1, <1>2, <2>2
    <3> QED BY <1>2, <3>1
  <2> QED BY <1>1, <1>2, <1>4, <2>1, <2>2
<1> QED BY <1>1, <1>3, <1>4 DEF OthersOf

(* No key comes twice in the first m elements of s. *)
OnceIn(s, m) == \A i, j \in 1 .. m : s[i].key = s[j].key => i = j

(* Nor does it after a removal. *)
LEMMA StillOnce ==
  ASSUME NEW s \in Seq(Item), NEW d \in 1 .. Len(s), NEW t, t = RemoveAt(s, d),
         OnceIn(s, Len(s))
  PROVE  OnceIn(t, Len(s) - 1)
<1>1. PICK m \in Nat : m = Len(s)
  BY LenProperties
<1>2. /\ Len(t) = m - 1 /\ d \in 1 .. m
      /\ \A j \in 1 .. m - 1 : t[j] = IF j < d THEN s[j] ELSE s[j + 1]
  BY <1>1, Removed
<1> SUFFICES ASSUME NEW i \in 1 .. m - 1, NEW j \in 1 .. m - 1, t[i].key = t[j].key
             PROVE  i = j
  BY <1>1 DEF OnceIn
<1>3. /\ (IF i < d THEN i ELSE i + 1) \in 1 .. m
      /\ t[i] = s[IF i < d THEN i ELSE i + 1]
  BY <1>1, <1>2
<1>4. /\ (IF j < d THEN j ELSE j + 1) \in 1 .. m
      /\ t[j] = s[IF j < d THEN j ELSE j + 1]
  BY <1>1, <1>2
<1>5. (IF i < d THEN i ELSE i + 1) = (IF j < d THEN j ELSE j + 1)
  BY <1>1, <1>3, <1>4 DEF OnceIn
<1> QED BY <1>1, <1>2, <1>5

(* The facts of a state between two calls that a removal uses. *)
LEMMA Rest ==
  ASSUME PlaceInv, pc = "idle"
  PROVE  /\ hand = None /\ pending = <<>> /\ ~growing /\ None \notin Item
         /\ items \in [Positions -> Item \cup {None}] /\ stash \in Seq(Item)
         /\ DOMAIN stash = 1 .. Len(stash) /\ Len(stash) \in Nat
         /\ \A i \in 1 .. Len(stash) : stash[i] \in Item
         /\ size \in Nat \ {0}
         /\ \A q, r \in Positions : items[q] \in Item /\ items[r] \in Item
                                      /\ items[q].key = items[r].key => q = r
         /\ \A i, j \in 1 .. Len(stash) : stash[i].key = stash[j].key => i = j
         /\ \A q \in Positions, i \in 1 .. Len(stash) :
              items[q] \in Item => items[q].key # stash[i].key
         /\ \A q \in Positions : items[q] \in Item => q \in BothPos(items[q].key)
<1>0. /\ hand = None /\ pending = <<>> /\ ~growing /\ None \notin Item
      /\ items \in [Positions -> Item \cup {None}] /\ stash \in Seq(Item)
      /\ DOMAIN stash = 1 .. Len(stash) /\ Len(stash) \in Nat
      /\ \A i \in 1 .. Len(stash) : stash[i] \in Item
      /\ size \in Nat \ {0}
  BY AtRest, NoneIsNothing, LenProperties, ElementOfSeq DEF PlaceInv, TypeOK
<1>1. /\ \A q, r \in Positions : items[q] \in Item /\ items[r] \in Item
                                      /\ items[q].key = items[r].key => q = r
      /\ \A i, j \in 1 .. Len(stash) : stash[i].key = stash[j].key => i = j
      /\ \A q \in Positions, i \in 1 .. Len(stash) :
           items[q] \in Item => items[q].key # stash[i].key
  BY <1>0 DEF PlaceInv, Distinct, DistinctTable, DistinctIn, ApartFrom, Free
<1>2. \A q \in Positions : items[q] \in Item => q \in BothPos(items[q].key)
  BY <1>0 DEF PlaceInv, AtHome, Free
<1> QED BY <1>0, <1>1, <1>2

(* Conversely, they make up the invariant of a state between two calls. *)
LEMMA RestAfter ==
  ASSUME hand' = None, pending' = <<>>, ~growing', None \notin Item,
         items' \in [Positions' -> Item \cup {None}], stash' \in Seq(Item),
         size' \in Nat \ {0}, used' \in Nat,
         hash' \in Nat, first' \in Nat, loops' \in Nat, growing' \in BOOLEAN, pc' = "idle",
         \A q, r \in Positions' : items'[q] \in Item /\ items'[r] \in Item
                                      /\ items'[q].key = items'[r].key => q = r,
         \A i, j \in 1 .. Len(stash') : stash'[i].key = stash'[j].key => i = j,
         \A q \in Positions', i \in 1 .. Len(stash') :
              items'[q] \in Item => items'[q].key # stash'[i].key,
         \A q \in Positions' : items'[q] \in Item =>
           q \in {Hash1[items'[q].key] % size', Hash2[items'[q].key] % size'}
  PROVE  PlaceInv'
<1>1. TypeOK'
  <2>1. pending' \in Seq(Item)
    BY EmptySeq
  <2> QED BY <2>1 DEF TypeOK
<1>2. \A p \in Positions' : items'[p] # None <=> items'[p] \in Item
  OBVIOUS
<1>3. AtHome'
  BY <1>2 DEF AtHome, Free, BothPos, Pos1, Pos2
<1>4. DOMAIN stash' = 1 .. Len(stash') /\ DOMAIN pending' = {}
  BY LenProperties
<1>5. Distinct'
  <2>1. DistinctTable'
    BY <1>2 DEF DistinctTable, Free
  <2>2. DistinctIn(stash)' /\ DistinctIn(pending)'
    BY <1>4 DEF DistinctIn
  <2>3. ApartFrom(stash)' /\ ApartFrom(pending)'
    BY <1>2, <1>4 DEF ApartFrom, Free
  <2>4. HandApart'
    BY DEF HandApart
  <2> QED BY <1>4, <2>1, <2>2, <2>3, <2>4 DEF Distinct
<1>6. Phases'
  BY DEF Phases
<1> QED BY <1>1, <1>3, <1>5, <1>6 DEF PlaceInv

(* Where the enumeration still has to pass. *)
Ahead(n) == {i \in n .. size + Len(stash) - 1 : i >= size \/ ~Free(i)}

(* Nothing comes up that the enumeration had passed. *)
NothingReturns ==
  \A n \in Nat : \A i \in Ahead(n)' : \E j \in Ahead(n) : Entry(j).key = Entry(i)'.key

(* What is ahead, spelled out. *)
LEMMA AheadAre ==
  ASSUME PlaceInv, pc = "idle", NEW n \in Nat
  PROVE  \A i : i \in Ahead(n) <=>
           \/ i \in Positions /\ i >= n /\ items[i] \in Item
           \/ i \in Nat /\ i >= n /\ i - size + 1 \in 1 .. Len(stash)
<1> SUFFICES ASSUME NEW i
             PROVE  i \in Ahead(n) <=>
                      \/ i \in Positions /\ i >= n /\ items[i] \in Item
                      \/ i \in Nat /\ i >= n /\ i - size + 1 \in 1 .. Len(stash)
  OBVIOUS
<1>1. PICK m \in Nat : m = Len(stash)
  BY Rest
<1>2. i \in Ahead(n) <=> i \in n .. size + m - 1 /\ (i >= size \/ items[i] # None)
  BY <1>1 DEF Ahead, Free
<1>3. size \in Nat \ {0} /\ Positions = 0 .. size - 1
  BY Rest DEF Positions
<1>4. i \in Positions => (items[i] # None <=> items[i] \in Item)
  BY Rest
<1> QED BY <1>1, <1>2, <1>3, <1>4

(* The same after a step. *)
AheadMeans ==
  \A n \in Nat : \A i : i \in Ahead(n) <=>
    \/ i \in Positions /\ i >= n /\ items[i] \in Item
    \/ i \in Nat /\ i >= n /\ i - size + 1 \in 1 .. Len(stash)

(* It holds between two calls. *)
LEMMA AheadAfter == PlaceInv /\ pc = "idle" => AheadMeans
BY AheadAre DEF AheadMeans

(* The call returns at once. *)
LEMMA Quiet ==
  ASSUME PlaceInv, pc = "idle", UNCHANGED <<size, call>>
  PROVE  /\ hand' = None /\ pending' = <<>> /\ ~growing' /\ growing' \in BOOLEAN /\ pc' = "idle"
         /\ hash' \in Nat /\ first' \in Nat /\ loops' \in Nat
         /\ Positions' = Positions /\ size' = size /\ size' \in Nat \ {0}
BY Rest DEF PlaceInv, TypeOK, call, Positions

(* An entry leaves the stash. *)
LEMMA RemoveStashKeeps ==
  ASSUME PlaceInv, pc = "idle", NEW k \in Keys, RemoveFromStash(k), used' \in Nat,
         UNCHANGED <<size, call>>
  PROVE  PlaceInv' /\ Becomes(k, {}) /\ NothingReturns
<1>1. PICK d \in 1 .. Len(stash) : d = StashPos(k) /\ stash[d].key = k
  BY Located DEF RemoveFromStash, InStash
<1>2. stash' = RemoveAt(stash, d) /\ items' = items
  BY <1>1 DEF RemoveFromStash
<1>3. PICK m \in Nat : m = Len(stash)
  BY StashType
<1>4. /\ stash' \in Seq(Item) /\ Len(stash') = m - 1
      /\ \A j \in 1 .. m - 1 : stash'[j] = IF j < d THEN stash[j] ELSE stash[j + 1]
  BY <1>2, <1>3, Removed, StashType
<1>5. OthersOf(stash', stash, d, m)
  BY <1>2, <1>3, RemovedElements, StashType
<1>6. /\ \A j \in 1 .. m - 1 : \E i \in 1 .. m : /\ stash'[j] = stash[i] /\ i # d
                                                 /\ (i = j \/ i = j + 1)
      /\ \A i \in 1 .. m : i # d => \E j \in 1 .. m - 1 : stash'[j] = stash[i]
  BY <1>5 DEF OthersOf
<1>7. PlaceInv'
  <2>1. \A i, j \in 1 .. Len(stash') : stash'[i].key = stash'[j].key => i = j
    <3>1. OnceIn(stash', m - 1)
      <4>1. OnceIn(stash, m)
        BY <1>3, Rest DEF OnceIn
      <4> QED BY <1>2, <1>3, <4>1, StillOnce, StashType
    <3> QED BY <1>4, <3>1 DEF OnceIn
  <2>2. \A q \in Positions', i \in 1 .. Len(stash') :
          items'[q] \in Item => items'[q].key # stash'[i].key
    <3>1. \A q \in Positions, i \in 1 .. m :
            items[q] \in Item => items[q].key # stash[i].key
      BY <1>3, Rest
    <3>2. \A q \in Positions, i \in 1 .. m - 1 :
            items[q] \in Item => items[q].key # stash'[i].key
      <4> SUFFICES ASSUME NEW q \in Positions, NEW j \in 1 .. m - 1, items[q] \in Item
                   PROVE  items[q].key # stash'[j].key
        OBVIOUS
      <4>1. PICK i \in 1 .. m : stash'[j] = stash[i]
        BY <1>6
      <4> QED BY ONLY <3>1, <4>1, items[q] \in Item
    <3>3. Positions' = Positions
      BY Quiet
    <3>4. 1 .. Len(stash') = 1 .. m - 1
      BY <1>4
    <3> QED BY ONLY <1>2, <3>2, <3>3, <3>4
  <2>3. \A q \in Positions' : items'[q] \in Item =>
           q \in {Hash1[items'[q].key] % size', Hash2[items'[q].key] % size'}
    BY <1>2, Quiet, Rest DEF BothPos, Pos1, Pos2
  <2>4. /\ items' \in [Positions' -> Item \cup {None}] /\ None \notin Item
        /\ \A q, r \in Positions' : items'[q] \in Item /\ items'[r] \in Item
                                      /\ items'[q].key = items'[r].key => q = r
    BY <1>2, Quiet, Rest
  <2> QED BY <1>4, <2>1, <2>2, <2>3, <2>4, Quiet, RestAfter
<1>8. Becomes(k, {})
  <2> SUFFICES ASSUME NEW x \in Item
               PROVE  Somewhere(x)' <=> x.key # k /\ Somewhere(x)
    BY DEF Becomes
  <2>1. Somewhere(x)' <=> \/ \E p \in Positions : items[p] = x
                          \/ \E i \in 1 .. m - 1 : stash'[i] = x
    <3>1. DOMAIN stash' = 1 .. m - 1 /\ DOMAIN pending' = {}
      BY <1>4, LenProperties, Quiet
    <3> QED BY <1>2, <3>1, Quiet, Rest DEF Somewhere
  <2>2. \A q \in Positions : items[q] \in Item => items[q].key # k
    BY <1>1, Rest
  <2>3. \A i \in 1 .. m : i # d => stash[i].key # k
    BY <1>1, <1>3, Rest
  <2>4. Somewhere(x) <=> \/ \E p \in Positions : items[p] = x
                         \/ \E i \in 1 .. m : stash[i] = x
    BY <1>3, AtRest
  <2>5. (\E i \in 1 .. m - 1 : stash'[i] = x) <=> x.key # k /\ \E i \in 1 .. m : stash[i] = x
    <3>1. ASSUME NEW i \in 1 .. m - 1, stash'[i] = x
          PROVE  x.key # k /\ \E j \in 1 .. m : stash[j] = x
      BY <1>6, <2>3, <3>1
    <3>2. ASSUME NEW i \in 1 .. m, stash[i] = x, x.key # k
          PROVE  \E j \in 1 .. m - 1 : stash'[j] = x
      BY <1>1, <1>6, <3>2
    <3> QED BY <3>1, <3>2
  <2> QED BY <2>1, <2>2, <2>4, <2>5
<1>9. NothingReturns
  <2> SUFFICES ASSUME NEW n \in Nat, NEW i, (i \in Ahead(n))'
               PROVE  \E j \in Ahead(n) : Entry(j).key = Entry(i)'.key
    BY DEF NothingReturns
  <2>1. \/ i \in Positions /\ i >= n /\ items[i] \in Item
        \/ i \in Nat /\ i >= n /\ i - size + 1 \in 1 .. m - 1
    <3>1. (PlaceInv /\ pc = "idle" => AheadMeans)'
      BY AheadAfter, PTL
    <3>2. AheadMeans'
      BY <1>7, <3>1, Quiet
    <3> QED BY <1>2, <1>4, <3>2, Quiet DEF AheadMeans
  <2>2. size \in Nat \ {0} /\ Positions = 0 .. size - 1
    BY Rest DEF Positions
  <2>3. CASE i \in Positions /\ i >= n /\ items[i] \in Item
    <3>1. i \in Ahead(n)
      BY <2>3, AheadAre
    <3>2. Entry(i)' = Entry(i)
      BY <1>2, <2>2, <2>3, Quiet DEF Entry
    <3> QED BY <3>1, <3>2
  <2>4. CASE i \in Nat /\ i >= n /\ i - size + 1 \in 1 .. m - 1
    <3>1. PICK j \in 1 .. m - 1 : j = i - size + 1
      BY <2>4
    <3>2. Entry(i)' = stash'[j]
      BY <2>2, <2>4, <3>1, Quiet DEF Entry
    <3>3. PICK l \in 1 .. m : stash'[j] = stash[l] /\ (l = j \/ l = j + 1)
      BY <1>6
    <3>4. PICK h \in Nat : h = size + l - 1 /\ h >= n /\ h - size + 1 = l /\ ~(h < size)
      <4>1. PICK z \in Nat : z = size
        BY <2>2
      <4>2. i = z + j - 1
        BY <2>4, <3>1, <4>1
      <4>3. /\ z + l - 1 \in Nat /\ z + l - 1 >= n /\ (z + l - 1) - z + 1 = l
            /\ ~(z + l - 1 < z)
        BY <2>4, <3>3, <4>2
      <4> QED BY <4>1, <4>3
    <3>5. h \in Ahead(n)
      BY <1>3, <3>3, <3>4, AheadAre
    <3>6. Entry(h) = stash[l]
      BY <3>4 DEF Entry
    <3> QED BY <3>2, <3>3, <3>5, <3>6
  <2> QED BY <2>1, <2>3, <2>4
<1> QED BY <1>7, <1>8, <1>9

(* An entry leaves the table, and no other can take its position. *)
LEMMA RemoveTableKeeps ==
  ASSUME PlaceInv, pc = "idle", NEW k \in Keys, NEW p \in Positions,
         items[p] \in Item, items[p].key = k,
         items' = [items EXCEPT ![p] = None], stash' = stash, used' \in Nat,
         UNCHANGED <<size, call>>
  PROVE  PlaceInv' /\ Becomes(k, {}) /\ NothingReturns
<1>1. /\ \A q \in Positions : q # p => items'[q] = items[q]
      /\ items'[p] = None /\ items' \in [Positions -> Item \cup {None}]
  BY Rest
<1>2. \A q \in Positions : items'[q] \in Item => items'[q] = items[q] /\ q # p
  BY <1>1, Rest
<1>3. Positions' = Positions /\ size' = size
  BY Quiet
<1>4. PlaceInv'
  <2>1. \A i, j \in 1 .. Len(stash') : stash'[i].key = stash'[j].key => i = j
    BY Rest
  <2>2. \A q \in Positions', i \in 1 .. Len(stash') :
          items'[q] \in Item => items'[q].key # stash'[i].key
    BY <1>2, <1>3, Rest
  <2>3. \A q \in Positions' : items'[q] \in Item =>
           q \in {Hash1[items'[q].key] % size', Hash2[items'[q].key] % size'}
    BY <1>2, <1>3, Rest DEF BothPos, Pos1, Pos2
  <2>4. \A q, r \in Positions' : items'[q] \in Item /\ items'[r] \in Item
                                   /\ items'[q].key = items'[r].key => q = r
    BY <1>2, <1>3, Rest
  <2>5. /\ items' \in [Positions' -> Item \cup {None}] /\ None \notin Item
        /\ stash' \in Seq(Item)
    BY <1>1, <1>3, Rest
  <2> QED BY <2>1, <2>2, <2>3, <2>4, <2>5, Quiet, RestAfter
<1>5. Becomes(k, {})
  <2> SUFFICES ASSUME NEW x \in Item
               PROVE  Somewhere(x)' <=> x.key # k /\ Somewhere(x)
    BY DEF Becomes
  <2>1. DOMAIN stash' = 1 .. Len(stash) /\ DOMAIN pending' = {}
    BY LenProperties, Quiet, Rest
  <2>2. Somewhere(x)' <=> \/ \E q \in Positions : items'[q] = x
                          \/ \E i \in 1 .. Len(stash) : stash[i] = x
    BY <1>3, <2>1, Quiet, Rest DEF Somewhere
  <2>3. Somewhere(x) <=> \/ \E q \in Positions : items[q] = x
                         \/ \E i \in 1 .. Len(stash) : stash[i] = x
    BY AtRest
  <2>4. \A i \in 1 .. Len(stash) : stash[i].key # k
    BY Rest
  <2>5. (\E q \in Positions : items'[q] = x) <=> x.key # k /\ \E q \in Positions : items[q] = x
    <3>1. \A q \in Positions : items[q] \in Item /\ items[q].key = k => q = p
      BY Rest
    <3> QED BY <1>1, <1>2, <3>1
  <2> QED BY <2>2, <2>3, <2>4, <2>5
<1>6. NothingReturns
  <2> SUFFICES ASSUME NEW n \in Nat, NEW i, (i \in Ahead(n))'
               PROVE  \E j \in Ahead(n) : Entry(j).key = Entry(i)'.key
    BY DEF NothingReturns
  <2>1. (PlaceInv /\ pc = "idle" => AheadMeans)'
    BY AheadAfter, PTL
  <2>2. AheadMeans'
    BY <1>4, <2>1, Quiet
  <2>3. \/ i \in Positions /\ i >= n /\ items'[i] \in Item
        \/ i \in Nat /\ i >= n /\ i - size + 1 \in 1 .. Len(stash)
    BY <1>3, <2>2 DEF AheadMeans
  <2>4. i \in Ahead(n)
    BY <1>2, <2>3, AheadAre
  <2>5. Entry(i)' = Entry(i)
    <3>1. size \in Nat \ {0} /\ Positions = 0 .. size - 1
      BY Rest DEF Positions
    <3> QED BY <1>2, <1>3, <2>3, <3>1 DEF Entry
  <2> QED BY <2>4, <2>5
<1> QED BY <1>4, <1>5, <1>6

(* An entry leaves the table, and one of the stash takes its position. *)
LEMMA RemoveSwapKeeps ==
  ASSUME PlaceInv, pc = "idle", NEW k \in Keys, NEW p \in Positions, NEW d \in 1 .. Len(stash),
         items[p] \in Item, items[p].key = k, p \in BothPos(stash[d].key),
         items' = [items EXCEPT ![p] = stash[d]], stash' = RemoveAt(stash, d), used' \in Nat,
         UNCHANGED <<size, call>>
  PROVE  PlaceInv' /\ Becomes(k, {}) /\ NothingReturns
<1>0. PICK m \in Nat : m = Len(stash)
  BY StashType
<1>a. PICK e \in Item : e = stash[d]
  BY StashType
<1>1. /\ \A q \in Positions : q # p => items'[q] = items[q]
      /\ items'[p] = e /\ items' \in [Positions -> Item \cup {None}]
  BY <1>a, Rest
<1>2. Positions' = Positions /\ size' = size /\ d \in 1 .. m
  BY <1>0, Quiet
<1>3. /\ stash' \in Seq(Item) /\ Len(stash') = m - 1
      /\ OthersOf(stash', stash, d, m)
  BY <1>0, Removed, RemovedElements, StashType
<1>4. /\ \A j \in 1 .. m - 1 : \E i \in 1 .. m : /\ stash'[j] = stash[i] /\ i # d
                                                 /\ (i = j \/ i = j + 1)
      /\ \A i \in 1 .. m : i # d => \E j \in 1 .. m - 1 : stash'[j] = stash[i]
  BY <1>3 DEF OthersOf
<1>5. \A i \in 1 .. m : stash[i].key = e.key => i = d
  BY <1>0, <1>a, <1>2, Rest
<1>6. \A j \in 1 .. m - 1 : stash'[j].key # e.key
  <2> SUFFICES ASSUME NEW j \in 1 .. m - 1
               PROVE  stash'[j].key # e.key
    OBVIOUS
  <2>1. PICK i \in 1 .. m : stash'[j] = stash[i] /\ i # d
    BY <1>4
  <2> QED BY <1>5, <2>1
<1>7. PlaceInv'
  <2>1. \A i, j \in 1 .. Len(stash') : stash'[i].key = stash'[j].key => i = j
    <3>1. OnceIn(stash', m - 1)
      <4>1. OnceIn(stash, m)
        BY <1>0, Rest DEF OnceIn
      <4> QED BY <1>0, <4>1, StillOnce, StashType
    <3> QED BY <1>3, <3>1 DEF OnceIn
  <2>2. \A q \in Positions', i \in 1 .. Len(stash') :
          items'[q] \in Item => items'[q].key # stash'[i].key
    <3>1. \A q \in Positions, i \in 1 .. m :
            items[q] \in Item => items[q].key # stash[i].key
      BY <1>0, Rest
    <3>2. \A q \in Positions, i \in 1 .. m - 1 :
            items'[q] \in Item => items'[q].key # stash'[i].key
      <4> SUFFICES ASSUME NEW q \in Positions, NEW j \in 1 .. m - 1, items'[q] \in Item
                   PROVE  items'[q].key # stash'[j].key
        OBVIOUS
      <4>1. PICK i \in 1 .. m : stash'[j] = stash[i]
        BY <1>4
      <4>2. CASE q = p
        BY ONLY <1>1, <1>6, <4>2
      <4>3. CASE q # p
        BY ONLY <1>1, <3>1, <4>1, <4>3, items'[q] \in Item
      <4> QED BY <4>2, <4>3
    <3>3. 1 .. Len(stash') = 1 .. m - 1
      BY <1>3
    <3> QED BY ONLY <1>2, <3>2, <3>3
  <2>3. \A q \in Positions' : items'[q] \in Item =>
           q \in {Hash1[items'[q].key] % size', Hash2[items'[q].key] % size'}
    <3>1. p \in {Hash1[e.key] % size, Hash2[e.key] % size}
      BY <1>a DEF BothPos, Pos1, Pos2
    <3>2. \A q \in Positions : items[q] \in Item =>
           q \in {Hash1[items[q].key] % size, Hash2[items[q].key] % size}
      BY Rest DEF BothPos, Pos1, Pos2
    <3> QED BY ONLY <1>1, <1>2, <3>1, <3>2
  <2>4. \A q, r \in Positions' : items'[q] \in Item /\ items'[r] \in Item
                                   /\ items'[q].key = items'[r].key => q = r
    <3>1. \A q \in Positions : items[q] \in Item => items[q].key # e.key
      BY <1>a, Rest
    <3>2. \A q, r \in Positions : items[q] \in Item /\ items[r] \in Item
                                   /\ items[q].key = items[r].key => q = r
      BY Rest
    <3> QED BY ONLY <1>1, <1>2, <3>1, <3>2
  <2>5. /\ items' \in [Positions' -> Item \cup {None}] /\ None \notin Item
    BY <1>1, <1>2, Rest
  <2> QED BY <1>3, <2>1, <2>2, <2>3, <2>4, <2>5, Quiet, RestAfter
<1>8. Becomes(k, {})
  <2> SUFFICES ASSUME NEW x \in Item
               PROVE  Somewhere(x)' <=> x.key # k /\ Somewhere(x)
    BY DEF Becomes
  <2>1. Somewhere(x)' <=> \/ \E q \in Positions : items'[q] = x
                          \/ \E i \in 1 .. m - 1 : stash'[i] = x
    <3>1. DOMAIN stash' = 1 .. m - 1 /\ DOMAIN pending' = {}
      BY <1>3, LenProperties, Quiet
    <3> QED BY <1>2, <3>1, Quiet, Rest DEF Somewhere
  <2>2. Somewhere(x) <=> \/ \E q \in Positions : items[q] = x
                         \/ \E i \in 1 .. m : stash[i] = x
    BY <1>0, AtRest
  <2>3. \A i \in 1 .. m : stash[i].key # k
    BY <1>0, Rest
  <2>4. \A q \in Positions : items[q] \in Item /\ items[q].key = k => q = p
    BY Rest
  <2>5. ASSUME NEW q \in Positions, items'[q] = x
        PROVE  x.key # k /\ Somewhere(x)
    <3>1. CASE q = p
      BY <1>a, <1>0, <1>1, <1>2, <2>2, <2>3, <2>5, <3>1
    <3>2. CASE q # p
      BY <1>1, <2>2, <2>4, <2>5, <3>2
    <3> QED BY <3>1, <3>2
  <2>6. ASSUME NEW i \in 1 .. m - 1, stash'[i] = x
        PROVE  x.key # k /\ Somewhere(x)
    BY <1>4, <2>2, <2>3, <2>6
  <2>7. ASSUME x.key # k, NEW q \in Positions, items[q] = x
        PROVE  Somewhere(x)'
    BY <1>1, <2>1, <2>7
  <2>8. ASSUME NEW i \in 1 .. m, stash[i] = x
        PROVE  Somewhere(x)'
    BY <1>a, <1>1, <1>4, <2>1, <2>8
  <2> QED BY <2>1, <2>2, <2>5, <2>6, <2>7, <2>8
<1>9. NothingReturns
  <2> SUFFICES ASSUME NEW n \in Nat, NEW i, (i \in Ahead(n))'
               PROVE  \E j \in Ahead(n) : Entry(j).key = Entry(i)'.key
    BY DEF NothingReturns
  <2>1. (PlaceInv /\ pc = "idle" => AheadMeans)'
    BY AheadAfter, PTL
  <2>2. AheadMeans'
    BY <1>7, <2>1, Quiet
  <2>3. \/ i \in Positions /\ i >= n /\ items'[i] \in Item
        \/ i \in Nat /\ i >= n /\ i - size + 1 \in 1 .. m - 1
    BY <1>2, <1>3, <2>2 DEF AheadMeans
  <2>4. PICK z \in Nat : z = size /\ Positions = 0 .. z - 1
    BY Rest DEF Positions
  <2>5. ASSUME NEW l \in 1 .. m, z + l - 1 >= n
        PROVE  z + l - 1 \in Ahead(n) /\ Entry(z + l - 1) = stash[l]
    <3>1. z + l - 1 \in Nat /\ (z + l - 1) - z + 1 = l /\ ~(z + l - 1 < z)
      OBVIOUS
    <3>2. z + l - 1 \in Ahead(n)
      BY <1>0, <2>4, <2>5, <3>1, AheadAre
    <3>3. Entry(z + l - 1) = stash[l]
      BY <2>4, <3>1 DEF Entry
    <3> QED BY <3>2, <3>3
  <2>6. CASE i \in Positions /\ i >= n /\ items'[i] \in Item /\ i # p
    <3>1. items'[i] = items[i]
      BY <1>1, <2>6
    <3>2. i \in Ahead(n)
      BY <2>6, <3>1, AheadAre
    <3>3. Entry(i)' = Entry(i)
      BY <1>2, <2>4, <2>6, <3>1 DEF Entry
    <3> QED BY <3>2, <3>3
  <2>7. CASE i = p /\ i >= n
    <3>1. Entry(i)' = stash[d]
      BY <1>a, <1>1, <1>2, <2>4, <2>7 DEF Entry
    <3>2. z + d - 1 >= n
      BY <1>2, <2>4, <2>7
    <3> QED BY <1>2, <2>5, <3>1, <3>2
  <2>8. CASE i \in Nat /\ i >= n /\ i - size + 1 \in 1 .. m - 1
    <3>1. PICK j \in 1 .. m - 1 : j = i - z + 1
      BY <2>4, <2>8
    <3>2. Entry(i)' = stash'[j]
      BY <1>2, <2>4, <2>8, <3>1 DEF Entry
    <3>3. PICK l \in 1 .. m : stash'[j] = stash[l] /\ (l = j \/ l = j + 1)
      BY <1>4
    <3>4. z + l - 1 >= n
      BY <2>8, <3>1, <3>3
    <3> QED BY <2>5, <3>2, <3>3, <3>4
  <2> QED BY <2>3, <2>6, <2>7, <2>8
<1> QED BY <1>7, <1>8, <1>9

(* A key is removed. *)
LEMMA RemoveKeeps ==
  ASSUME PlaceInv, pc = "idle", NEW k \in Keys, RemoveFromTable(k) \/ RemoveFromStash(k),
         used' \in Nat, UNCHANGED <<size, call>>
  PROVE  PlaceInv' /\ Becomes(k, {}) /\ NothingReturns
<1>1. CASE RemoveFromTable(k)
  <2>1. PICK p \in Positions : p = TablePos(k) /\ items[p] \in Item /\ items[p].key = k
    BY <1>1, Located DEF RemoveFromTable
  <2>2. Unstash(p, [items EXCEPT ![p] = None])
    BY <1>1, <2>1 DEF RemoveFromTable
  <2>3. CASE items' = [items EXCEPT ![p] = None] /\ UNCHANGED stash
    BY <2>1, <2>3, RemoveTableKeeps
  <2>4. CASE /\ Fitting(p) # {}
             /\ items' = [[items EXCEPT ![p] = None] EXCEPT ![p] = stash[Least(Fitting(p))]]
             /\ stash' = RemoveAt(stash, Least(Fitting(p)))
    <3>1. Fitting(p) \subseteq 1 .. Len(stash)
      BY StashType DEF Fitting
    <3>2. Least(Fitting(p)) \in Fitting(p)
      BY <2>4, <3>1, LeastOf, StashType
    <3>3. PICK d \in 1 .. Len(stash) : d = Least(Fitting(p)) /\ p \in BothPos(stash[d].key)
      BY <3>1, <3>2 DEF Fitting
    <3>4. items' = [items EXCEPT ![p] = stash[d]]
      BY <2>4, <3>3, Rest
    <3> QED BY <2>1, <2>4, <3>3, <3>4, RemoveSwapKeeps
  <2> QED BY <2>2, <2>3, <2>4 DEF Unstash
<1>2. CASE RemoveFromStash(k)
  BY <1>2, RemoveStashKeeps
<1> QED BY <1>1, <1>2

(* The keys that have an entry. *)
KeySet == {k \in Keys : \E x \in Entries : x.key = k}

(* The entry being added is counted when it has found its place. *)
Uncounted == IF ~growing /\ pc # "idle" THEN 1 ELSE 0

(* The number of the entries is the one the table holds. *)
Counted == IsFiniteSet(KeySet) /\ Cardinality(KeySet) = used + Uncounted

(* What a key has is the value of its entry. *)
LEMMA LookupIs ==
  ASSUME PlaceInv, NEW k \in Keys
  PROVE  /\ \A x \in Entries : x.key = k => Lookup(k) = x.value
         /\ (\A x \in Entries : x.key # k) => Lookup(k) = None
         /\ Lookup(k) \in Values \cup {None}
         /\ (Lookup(k) = None) <=> \A x \in Entries : x.key # k
<1>1. \A x, y \in Entries : x.key = y.key => x = y
  BY OneOfEach DEF PlaceInv
<1>2. \A x \in Entries : x \in Item /\ x.value \in Values
  BY EntriesAre DEF PlaceInv, Item
<1>3. None \notin Values
  BY NoneIsNothing, ValuesAreNumbers, FS_CardinalityType
<1>4. ASSUME NEW x \in Entries, x.key = k
      PROVE  Lookup(k) = x.value
  <2> DEFINE y == CHOOSE e \in Entries : e.key = k
  <2>1. y \in Entries /\ y.key = k
    BY <1>4
  <2>2. y = x
    BY <1>1, <1>4, <2>1
  <2>3. Lookup(k) = y.value
    BY <1>4 DEF Lookup
  <2> QED BY <2>2, <2>3
<1>5. (\A x \in Entries : x.key # k) => Lookup(k) = None
  BY DEF Lookup
<1> QED BY <1>2, <1>3, <1>4, <1>5

(* The same after a step. *)
LookupMeans ==
  \A k \in Keys : /\ \A x \in Entries : x.key = k => Lookup(k) = x.value
                  /\ (\A x \in Entries : x.key # k) => Lookup(k) = None

(* It follows from the invariant. *)
LEMMA LookupAfter == PlaceInv => LookupMeans
BY LookupIs DEF LookupMeans

(* Entries that stay keep the map as it is. *)
LEMMA SameMap ==
  ASSUME PlaceInv, PlaceInv', SameEntries
  PROVE  /\ Entries' = Entries /\ KeySet' = KeySet
         /\ [k \in Keys |-> Lookup(k)]' = [k \in Keys |-> Lookup(k)]
<1>1. Entries' = Entries
  BY SameWhenSomewhere DEF PlaceInv
<1>2. KeySet' = KeySet
  BY <1>1 DEF KeySet
<1>3. \A k \in Keys : Lookup(k)' = Lookup(k)
  BY <1>1 DEF Lookup
<1> QED BY <1>1, <1>2, <1>3

(* What a change of one entry does to the entries. *)
LEMMA BecomesEntries ==
  ASSUME PlaceInv, PlaceInv', NEW k, NEW S, Becomes(k, S), S \subseteq Item
  PROVE  \A x : x \in Entries' <=> x \in Item /\ ((x.key # k /\ x \in Entries) \/ x \in S)
<1>1. (/\ \A x : x \in Entries <=> x \in Item /\ Somewhere(x)
       /\ None \notin Item)'
  <2>1. TypeOK'
    BY DEF PlaceInv
  <2> QED BY <2>1, EntriesAfter, PTL
<1>2. \A x : x \in Entries <=> x \in Item /\ Somewhere(x)
  BY EntriesAre DEF PlaceInv
<1> QED BY <1>1, <1>2 DEF Becomes

(* A key gets a value. *)
LEMMA Stored ==
  ASSUME PlaceInv, PlaceInv', NEW k \in Keys, NEW v \in Values,
         Becomes(k, {[key |-> k, value |-> v]})
  PROVE  /\ KeySet' = KeySet \cup {k}
         /\ [j \in Keys |-> Lookup(j)]' = [[j \in Keys |-> Lookup(j)] EXCEPT ![k] = v]
<1> DEFINE new == [key |-> k, value |-> v]
<1>0. new \in Item /\ new.key = k /\ new.value = v
  BY DEF Item
<1>1. \A x : x \in Entries' <=> x \in Item /\ ((x.key # k /\ x \in Entries) \/ x = new)
  BY <1>0, BecomesEntries
<1> HIDE DEF new
<1>2. \A x \in Entries : x \in Item
  BY EntriesAre DEF PlaceInv
<1>3. KeySet' = KeySet \cup {k}
  BY <1>0, <1>1, <1>2 DEF KeySet
<1>4. LookupMeans /\ LookupMeans'
  <2>1. (PlaceInv => LookupMeans)'
    BY LookupAfter, PTL
  <2> QED BY <2>1, LookupAfter
<1>5. Lookup(k)' = v
  BY <1>0, <1>1, <1>4 DEF LookupMeans
<1>6. ASSUME NEW j \in Keys, j # k
      PROVE  Lookup(j)' = Lookup(j)
  <2>1. CASE \E x \in Entries : x.key = j
    <3>1. PICK x \in Entries : x.key = j
      BY <2>1
    <3>2. x \in Entries'
      BY <1>1, <1>2, <1>6, <3>1
    <3> QED BY <1>4, <3>1, <3>2 DEF LookupMeans
  <2>2. CASE \A x \in Entries : x.key # j
    <3>1. \A x \in Entries' : x.key # j
      BY <1>0, <1>1, <1>6, <2>2
    <3> QED BY <1>4, <2>2, <3>1 DEF LookupMeans
  <2> QED BY <2>1, <2>2
<1> QED BY <1>3, <1>5, <1>6

(* A key loses its value. *)
LEMMA Dropped ==
  ASSUME PlaceInv, PlaceInv', NEW k \in Keys, Becomes(k, {})
  PROVE  /\ KeySet' = KeySet \ {k}
         /\ [j \in Keys |-> Lookup(j)]' = [[j \in Keys |-> Lookup(j)] EXCEPT ![k] = None]
<1>1. \A x : x \in Entries' <=> x \in Item /\ x.key # k /\ x \in Entries
  BY BecomesEntries
<1>2. \A x \in Entries : x \in Item
  BY EntriesAre DEF PlaceInv
<1>3. KeySet' = KeySet \ {k}
  BY <1>1, <1>2 DEF KeySet
<1>4. LookupMeans /\ LookupMeans'
  <2>1. (PlaceInv => LookupMeans)'
    BY LookupAfter, PTL
  <2> QED BY <2>1, LookupAfter
<1>5. Lookup(k)' = None
  BY <1>1, <1>4 DEF LookupMeans
<1>6. ASSUME NEW j \in Keys, j # k
      PROVE  Lookup(j)' = Lookup(j)
  <2>1. CASE \E x \in Entries : x.key = j
    <3>1. PICK x \in Entries : x.key = j
      BY <2>1
    <3>2. x \in Entries'
      BY <1>1, <1>2, <1>6, <3>1
    <3> QED BY <1>4, <3>1, <3>2 DEF LookupMeans
  <2>2. CASE \A x \in Entries : x.key # j
    <3>1. \A x \in Entries' : x.key # j
      BY <1>1, <2>2
    <3> QED BY <1>4, <2>2, <3>1 DEF LookupMeans
  <2> QED BY <2>1, <2>2
<1> QED BY <1>3, <1>5, <1>6

(* The keys that have a value are the ones that have an entry. *)
LEMMA Valued ==
  ASSUME PlaceInv
  PROVE  Promise!Known = KeySet
BY LookupIs DEF KeySet, Promise!Known

(* The keys the enumeration still has to pass. *)
KeysAhead(n) == {Entry(i).key : i \in Ahead(n)}

(* The enumeration keeps its type. *)
CursorType ==
  cursor \in [on : BOOLEAN, index : Nat, seen : SUBSET Keys, twice : BOOLEAN,
              kept : SUBSET Keys, removed : BOOLEAN, over : BOOLEAN]

(* What the enumeration has passed and what it has before it. *)
CursorInv ==
  /\ CursorType
  /\ ~cursor.twice
  /\ cursor.over => cursor.on
  /\ cursor.on => cursor.seen \cap KeysAhead(cursor.index) = {}
  /\ cursor.on /\ ~cursor.removed =>
       cursor.kept = cursor.seen \cup KeysAhead(cursor.index)
  /\ cursor.over /\ ~cursor.removed => cursor.kept = cursor.seen

(* Nothing is known of an enumeration that has not begun. *)
LEMMA NoCursorInv ==
  ASSUME cursor' = NoCursor
  PROVE  CursorInv'
BY DEF CursorInv, CursorType, NoCursor

(* The entries ahead and their keys. *)
LEMMA AheadEntries ==
  ASSUME PlaceInv, pc = "idle", NEW n \in Nat
  PROVE  /\ \A i \in Ahead(n) : i \in Nat /\ i >= n /\ Entry(i) \in Entries /\ Entry(i).key \in Keys
         /\ \A i, j \in Ahead(n) : Entry(i).key = Entry(j).key => i = j
         /\ IsFiniteSet(Ahead(n))
<1>1. PICK z \in Nat \ {0} : z = size /\ Positions = 0 .. z - 1
  BY Rest DEF Positions
<1>2. PICK m \in Nat : m = Len(stash)
  BY StashType
<1>3. \A i \in Ahead(n) :
        /\ i \in Nat /\ i >= n /\ Entry(i) \in Item
        /\ \/ i \in Positions /\ Entry(i) = items[i] /\ items[i] \in Item
           \/ i \notin Positions /\ i - z + 1 \in 1 .. m /\ Entry(i) = stash[i - z + 1]
  <2> SUFFICES ASSUME NEW i \in Ahead(n)
               PROVE  /\ i \in Nat /\ i >= n /\ Entry(i) \in Item
                      /\ \/ i \in Positions /\ Entry(i) = items[i] /\ items[i] \in Item
                         \/ i \notin Positions /\ i - z + 1 \in 1 .. m /\ Entry(i) = stash[i - z + 1]
    OBVIOUS
  <2>1. \/ i \in Positions /\ i >= n /\ items[i] \in Item
        \/ i \in Nat /\ i >= n /\ i - z + 1 \in 1 .. m
    BY <1>1, <1>2, AheadAre
  <2>2. CASE i \in Positions /\ i >= n /\ items[i] \in Item
    BY <1>1, <2>2 DEF Entry
  <2>3. CASE i \in Nat /\ i >= n /\ i - z + 1 \in 1 .. m
    <3>1. ~(i < z) /\ i \notin Positions
      BY <1>1, <2>3
    <3>2. Entry(i) = stash[i - z + 1]
      BY <1>1, <3>1 DEF Entry
    <3>3. stash[i - z + 1] \in Item
      BY <1>2, <2>3, StashType
    <3> QED BY <2>3, <3>1, <3>2, <3>3
  <2> QED BY <2>1, <2>2, <2>3
<1>4. \A i \in Ahead(n) : Entry(i) \in Entries /\ Entry(i).key \in Keys
  <2>1. \A x \in Item : Somewhere(x) <=> \/ \E p \in Positions : items[p] = x
                                         \/ \E i \in 1 .. m : stash[i] = x
    BY <1>2, AtRest
  <2>2. \A x : x \in Entries <=> x \in Item /\ Somewhere(x)
    BY EntriesAre DEF PlaceInv
  <2> QED BY <1>3, <2>1, <2>2 DEF Item
<1>5. ASSUME NEW i \in Ahead(n), NEW j \in Ahead(n), Entry(i).key = Entry(j).key
      PROVE  i = j
  <2>1. CASE i \in Positions /\ j \in Positions
    BY <1>3, <1>5, <2>1, Rest
  <2>2. CASE i \in Positions /\ j \notin Positions
    <3>1. /\ Entry(i) = items[i] /\ items[i] \in Item
          /\ j - z + 1 \in 1 .. Len(stash) /\ Entry(j) = stash[j - z + 1]
      BY <1>2, <1>3, <2>2
    <3> QED BY <1>5, <2>2, <3>1, Rest
  <2>3. CASE i \notin Positions /\ j \in Positions
    <3>1. /\ Entry(j) = items[j] /\ items[j] \in Item
          /\ i - z + 1 \in 1 .. Len(stash) /\ Entry(i) = stash[i - z + 1]
      BY <1>2, <1>3, <2>3
    <3> QED BY <1>5, <2>3, <3>1, Rest
  <2>4. CASE i \notin Positions /\ j \notin Positions
    <3>1. /\ i - z + 1 \in 1 .. Len(stash) /\ j - z + 1 \in 1 .. Len(stash)
          /\ stash[i - z + 1].key = stash[j - z + 1].key
      BY <1>2, <1>3, <1>5, <2>4
    <3>2. i - z + 1 = j - z + 1
      BY <3>1, Rest
    <3> QED BY <1>1, <1>3, <3>2
  <2> QED BY <2>1, <2>2, <2>3, <2>4
<1>6. IsFiniteSet(Ahead(n))
  <2>1. IsFiniteSet(n .. z + m - 1)
    BY FS_Interval
  <2>2. Ahead(n) \subseteq n .. z + m - 1
    BY <1>1, <1>2 DEF Ahead
  <2> QED BY <2>1, <2>2, FS_Subset
<1> QED BY <1>3, <1>4, <1>5, <1>6

(* All the entries are ahead of an enumeration that begins. *)
LEMMA AllAhead ==
  ASSUME PlaceInv, pc = "idle"
  PROVE  KeysAhead(0) = {k \in Keys : Present(k)}
<1>1. PICK z \in Nat \ {0} : z = size /\ Positions = 0 .. z - 1
  BY Rest DEF Positions
<1>2. PICK m \in Nat : m = Len(stash)
  BY StashType
<1>3. ASSUME NEW i \in Ahead(0)
      PROVE  Entry(i).key \in Keys /\ Present(Entry(i).key)
  BY AheadEntries, Finding
<1>4. ASSUME NEW x \in Entries
      PROVE  \E i \in Ahead(0) : Entry(i) = x
  <2>1. x \in Item /\ Somewhere(x)
    BY EntriesAre DEF PlaceInv
  <2>2. CASE \E p \in Positions : items[p] = x
    <3>1. PICK p \in Positions : items[p] = x
      BY <2>2
    <3>2. p \in Ahead(0)
      BY <1>1, <2>1, <3>1, AheadAre
    <3>3. Entry(p) = x
      BY <1>1, <3>1 DEF Entry
    <3> QED BY <3>2, <3>3
  <2>3. CASE \E j \in 1 .. m : stash[j] = x
    <3>1. PICK j \in 1 .. m : stash[j] = x
      BY <2>3
    <3>2. PICK i \in Nat : i = z + j - 1 /\ i - z + 1 = j /\ ~(i < z)
      OBVIOUS
    <3>3. i \in Ahead(0)
      BY <1>1, <1>2, <3>2, AheadAre
    <3>4. Entry(i) = x
      BY <1>1, <3>1, <3>2 DEF Entry
    <3> QED BY <3>3, <3>4
  <2> QED BY <1>2, <2>1, <2>2, <2>3, AtRest
<1>5. ASSUME NEW k \in Keys, Present(k)
      PROVE  \E i \in Ahead(0) : Entry(i).key = k
  <2>1. PICK x \in Entries : x.key = k
    BY <1>5, Finding
  <2> QED BY <1>4, <2>1
<1> QED BY <1>3, <1>5 DEF KeysAhead

(* One more entry is passed. *)
LEMMA OnePassed ==
  ASSUME PlaceInv, pc = "idle", NEW n \in Nat, NEW i \in Ahead(n), \A j \in Ahead(n) : i <= j
  PROVE  /\ KeysAhead(n) = KeysAhead(i + 1) \cup {Entry(i).key}
         /\ Entry(i).key \notin KeysAhead(i + 1)
<1>1. i \in Nat /\ i >= n
  BY AheadEntries
<1>2. Ahead(i + 1) = Ahead(n) \ {i}
  <2>1. PICK z \in Nat : z = size + Len(stash) - 1
    BY Rest
  <2>2. \A j \in Ahead(n) : j \in Nat
    BY AheadEntries
  <2>3. \A j : j \in Ahead(i + 1) <=> j \in i + 1 .. z /\ (j >= size \/ ~Free(j))
    BY <2>1 DEF Ahead
  <2>4. \A j : j \in Ahead(n) <=> j \in n .. z /\ (j >= size \/ ~Free(j))
    BY <2>1 DEF Ahead
  <2>5. \A j : j \in i + 1 .. z <=> j \in n .. z /\ j >= i + 1
    BY <1>1, <2>1
  <2>6. \A j \in Ahead(n) : j # i => j >= i + 1
    BY <1>1, <2>2
  <2>7. ~(i >= i + 1)
    BY <1>1
  <2> QED BY <2>3, <2>4, <2>5, <2>6, <2>7
<1>3. i + 1 \in Nat
  BY <1>1
<1>4. \A j \in Ahead(n) : Entry(j).key = Entry(i).key => j = i
  BY AheadEntries
<1> QED BY <1>2, <1>4 DEF KeysAhead

(* What is ahead has a least place. *)
LEMMA LeastAhead ==
  ASSUME PlaceInv, pc = "idle", NEW n \in Nat, Ahead(n) # {}
  PROVE  Least(Ahead(n)) \in Ahead(n) /\ \A j \in Ahead(n) : Least(Ahead(n)) <= j
<1>1. PICK z \in Nat : z = size + Len(stash)
  BY Rest
<1>2. \A i \in Ahead(n) : i \in Nat /\ i + 1 \in 1 .. z
  <2> SUFFICES ASSUME NEW i \in Ahead(n)
               PROVE  i \in Nat /\ i + 1 \in 1 .. z
    OBVIOUS
  <2>1. size + Len(stash) - 1 = z - 1
    BY <1>1, Rest
  <2>2. i \in n .. z - 1
    BY <2>1 DEF Ahead
  <2>3. i \in Nat /\ i <= z - 1
    BY <1>1, <2>2
  <2> QED BY <1>1, <2>3
<1> DEFINE T == {i \in 1 .. z : i - 1 \in Ahead(n)}
<1>3. T \subseteq 1 .. z /\ T # {}
  <2>1. PICK i \in Ahead(n) : TRUE
    OBVIOUS
  <2>2. (i + 1) - 1 = i /\ i + 1 \in 1 .. z
    BY <1>2
  <2> QED BY <2>1, <2>2
<1> HIDE DEF T
<1>4. PICK t \in T : \A j \in T : t <= j
  BY <1>1, <1>3, FirstOf
<1>5. t - 1 \in Ahead(n)
  BY DEF T
<1>6. ASSUME NEW j \in Ahead(n)
      PROVE  t - 1 <= j
  <2>1. j + 1 \in T
    <3>1. (j + 1) - 1 = j /\ j + 1 \in 1 .. z
      BY <1>2
    <3> QED BY <3>1 DEF T
  <2>2. t <= j + 1 /\ t \in Int /\ j \in Int
    BY <1>2, <1>3, <1>4, <2>1
  <2> QED BY <2>2
<1> QED BY <1>5, <1>6 DEF Least

(* The contents and the enumeration stay. *)
LEMMA CursorStays ==
  ASSUME PlaceInv, CursorInv, UNCHANGED <<items, size, stash, cursor>>
  PROVE  CursorInv'
<1>1. \A n : Ahead(n)' = Ahead(n)
  BY DEF Ahead, Free
<1>2. \A i : Entry(i)' = Entry(i)
  BY DEF Entry
<1>3. \A n : KeysAhead(n)' = KeysAhead(n)
  BY <1>1, <1>2 DEF KeysAhead
<1> QED BY <1>3 DEF CursorInv, CursorType

(* A value is replaced: the keys stay where they are. *)
LEMMA CursorSet ==
  ASSUME PlaceInv, CursorInv, pc = "idle", NEW k \in Keys, NEW v \in Values, SetValue(k, v),
         UNCHANGED <<size, used, strings, call, cursor>>
  PROVE  CursorInv'
<1>1. /\ Len(stash') = Len(stash)
      /\ \A p \in Positions : Free(p)' <=> Free(p)
      /\ \A p \in Positions : ~Free(p) => items'[p].key = items[p].key
      /\ \A i \in 1 .. Len(stash) : stash'[i].key = stash[i].key
  BY SetKeeps
<1>2. PICK z \in Nat \ {0} : z = size /\ size' = z /\ Positions = 0 .. z - 1
  BY Rest DEF Positions
<1>3. PICK m \in Nat : m = Len(stash)
  BY StashType
<1>4. ASSUME NEW n \in Nat
      PROVE  KeysAhead(n)' = KeysAhead(n)
  <2>1. \A i : i \in Ahead(n)' <=> i \in n .. z + m - 1 /\ (i >= z \/ ~Free(i)')
    BY <1>1, <1>2, <1>3 DEF Ahead
  <2>2. \A i : i \in Ahead(n) <=> i \in n .. z + m - 1 /\ (i >= z \/ ~Free(i))
    BY <1>2, <1>3 DEF Ahead
  <2>3. \A i \in n .. z + m - 1 : i >= z \/ i \in Positions
    BY <1>2
  <2>4. Ahead(n)' = Ahead(n)
    BY <1>1, <2>1, <2>2, <2>3
  <2>5. ASSUME NEW i \in Ahead(n)
        PROVE  Entry(i)'.key = Entry(i).key
    <3>1. CASE i < z
      <4>1. i \in Positions /\ ~Free(i)
        BY <1>2, <1>3, <2>2, <2>3, <3>1
      <4> QED BY <1>1, <1>2, <3>1, <4>1 DEF Entry
    <3>2. CASE ~(i < z)
      <4>1. i - z + 1 \in 1 .. m
        BY <1>2, <1>3, <2>2, <3>2
      <4> QED BY <1>1, <1>2, <1>3, <3>2, <4>1 DEF Entry
    <3> QED BY <3>1, <3>2
  <2> QED BY <2>4, <2>5 DEF KeysAhead
<1>5. cursor.index \in Nat
  BY DEF CursorInv, CursorType
<1> QED BY <1>4, <1>5 DEF CursorInv, CursorType

(* A key is removed: nothing comes back before the enumeration. *)
LEMMA CursorRemove ==
  ASSUME PlaceInv, CursorInv, NothingReturns, NEW k \in Keys,
         cursor' = [cursor EXCEPT !.kept = @ \ {k}, !.removed = cursor.on]
  PROVE  CursorInv'
<1>1. /\ CursorType' /\ cursor'.on = cursor.on /\ cursor'.index = cursor.index
      /\ cursor'.seen = cursor.seen /\ cursor'.twice = cursor.twice
      /\ cursor'.removed = cursor.on /\ cursor'.over = cursor.over /\ cursor.index \in Nat
  BY DEF CursorInv, CursorType
<1>2. KeysAhead(cursor.index)' \subseteq KeysAhead(cursor.index)
  <2> SUFFICES ASSUME NEW n \in Nat, n = cursor.index, n = cursor'.index
               PROVE  KeysAhead(n)' \subseteq KeysAhead(n)
    BY <1>1 DEF KeysAhead, Ahead, Entry
  <2> QED BY DEF KeysAhead, NothingReturns
<1> QED BY <1>1, <1>2 DEF CursorInv

(* An enumeration begins. *)
LEMMA CursorNew ==
  ASSUME PlaceInv, EnumNew
  PROVE  CursorInv'
<1>1. /\ pc = "idle" /\ UNCHANGED <<items, size, stash>>
      /\ cursor' = [NoCursor EXCEPT !.on = TRUE, !.kept = {k \in Keys : Present(k)}]
  BY DEF EnumNew, Idle, table
<1>2. /\ CursorType' /\ cursor'.on = TRUE /\ cursor'.index = 0 /\ cursor'.seen = {}
      /\ cursor'.twice = FALSE /\ cursor'.kept = {k \in Keys : Present(k)}
      /\ cursor'.over = FALSE
  BY <1>1 DEF NoCursor, CursorType
<1>3. KeysAhead(0)' = KeysAhead(0)
  BY <1>1 DEF KeysAhead, Ahead, Entry, Free
<1>4. KeysAhead(cursor.index)' = {k \in Keys : Present(k)}
  BY <1>1, <1>2, <1>3, AllAhead DEF KeysAhead, Ahead, Entry, Free
<1> QED BY <1>2, <1>4 DEF CursorInv

(* An enumeration goes on by one entry, or comes to its end. *)
LEMMA CursorNext ==
  ASSUME PlaceInv, CursorInv, EnumNext
  PROVE  CursorInv'
<1>1. /\ pc = "idle" /\ UNCHANGED <<items, size, stash>> /\ cursor.on /\ ~cursor.over
      /\ CursorType /\ cursor.index \in Nat
  BY DEF EnumNext, Idle, table, CursorInv, CursorType
<1>2. PICK n \in Nat : n = cursor.index
  BY <1>1
<1>3. \A l : KeysAhead(l)' = KeysAhead(l)
  BY <1>1 DEF KeysAhead, Ahead, Entry, Free
<1>4. CASE Ahead(n) = {}
  <2>1. cursor' = [cursor EXCEPT !.over = TRUE]
    BY <1>2, <1>4 DEF EnumNext, Ahead
  <2>2. /\ CursorType' /\ cursor'.on = cursor.on /\ cursor'.index = n
        /\ cursor'.seen = cursor.seen /\ cursor'.twice = cursor.twice
        /\ cursor'.removed = cursor.removed /\ cursor'.kept = cursor.kept
    BY <1>1, <1>2, <2>1 DEF CursorType
  <2>3. KeysAhead(n) = {}
    BY <1>4 DEF KeysAhead
  <2>4. KeysAhead(cursor.index)' = {}
    <3>1. KeysAhead(n)' = {}
      BY <1>3, <2>3
    <3> QED BY <2>2, <3>1 DEF KeysAhead, Ahead, Entry
  <2> QED BY <1>1, <1>2, <2>2, <2>3, <2>4 DEF CursorInv
<1>5. CASE Ahead(n) # {}
  <2>1. PICK i \in Ahead(n) : i = Least(Ahead(n)) /\ \A j \in Ahead(n) : i <= j
    BY <1>1, <1>5, LeastAhead
  <2>2. cursor' = [cursor EXCEPT !.index = i + 1,
                                 !.seen = @ \cup {Entry(i).key},
                                 !.twice = @ \/ Entry(i).key \in cursor.seen]
    BY <1>2, <1>5, <2>1 DEF EnumNext, Ahead
  <2>3. i + 1 \in Nat /\ Entry(i).key \in Keys
    BY <1>1, AheadEntries
  <2>4. /\ KeysAhead(n) = KeysAhead(i + 1) \cup {Entry(i).key}
        /\ Entry(i).key \notin KeysAhead(i + 1)
    BY <1>1, <2>1, OnePassed
  <2>5. Entry(i).key \notin cursor.seen
    BY <1>1, <1>2, <2>4 DEF CursorInv
  <2>6. /\ cursor'.on = cursor.on /\ cursor'.index = i + 1
        /\ cursor'.seen = cursor.seen \cup {Entry(i).key}
        /\ ~cursor'.twice /\ cursor'.removed = cursor.removed
        /\ cursor'.kept = cursor.kept /\ cursor'.over = cursor.over
    BY <1>1, <2>2, <2>5 DEF CursorInv, CursorType
  <2>7. CursorType'
    <3>1. cursor.seen \cup {Entry(i).key} \in SUBSET Keys
      BY <1>1, <2>3 DEF CursorType
    <3>2. (cursor.twice \/ Entry(i).key \in cursor.seen) \in BOOLEAN
      BY <1>1, <2>5 DEF CursorType
    <3> QED BY <1>1, <2>2, <2>3, <3>1, <3>2 DEF CursorType
  <2>8. KeysAhead(cursor.index)' = KeysAhead(i + 1)
    <3>1. KeysAhead(i + 1)' = KeysAhead(i + 1)
      BY <1>3
    <3> QED BY <2>6, <3>1 DEF KeysAhead, Ahead, Entry
  <2> QED BY <1>1, <1>2, <2>4, <2>5, <2>6, <2>7, <2>8 DEF CursorInv
<1> QED BY <1>4, <1>5

(* The table between and during its calls. *)
IInv == PlaceInv /\ Counted /\ CursorInv

(* The table as its callers see it. *)
MapNow == [k \in Keys |-> Lookup(k)]

(* The table is empty at first. *)
LEMMA Initially ==
  ASSUME Init
  PROVE  IInv /\ Promise!Init
<1>1. /\ size \in Nat \ {0} /\ Positions = 0 .. MinSize - 1 /\ hand = None
      /\ \A p \in Positions : items[p] = None
      /\ items \in [Positions -> Item \cup {None}]
      /\ stash = <<>> /\ pending = <<>> /\ DOMAIN stash = {} /\ DOMAIN pending = {}
      /\ stash \in Seq(Item) /\ pending \in Seq(Item) /\ None \notin Item
  BY SizesArePositive, NoneIsNothing, EmptySeq DEF Init, Positions
<1>2. TypeOK
  BY <1>1 DEF Init, TypeOK
<1>3. AtHome /\ Distinct /\ Phases
  BY <1>1 DEF Init, AtHome, Distinct, DistinctTable, DistinctIn, ApartFrom, HandApart, Free, Phases
<1>4. Entries = {}
  BY <1>1, <1>2, EntriesAre DEF Somewhere
<1>5. Counted
  <2>1. KeySet = {}
    BY <1>4 DEF KeySet
  <2>2. used = 0 /\ Uncounted = 0
    BY DEF Init, Uncounted
  <2> QED BY <2>1, <2>2, FS_EmptySet DEF Counted
<1>6. CursorInv
  BY DEF Init, CursorInv, CursorType, NoCursor
<1>7. MapNow = [k \in Keys |-> None] /\ answer = 0
  <2>1. \A k \in Keys : Lookup(k) = None
    BY <1>4 DEF Lookup
  <2> QED BY <2>1 DEF MapNow, Init
<1> QED BY <1>2, <1>3, <1>5, <1>6, <1>7 DEF IInv, PlaceInv, MapNow, Promise!Init

(* A step in the middle of a call changes neither the map nor the answer. *)
LEMMA InnerStep ==
  ASSUME IInv, Place \/ Move \/ ToStash \/ Added \/ Merge \/ Fail
  PROVE  IInv' /\ UNCHANGED Promise!vars
<1>1. PlaceInv' /\ SameEntries
  BY PlaceKeeps, MoveKeeps, StashKeeps, AddedKeeps, MergeKeeps, FailKeeps DEF IInv
<1>2. KeySet' = KeySet /\ MapNow' = MapNow
  BY <1>1, SameMap DEF IInv, MapNow
<1>3. pc # "idle" /\ answer' = answer /\ cursor' = cursor
  BY DEF Place, Move, ToStash, Lost, Added, Merge, Fail
<1>4. CursorInv'
  BY <1>3, NoCursorInv DEF IInv, PlaceInv, Phases
<1>5. used' + Uncounted' = used + Uncounted
  <2>1. used \in Nat
    BY DEF IInv, PlaceInv, TypeOK
  <2>2. CASE Place \/ Move \/ ToStash
    <3>1. used' = used /\ growing' = growing /\ pc' # "idle"
      BY <2>2 DEF Place, Move, ToStash, Settled, PutAt, KickFrom
    <3> QED BY <1>3, <3>1 DEF Uncounted
  <2>3. CASE Added
    <3>1. ~growing
      BY <2>3 DEF Added, IInv, PlaceInv, Phases
    <3> QED BY <1>3, <2>1, <2>3, <3>1 DEF Added, Uncounted
  <2>4. CASE Merge
    <3>1. growing
      BY <2>4 DEF Merge, IInv, PlaceInv, Phases
    <3> QED BY <2>4, <3>1 DEF Merge, Uncounted, table
  <2>5. CASE Fail
    BY <1>3, <2>5 DEF Fail, Uncounted, table
  <2> QED BY <2>2, <2>3, <2>4, <2>5
<1>6. Counted'
  BY <1>2, <1>5 DEF IInv, Counted
<1> QED BY <1>1, <1>2, <1>3, <1>4, <1>6 DEF IInv, MapNow, Promise!vars

(* The contents stay as they are, and so does the map. *)
LEMMA SameContents ==
  ASSUME PlaceInv, UNCHANGED <<table, call>>, cursor' = cursor \/ pc = "idle"
  PROVE  /\ PlaceInv' /\ SameEntries /\ KeySet' = KeySet /\ MapNow' = MapNow
         /\ Uncounted' = Uncounted /\ used' = used
<1>1. /\ UNCHANGED <<items, size, used, stash, pc, hand, hash, first, loops, growing, pending>>
      /\ Positions' = Positions
  BY DEF table, call, Positions
<1>2. TypeOK'
  BY <1>1 DEF PlaceInv, TypeOK
<1>3. AtHome'
  BY <1>1 DEF PlaceInv, AtHome, Free, BothPos, Pos1, Pos2
<1>4. Distinct'
  BY <1>1 DEF PlaceInv, Distinct, DistinctTable, DistinctIn, ApartFrom, HandApart, Free
<1>5. Phases'
  BY <1>1 DEF PlaceInv, Phases
<1>6. SameEntries
  BY <1>1 DEF SameEntries, Somewhere
<1>7. PlaceInv'
  BY <1>2, <1>3, <1>4, <1>5 DEF PlaceInv
<1> QED BY <1>1, <1>6, <1>7, SameMap DEF MapNow, Uncounted

(* A call that leaves the contents and the enumeration keeps the invariant. *)
LEMMA StillStep ==
  ASSUME IInv, UNCHANGED <<table, call, cursor>>
  PROVE  IInv' /\ MapNow' = MapNow
<1>1. /\ PlaceInv' /\ KeySet' = KeySet /\ MapNow' = MapNow
      /\ Uncounted' = Uncounted /\ used' = used
  BY SameContents DEF IInv
<1>2. CursorInv'
  BY CursorStays DEF IInv, table
<1> QED BY <1>1, <1>2 DEF IInv, Counted

(* A value is written where the key is. *)
LEMMA SetStep ==
  ASSUME IInv, pc = "idle", NEW k \in Keys, NEW v \in Values, SetValue(k, v),
         UNCHANGED <<size, used, strings, call, cursor>>
  PROVE  IInv' /\ Present(k) /\ MapNow' = [MapNow EXCEPT ![k] = v]
<1>1. PlaceInv' /\ Becomes(k, {[key |-> k, value |-> v]}) /\ Present(k)
  BY SetKeeps DEF IInv
<1>2. KeySet' = KeySet \cup {k} /\ MapNow' = [MapNow EXCEPT ![k] = v]
  BY <1>1, Stored DEF IInv, MapNow
<1>3. k \in KeySet
  BY <1>1, Finding DEF IInv, KeySet
<1>4. KeySet' = KeySet
  BY <1>2, <1>3
<1>5. CursorInv'
  BY CursorSet DEF IInv
<1>6. Counted'
  BY <1>4 DEF IInv, Counted, Uncounted, call
<1> QED BY <1>1, <1>2, <1>5, <1>6 DEF IInv

(* A new entry is taken in hand. *)
LEMMA InsertStep ==
  ASSUME IInv, pc = "idle", NEW k \in Keys, NEW v \in Values, ~Present(k), Insert(k, v)
  PROVE  IInv' /\ MapNow[k] = None /\ MapNow' = [MapNow EXCEPT ![k] = v]
<1>1. PlaceInv' /\ Becomes(k, {[key |-> k, value |-> v]})
  BY InsertKeeps DEF IInv
<1>2. KeySet' = KeySet \cup {k} /\ MapNow' = [MapNow EXCEPT ![k] = v]
  BY <1>1, Stored DEF IInv, MapNow
<1>3. k \notin KeySet
  BY Finding DEF IInv, KeySet
<1>4. MapNow[k] = None
  BY <1>3, LookupIs DEF IInv, KeySet, MapNow
<1>5. CursorInv'
  BY NoCursorInv DEF Insert
<1>6. Counted'
  <2>1. /\ IsFiniteSet(KeySet') /\ Cardinality(KeySet') = Cardinality(KeySet) + 1
    BY <1>2, <1>3, FS_AddElement DEF IInv, Counted
  <2>2. used' = used /\ Uncounted = 0 /\ Uncounted' = 1 /\ used \in Nat
    <3>1. ~growing
      BY DEF IInv, PlaceInv, Phases
    <3> QED BY <3>1 DEF Insert, table, Uncounted, IInv, PlaceInv, TypeOK
  <2> QED BY <2>1, <2>2 DEF IInv, Counted
<1> QED BY <1>1, <1>2, <1>4, <1>5, <1>6 DEF IInv

(* coucal_write_value keeps the promise. *)
LEMMA WriteStep ==
  ASSUME IInv, NEW k \in Keys, NEW v \in Values, Write(k, v)
  PROVE  IInv' /\ Promise!Write(k, v)
<1>1. pc = "idle"
  BY DEF Write, Idle
<1>2. CASE /\ SetValue(k, v) /\ answer' = 0 /\ UNCHANGED <<size, used, strings, call, cursor>>
  <2>1. IInv' /\ Present(k) /\ MapNow' = [MapNow EXCEPT ![k] = v]
    BY <1>1, <1>2, SetStep
  <2>2. MapNow[k] # None
    BY <1>1, <2>1, Finding, LookupIs DEF IInv, MapNow
  <2> QED BY <1>2, <2>1, <2>2 DEF Promise!Write, MapNow
<1>3. CASE ~Present(k) /\ Insert(k, v) /\ answer' = 1
  <2>1. IInv' /\ MapNow[k] = None /\ MapNow' = [MapNow EXCEPT ![k] = v]
    BY <1>1, <1>3, InsertStep
  <2> QED BY <1>3, <2>1 DEF Promise!Write, MapNow
<1> QED BY <1>2, <1>3 DEF Write

(* A value that is incremented wraps around. *)
LEMMA WrapsAround ==
  ASSUME IInv, pc = "idle", NEW k \in Keys, NEW by \in Values, Present(k)
  PROVE  (Fetch(k) + by) % Cardinality(Values) \in Values
<1>1. Fetch(k) \in Values
  <2>1. PICK x \in Entries : Fetch(k) = x.value
    BY Finding DEF IInv
  <2> QED BY <2>1, EntriesAre DEF IInv, PlaceInv, Item
<1>2. PICK c \in Nat : c = Cardinality(Values)
  BY ValuesAreNumbers, FS_CardinalityType
<1>3. Values = 0 .. c - 1 /\ c # 0
  BY <1>2, ValuesAreNumbers
<1>4. PICK f \in Nat : f = Fetch(k)
  BY <1>1, <1>3
<1>5. (f + by) % c \in 0 .. c - 1
  BY <1>3
<1> QED BY <1>2, <1>3, <1>4, <1>5

(* coucal_inc and coucal_dec keep it too: the value may wrap around. *)
LEMMA IncrementStep ==
  ASSUME IInv, NEW k \in Keys, NEW by \in Values, Increment(k, by)
  PROVE  IInv' /\ \E v \in Values : Promise!Increment(k, v)
<1>1. pc = "idle"
  BY DEF Increment, Idle
<1>2. ASSUME NEW v, v = (Fetch(k) + by) % Cardinality(Values),
             SetValue(k, v), answer' = v, UNCHANGED <<size, used, strings, call, cursor>>
      PROVE  IInv' /\ \E w \in Values : Promise!Increment(k, w)
  <2>1. Present(k)
    BY <1>2 DEF SetValue, Present
  <2>3. v \in Values
    BY <1>1, <1>2, <2>1, WrapsAround
  <2>4. IInv' /\ MapNow' = [MapNow EXCEPT ![k] = v]
    BY <1>1, <1>2, <2>3, SetStep
  <2>5. Promise!Increment(k, v)
    BY <1>2, <2>4 DEF Promise!Increment, MapNow
  <2> QED BY <2>3, <2>4, <2>5
<1>3. CASE ~Present(k) /\ Insert(k, by) /\ answer' = by
  <2>1. IInv' /\ MapNow' = [MapNow EXCEPT ![k] = by]
    BY <1>1, <1>3, InsertStep
  <2>2. Promise!Increment(k, by)
    BY <1>3, <2>1 DEF Promise!Increment, MapNow
  <2> QED BY <2>1, <2>2
<1> QED BY <1>2, <1>3 DEF Increment

(* coucal_remove keeps it. *)
LEMMA RemoveStep ==
  ASSUME IInv, NEW k \in Keys, RemoveKey(k)
  PROVE  IInv' /\ Promise!Remove(k)
<1>1. pc = "idle" /\ UNCHANGED call
  BY DEF RemoveKey, Idle
<1>2. CASE /\ RemoveFromTable(k) \/ RemoveFromStash(k)
           /\ used' = used - 1 /\ answer' = 1
           /\ cursor' = [cursor EXCEPT !.kept = @ \ {k}, !.removed = cursor.on]
           /\ UNCHANGED size
  <2>1. Present(k)
    BY <1>2 DEF RemoveFromTable, RemoveFromStash, Present
  <2>2. k \in KeySet
    BY <1>1, <2>1, Finding DEF IInv, KeySet
  <2>3. /\ IsFiniteSet(KeySet) /\ Cardinality(KeySet) = used /\ used \in Nat
    BY <1>1 DEF IInv, Counted, Uncounted, PlaceInv, TypeOK
  <2>4. /\ IsFiniteSet(KeySet \ {k}) /\ Cardinality(KeySet \ {k}) = used - 1
    BY <2>2, <2>3, FS_RemoveElement
  <2>5. used' \in Nat
    BY <1>2, <2>4, FS_CardinalityType
  <2>6. PlaceInv' /\ Becomes(k, {}) /\ NothingReturns
    BY <1>1, <1>2, <2>5, RemoveKeeps DEF IInv
  <2>7. KeySet' = KeySet \ {k} /\ MapNow' = [MapNow EXCEPT ![k] = None]
    BY <2>6, Dropped DEF IInv, MapNow
  <2>8. Counted'
    BY <1>1, <1>2, <2>4, <2>5, <2>7 DEF Counted, Uncounted, call
  <2>9. CursorInv'
    BY <1>2, <2>6, CursorRemove DEF IInv
  <2>10. MapNow[k] # None
    BY <1>1, <2>1, Finding, LookupIs DEF IInv, MapNow
  <2> QED BY <1>2, <2>6, <2>7, <2>8, <2>9, <2>10 DEF IInv, Promise!Remove, MapNow
<1>3. CASE ~Present(k) /\ answer' = 0 /\ UNCHANGED <<table, strings, cursor>>
  <2>1. MapNow[k] = None
    <3>1. \A x \in Entries : x.key # k
      BY <1>1, <1>3, Finding DEF IInv
    <3> QED BY <3>1, LookupIs DEF IInv, MapNow
  <2>2. IInv' /\ MapNow' = MapNow
    BY <1>1, <1>3, StillStep
  <2>3. MapNow' = [MapNow EXCEPT ![k] = None]
    BY <2>1, <2>2 DEF MapNow
  <2> QED BY <1>3, <2>1, <2>2, <2>3 DEF Promise!Remove, MapNow
<1> QED BY <1>1, <1>2, <1>3 DEF RemoveKey

(* coucal_read and the count of the entries. *)
LEMMA ReadStep ==
  ASSUME IInv, NEW k \in Keys, Read(k)
  PROVE  IInv' /\ Promise!Read(k)
<1>1. pc = "idle" /\ answer' = (IF Present(k) THEN Fetch(k) ELSE None)
  BY DEF Read, Idle
<1>2. IInv' /\ MapNow' = MapNow
  BY StillStep DEF Read
<1>3. answer' = MapNow[k]
  <2>1. CASE Present(k)
    <3>1. PICK x \in Entries : x.key = k /\ Fetch(k) = x.value
      BY <1>1, <2>1, Finding DEF IInv
    <3>2. Lookup(k) = x.value
      BY <3>1, LookupIs DEF IInv
    <3> QED BY <1>1, <2>1, <3>1, <3>2 DEF MapNow
  <2>2. CASE ~Present(k)
    <3>1. \A x \in Entries : x.key # k
      BY <1>1, <2>2, Finding DEF IInv
    <3>2. Lookup(k) = None
      BY <3>1, LookupIs DEF IInv
    <3> QED BY <1>1, <2>2, <3>2 DEF MapNow
  <2> QED BY <2>1, <2>2
<1> QED BY <1>2, <1>3 DEF Promise!Read, MapNow

(* The specification of the map counts as this one does. *)
LEMMA SameCardinality ==
  ASSUME NEW S
  PROVE  Promise!Cardinality(S) = Cardinality(S)
BY Zenon DEF Cardinality, Promise!Cardinality

(* The count is the number of the keys that have a value. *)
LEMMA CountStep ==
  ASSUME IInv, Count
  PROVE  IInv' /\ Promise!Count
<1>1. pc = "idle" /\ answer' = used
  BY DEF Count, Idle
<1>2. IInv' /\ MapNow' = MapNow
  BY StillStep DEF Count
<1>3. Cardinality(KeySet) = used
  BY <1>1 DEF IInv, Counted, Uncounted, PlaceInv, TypeOK
<1>4. Promise!Known = KeySet
  BY Valued DEF IInv
<1>5. answer' = Promise!Cardinality(Promise!Known)
  BY <1>1, <1>3, <1>4, SameCardinality
<1>6. Promise!Count
  <2>1. UNCHANGED [k \in Keys |-> Lookup(k)]
    BY <1>2 DEF MapNow
  <2> QED BY ONLY <1>5, <2>1 DEF Promise!Count
<1> QED BY <1>2, <1>6

(* An enumeration reads only. *)
LEMMA EnumStep ==
  ASSUME IInv, EnumNew \/ EnumNext
  PROVE  IInv' /\ UNCHANGED Promise!vars
<1>1. pc = "idle" /\ UNCHANGED <<table, call, answer>>
  BY DEF EnumNew, EnumNext, Idle
<1>2. /\ PlaceInv' /\ KeySet' = KeySet /\ MapNow' = MapNow
      /\ Uncounted' = Uncounted /\ used' = used
  BY <1>1, SameContents DEF IInv
<1>3. CursorInv'
  BY CursorNew, CursorNext DEF IInv
<1> QED BY <1>1, <1>2, <1>3 DEF IInv, Counted, MapNow, Promise!vars

(* Every step keeps the invariant and the promise. *)
LEMMA Step ==
  ASSUME IInv, [Next]_vars
  PROVE  IInv' /\ [Promise!Next]_(Promise!vars)
<1>1. CASE UNCHANGED vars
  BY <1>1, StillStep DEF vars, table, call, MapNow, Promise!vars
<1>2. ASSUME NEW k \in Keys, NEW v \in Values, Write(k, v)
      PROVE  IInv' /\ Promise!Next
  BY <1>2, WriteStep DEF Promise!Next
<1>3. ASSUME NEW k \in Keys, NEW v \in Values, Increment(k, v)
      PROVE  IInv' /\ Promise!Next
  BY <1>3, IncrementStep DEF Promise!Next
<1>4. CASE Place \/ Move \/ ToStash \/ Added \/ Merge \/ Fail
  BY <1>4, InnerStep
<1>5. ASSUME NEW k \in Keys, Read(k)
      PROVE  IInv' /\ Promise!Next
  BY <1>5, ReadStep DEF Promise!Next
<1>6. ASSUME NEW k \in Keys, RemoveKey(k)
      PROVE  IInv' /\ Promise!Next
  BY <1>6, RemoveStep DEF Promise!Next
<1>7. CASE Count
  BY <1>7, CountStep DEF Promise!Next
<1>8. CASE EnumNew \/ EnumNext
  BY <1>8, EnumStep
<1> QED BY <1>1, <1>2, <1>3, <1>4, <1>5, <1>6, <1>7, <1>8 DEF Next

(* The invariant is one. *)
LEMMA Invariance == Spec => []IInv
<1>1. Init => IInv
  BY Initially
<1>2. IInv /\ [Next]_vars => IInv'
  BY Step
<1> QED BY <1>1, <1>2, PTL DEF Spec

(* Every variable of the table keeps its type: no entry is ever read where *)
(* there is none.                                                          *)
THEOREM TypeCorrect == Spec => []TypeOK
<1>1. IInv => TypeOK
  BY DEF IInv, PlaceInv
<1> QED BY <1>1, Invariance, PTL

(* Every entry of the table is at one of the two positions its hashes give *)
(* it, at whatever size the table has grown to, even while others are      *)
(* moved: a look-up tries no other.                                        *)
THEOREM EntriesAtHome == Spec => []AtHome
<1>1. IInv => AtHome
  BY DEF IInv, PlaceInv
<1> QED BY <1>1, Invariance, PTL

(* An enumeration during which entries may be removed gives no key twice,  *)
(* and gives all of them if nothing was removed (coucal_enum_next).        *)
THEOREM EnumerationSound == Spec => []EnumSound
<1>1. IInv => EnumSound
  BY DEF IInv, CursorInv, EnumSound
<1> QED BY <1>1, Invariance, PTL

(* The table is the map its callers take it for: what is written is read   *)
(* until it is written anew or removed, through every move, doubling and   *)
(* return from the stash, and its count is right.                          *)
THEOREM MapKept == Spec => MapPromise
<1>1. Init => Promise!Init
  BY Initially
<1>2. IInv /\ [Next]_vars => [Promise!Next]_(Promise!vars)
  BY Step
<1> QED BY <1>1, <1>2, Invariance, PTL DEF Spec, MapPromise, Promise!Spec

-----------------------------------------------------------------------------
(* How far a walk of moves goes *)

(* The position the entry in hand goes to. *)
Goal == hash % size

(* The entries that are counted take less than half of the table. *)
HalfFull == used < size \div 2

(* Positions that are taken, each of them named once. *)
Path(q, m) ==
  /\ q \in [1 .. m -> Positions]
  /\ \A i \in 1 .. m : ~Free(q[i])
  /\ \A i, j \in 1 .. m : q[i] = q[j] => i = j
On(q, m) == {q[i] : i \in 1 .. m}

(* The entry at each has come from the one before it. *)
LeadsBack(q, n) == \A i \in 2 .. n : BothPos(items[q[i]].key) = {q[i - 1], q[i]}

(* Positions that are taken by entries that have no others. *)
Closed(C) == \A p \in C : ~Free(p) /\ BothPos(items[p].key) \subseteq C

(* The walk goes out: it has met no position twice. *)
Outward(q, m) ==
  /\ Path(q, m) /\ LeadsBack(q, m) /\ loops + m = size
  /\ IF m = 0 THEN ~Free(Goal) ELSE BothPos(hand.key) = {q[m], Goal}

(* It has met one again, and goes back the way it has come. *)
Backward(q, m, j) ==
  /\ Path(q, m) /\ j \in 1 .. m /\ LeadsBack(q, j) /\ Goal = q[j]
  /\ size <= (loops + 2 * m) - j
  /\ BothPos(hand.key) \subseteq On(q, m)
  /\ \A i \in j + 1 .. m : BothPos(items[q[i]].key) \subseteq On(q, m)

(* It is back, and goes on from the other position of the first entry. *)
Beyond(C) ==
  /\ IsFiniteSet(C) /\ Closed(C)
  /\ BothPos(hand.key) \subseteq C \cup {Goal}
  /\ size <= loops + 2 * Cardinality(C)

(* It has met one of the positions behind it again: it finds no other. *)
Enclosed(C) == Closed(C) /\ BothPos(hand.key) \subseteq C

Walk ==
  \/ \E m \in Nat : \E q \in [1 .. m -> Positions] : Outward(q, m)
  \/ \E m \in Nat, j \in Nat : \E q \in [1 .. m -> Positions] : Backward(q, m, j)
  \/ \E C \in SUBSET Positions : Beyond(C) \/ Enclosed(C)

(* Both positions of a key are taken. *)
Taken(k) == \A p \in BothPos(k) : ~Free(p)
StashTaken == \A i \in DOMAIN stash : Taken(stash[i].key)

(* What is in the stash or goes there has both its positions taken. *)
WalkInv ==
  /\ HalfFull /\ StashTaken
  /\ pc = "move" => Walk /\ ~Free(first % size)
  /\ pc = "stash" => Taken(hand.key)

(* The positions stay the same while the table has the same size. *)
LEMMA SamePos ==
  ASSUME size' = size
  PROVE  Positions' = Positions /\ \A k : BothPos(k)' = BothPos(k)
BY DEF Positions, BothPos, Pos1, Pos2

(* The entry that is pushed out goes to its other position. *)
LEMMA KickIs ==
  ASSUME PlaceInv, NEW p \in Positions, ~Free(p), hand # None, pc = "move", loops # 0,
         KickFrom(p), UNCHANGED size
  PROVE  /\ items[p] \in Item /\ items'[p] = hand /\ hand' = items[p]
         /\ hand.key \in Keys /\ hand'.key \in Keys
         /\ \A r \in Positions : r # p => items'[r] = items[r]
         /\ \A r \in Positions : Free(r)' <=> Free(r)
         /\ BothPos(hand'.key) = {p, Goal'}
         /\ Goal' \in Positions /\ loops' = loops - 1 /\ loops' \in Nat
<1>0. hand \in Item /\ None \notin Item /\ Positions' = Positions
  BY NoneIsNothing DEF PlaceInv, TypeOK, Positions
<1>1. /\ items' = [items EXCEPT ![p] = hand] /\ items \in [Positions -> Item \cup {None}]
      /\ items[p] \in Item /\ items'[p] = hand
      /\ \A r \in Positions : r # p => items'[r] = items[r]
      /\ hand' = items[p]
  BY DEF PlaceInv, TypeOK, KickFrom, Free
<1>2. \A r \in Positions : Free(r)' <=> Free(r)
  BY <1>0, <1>1 DEF Free
<1>3. items[p].key \in Keys /\ hand.key \in Keys /\ p \in BothPos(items[p].key)
  BY <1>0, <1>1 DEF Item, PlaceInv, AtHome
<1>4. BothPos(items[p].key) = {p, Goal'}
  BY <1>1, <1>3 DEF KickFrom, Goal, BothPos, Pos1, Pos2
<1>5. Goal' \in Positions
  BY <1>3, <1>4, PosType DEF PlaceInv
<1>6. loops' = loops - 1 /\ loops' \in Nat
  BY DEF KickFrom, PlaceInv, TypeOK
<1> QED BY <1>1, <1>2, <1>3, <1>4, <1>5, <1>6

(* A position that has not been met is met. *)
LEMMA KickOutward ==
  ASSUME PlaceInv, hand # None, pc = "move", loops # 0, UNCHANGED size,
         NEW m \in Nat, NEW q \in [1 .. m -> Positions], Outward(q, m),
         NEW p \in Positions, p = Goal, ~Free(p), p \notin On(q, m), KickFrom(p)
  PROVE  Walk'
<1> DEFINE r == [i \in 1 .. m + 1 |-> IF i <= m THEN q[i] ELSE p]
<1>1. /\ items'[p] = hand
      /\ \A s \in Positions : s # p => items'[s] = items[s]
      /\ \A s \in Positions : Free(s)' <=> Free(s)
      /\ BothPos(hand'.key) = {p, Goal'} /\ loops' = loops - 1
      /\ hand.key \in Keys
  BY KickIs
<1>2. Positions' = Positions /\ \A k : BothPos(k)' = BothPos(k)
  BY SamePos
<1>3. /\ r \in [1 .. m + 1 -> Positions] /\ r[m + 1] = p
      /\ \A i \in 1 .. m : r[i] = q[i] /\ q[i] \in Positions /\ q[i] # p
  BY DEF On
<1> HIDE DEF r
<1>4. Path(r, m + 1)'
  <2>1. \A i \in 1 .. m : ~Free(q[i])
    BY DEF Outward, Path
  <2>2. \A i \in 1 .. m + 1 : ~Free(r[i])'
    <3> SUFFICES ASSUME NEW i \in 1 .. m + 1
                 PROVE  ~Free(r[i])'
      OBVIOUS
    <3>1. r[i] \in Positions /\ ~Free(r[i])
      BY <1>3, <2>1
    <3> QED BY <1>1, <3>1 DEF Free
  <2>3. \A i, j \in 1 .. m : q[i] = q[j] => i = j
    BY DEF Outward, Path
  <2>4. \A i, j \in 1 .. m + 1 : r[i] = r[j] => i = j
    BY <1>3, <2>3
  <2> QED BY <1>2, <1>3, <2>2, <2>4 DEF Path
<1>5. LeadsBack(r, m + 1)'
  <2> SUFFICES ASSUME NEW i \in 2 .. m + 1
               PROVE  BothPos(items'[r[i]].key) = {r[i - 1], r[i]}
    BY <1>2 DEF LeadsBack
  <2>1. CASE i \in 2 .. m
    <3>1. i \in 1 .. m /\ i - 1 \in 1 .. m
      BY <2>1
    <3>2. r[i] = q[i] /\ r[i - 1] = q[i - 1] /\ q[i] \in Positions /\ q[i] # p
      BY <1>3, <3>1
    <3>3. BothPos(items[q[i]].key) = {q[i - 1], q[i]}
      BY <2>1 DEF Outward, LeadsBack
    <3> QED BY <1>1, <3>2, <3>3
  <2>2. CASE i = m + 1
    <3>1. m # 0 /\ r[i] = p /\ r[i - 1] = q[m]
      BY <1>3, <2>2
    <3>2. BothPos(hand.key) = {q[m], p}
      BY <3>1 DEF Outward
    <3> QED BY <1>1, <3>1, <3>2
  <2> QED BY <2>1, <2>2
<1>6. (loops + (m + 1) = size)' /\ m + 1 # 0
  BY <1>1 DEF Outward, PlaceInv, TypeOK
<1>7. Outward(r, m + 1)'
  BY <1>1, <1>2, <1>3, <1>4, <1>5, <1>6 DEF Outward
<1> QED BY <1>2, <1>3, <1>7 DEF Walk

(* A walk that meets a position again goes back from there. *)
LEMMA TurnsBack ==
  ASSUME PlaceInv, NEW m \in Nat, NEW q \in [1 .. m -> Positions], Outward(q, m),
         Goal \in On(q, m)
  PROVE  \E j \in 1 .. m : Backward(q, m, j)
<1>1. PICK j \in 1 .. m : Goal = q[j]
  BY DEF On
<1>2. m # 0 /\ m \in 1 .. m
  BY <1>1
<1>3. BothPos(hand.key) = {q[m], q[j]}
  BY <1>1, <1>2 DEF Outward
<1>4. BothPos(hand.key) \subseteq On(q, m)
  BY <1>1, <1>2, <1>3 DEF On
<1>5. \A i \in j + 1 .. m : BothPos(items[q[i]].key) \subseteq On(q, m)
  <2> SUFFICES ASSUME NEW i \in j + 1 .. m
               PROVE  BothPos(items[q[i]].key) \subseteq On(q, m)
    OBVIOUS
  <2>1. i \in 2 .. m /\ i - 1 \in 1 .. m /\ i \in 1 .. m
    OBVIOUS
  <2>2. BothPos(items[q[i]].key) = {q[i - 1], q[i]}
    BY <2>1 DEF Outward, LeadsBack
  <2> QED BY <2>1, <2>2 DEF On
<1>6. LeadsBack(q, j)
  BY DEF Outward, LeadsBack
<1>7. size <= (loops + 2 * m) - j
  <2>1. loops \in Nat /\ size \in Nat /\ loops + m = size
    BY DEF PlaceInv, TypeOK, Outward
  <2> QED BY <2>1
<1> QED BY <1>1, <1>4, <1>5, <1>6, <1>7 DEF Backward, Outward

(* On its way back it meets the one before. *)
LEMMA KickBackward ==
  ASSUME PlaceInv, hand # None, pc = "move", loops # 0, UNCHANGED size,
         NEW m \in Nat, NEW j \in 1 .. m, NEW q \in [1 .. m -> Positions], Backward(q, m, j),
         NEW p \in Positions, p = Goal, KickFrom(p)
  PROVE  Walk'
<1>0. p = q[j] /\ ~Free(p) /\ j \in Nat /\ On(q, m) \subseteq Positions /\ p \in On(q, m)
  BY DEF Backward, Path, On
<1>1. /\ items'[p] = hand /\ hand' = items[p]
      /\ \A s \in Positions : s # p => items'[s] = items[s]
      /\ \A s \in Positions : Free(s)' <=> Free(s)
      /\ BothPos(hand'.key) = {p, Goal'} /\ loops' = loops - 1 /\ Goal' \in Positions
      /\ hand.key \in Keys
  BY <1>0, KickIs
<1>2. Positions' = Positions /\ (\A k : BothPos(k)' = BothPos(k)) /\ On(q, m)' = On(q, m)
  BY SamePos DEF On
<1>3. \A i \in 1 .. m : ~Free(q[i])' /\ q[i] \in Positions
  <2>1. \A i \in 1 .. m : ~Free(q[i]) /\ q[i] \in Positions
    BY DEF Backward, Path
  <2> QED BY <1>1, <2>1 DEF Free
<1>4. \A i, n \in 1 .. m : q[i] = q[n] => i = n
  BY DEF Backward, Path
<1>5. Path(q, m)'
  BY <1>2, <1>3, <1>4 DEF Path
<1>6. \A i \in j + 1 .. m : BothPos(items'[q[i]].key) \subseteq On(q, m)
  <2> SUFFICES ASSUME NEW i \in j + 1 .. m
               PROVE  BothPos(items'[q[i]].key) \subseteq On(q, m)
    OBVIOUS
  <2>1. i \in 1 .. m /\ i # j
    OBVIOUS
  <2>2. q[i] # p
    BY <1>0, <1>4, <2>1
  <2>3. items'[q[i]] = items[q[i]]
    BY <1>1, <1>3, <2>1, <2>2
  <2> QED BY <2>3 DEF Backward
<1>7. BothPos(items'[q[j]].key) \subseteq On(q, m)
  BY <1>0, <1>1 DEF Backward
<1>8. ASSUME NEW i \in 1 .. j - 1 PROVE items'[q[i]] = items[q[i]]
  <2>1. i \in 1 .. m /\ i # j
    OBVIOUS
  <2>2. q[i] # p
    BY <1>0, <1>4, <2>1
  <2> QED BY <1>1, <1>3, <2>1, <2>2
<1>9. CASE j # 1
  <2>1. PICK n \in 1 .. m : n = j - 1 /\ n \in Nat /\ j = n + 1
    BY <1>9
  <2>2. BothPos(items[q[j]].key) = {q[n], q[j]} /\ q[n] # q[j]
    <3>1. j \in 2 .. j /\ j - 1 = n /\ n # j
      BY <1>9, <2>1
    <3>2. BothPos(items[q[j]].key) = {q[j - 1], q[j]}
      BY <3>1 DEF Backward, LeadsBack
    <3> QED BY <1>4, <2>1, <3>1, <3>2
  <2>3. Goal' = q[n]
    BY <1>0, <1>1, <2>2
  <2>4. LeadsBack(q, n)'
    <3> SUFFICES ASSUME NEW i \in 2 .. n
                 PROVE  BothPos(items'[q[i]].key) = {q[i - 1], q[i]}
      BY <1>2 DEF LeadsBack
    <3>1. i \in 1 .. j - 1 /\ i \in 2 .. j
      BY <2>1
    <3> QED BY <1>8, <3>1 DEF Backward, LeadsBack
  <2>5. \A i \in n + 1 .. m : BothPos(items'[q[i]].key) \subseteq On(q, m)
    <3> SUFFICES ASSUME NEW i \in n + 1 .. m
                 PROVE  BothPos(items'[q[i]].key) \subseteq On(q, m)
      OBVIOUS
    <3>1. i = j \/ i \in j + 1 .. m
      BY <2>1
    <3> QED BY <1>6, <1>7, <3>1
  <2>6. (size <= (loops + 2 * m) - n)'
    <3>1. size <= (loops + 2 * m) - j /\ size' = size /\ loops \in Nat /\ size \in Nat
      BY DEF Backward, PlaceInv, TypeOK
    <3> QED BY <1>1, <2>1, <3>1
  <2>7. BothPos(hand'.key) \subseteq On(q, m)
    BY <1>0, <1>1, <2>3, <2>1 DEF On
  <2>8. Backward(q, m, n)'
    BY <1>2, <1>5, <2>1, <2>3, <2>4, <2>5, <2>6, <2>7 DEF Backward
  <2> QED BY <1>2, <2>1, <2>8 DEF Walk
<1>10. CASE j = 1
  <2> DEFINE C == On(q, m)
  <2>1. IsFiniteSet(C) /\ Cardinality(C) \in Nat /\ m <= Cardinality(C)
    <3>1. [i \in 1 .. m |-> q[i]] \in Surjection(1 .. m, C) \cap Injection(1 .. m, C)
      BY <1>4 DEF Surjection, Injection, IsInjective, On
    <3>2. IsFiniteSet(1 .. m) /\ Cardinality(1 .. m) = m
      BY FS_Interval
    <3> HIDE DEF C
    <3>3. IsFiniteSet(C)
      BY <3>1, <3>2, FS_Surjection
    <3>4. m <= Cardinality(C)
      BY <3>1, <3>2, <3>3, FS_Injection
    <3> QED BY <3>3, <3>4, FS_CardinalityType
  <2>2. Closed(C)'
    <3> SUFFICES ASSUME NEW s \in C
                 PROVE  ~Free(s)' /\ BothPos(items'[s].key) \subseteq C
      BY <1>2 DEF Closed
    <3>1. PICK i \in 1 .. m : s = q[i]
      BY DEF On
    <3>2. i = j \/ i \in j + 1 .. m
      BY <1>10
    <3> QED BY <1>3, <1>6, <1>7, <3>1, <3>2
  <2>3. BothPos(hand'.key) \subseteq C \cup {Goal'}
    BY <1>0, <1>1
  <2>4. (size <= loops + 2 * Cardinality(C))'
    <3>1. size <= (loops + 2 * m) - 1 /\ size' = size /\ loops \in Nat /\ size \in Nat
      BY <1>10 DEF Backward, PlaceInv, TypeOK
    <3>2. PICK c \in Nat : c = Cardinality(C) /\ m <= c
      BY <2>1
    <3>3. size <= (loops - 1) + 2 * c
      BY <3>1, <3>2
    <3> QED BY <1>1, <1>2, <3>1, <3>2, <3>3
  <2>5. Beyond(C)'
    BY <1>2, <2>1, <2>2, <2>3, <2>4 DEF Beyond
  <2> QED BY <1>0, <1>2, <2>5 DEF Walk
<1> QED BY <1>9, <1>10

(* A position beyond those is met. *)
LEMMA KickBeyond ==
  ASSUME PlaceInv, hand # None, pc = "move", loops # 0, UNCHANGED size,
         NEW C \in SUBSET Positions, Beyond(C),
         NEW p \in Positions, p = Goal, p \notin C, ~Free(p), KickFrom(p)
  PROVE  Walk'
<1> DEFINE D == C \cup {p}
<1>1. /\ items'[p] = hand
      /\ \A s \in Positions : s # p => items'[s] = items[s]
      /\ \A s \in Positions : Free(s)' <=> Free(s)
      /\ BothPos(hand'.key) = {p, Goal'} /\ loops' = loops - 1
      /\ hand.key \in Keys
  BY KickIs
<1>2. Positions' = Positions /\ \A k : BothPos(k)' = BothPos(k)
  BY SamePos
<1>3. IsFiniteSet(D) /\ Cardinality(D) = Cardinality(C) + 1 /\ Cardinality(C) \in Nat
  BY FS_AddElement, FS_CardinalityType DEF Beyond
<1>4. Closed(D)'
  <2> SUFFICES ASSUME NEW s \in D
               PROVE  ~Free(s)' /\ BothPos(items'[s].key) \subseteq D
    BY <1>2 DEF Closed
  <2>1. CASE s = p
    BY <1>1, <2>1 DEF Beyond
  <2>2. CASE s \in C
    <3>1. items'[s] = items[s] /\ ~Free(s)'
      BY <1>1, <2>2 DEF Beyond, Closed
    <3> QED BY <2>2, <3>1 DEF Beyond, Closed
  <2> QED BY <2>1, <2>2
<1>5. (size <= loops + 2 * Cardinality(D))'
  <2>1. size <= loops + 2 * Cardinality(C) /\ size' = size /\ loops \in Nat /\ size \in Nat
    BY DEF Beyond, PlaceInv, TypeOK
  <2>2. PICK c \in Nat : c = Cardinality(C)
    BY <1>3
  <2>3. size <= (loops - 1) + 2 * (c + 1)
    BY <2>1, <2>2
  <2>4. Cardinality(D)' = c + 1
    BY <1>3, <2>2
  <2> QED BY <1>1, <2>1, <2>3, <2>4
<1>6. BothPos(hand'.key) \subseteq D \cup {Goal'}
  BY <1>1
<1>7. Beyond(D)'
  BY <1>2, <1>3, <1>4, <1>5, <1>6 DEF Beyond
<1> QED BY <1>2, <1>7 DEF Walk

(* The walk cannot leave positions that are closed. *)
LEMMA KickEnclosed ==
  ASSUME PlaceInv, hand # None, pc = "move", loops # 0, UNCHANGED size,
         NEW C \in SUBSET Positions, Enclosed(C),
         NEW p \in C, ~Free(p), KickFrom(p)
  PROVE  Walk'
<1>1. /\ items'[p] = hand /\ hand' = items[p]
      /\ \A s \in Positions : s # p => items'[s] = items[s]
      /\ \A s \in Positions : Free(s)' <=> Free(s)
      /\ hand.key \in Keys
  BY KickIs
<1>2. Positions' = Positions /\ \A k : BothPos(k)' = BothPos(k)
  BY SamePos
<1>3. Closed(C)'
  <2> SUFFICES ASSUME NEW s \in C
               PROVE  ~Free(s)' /\ BothPos(items'[s].key) \subseteq C
    BY <1>2 DEF Closed
  <2>1. ~Free(s)'
    BY <1>1 DEF Enclosed, Closed
  <2>2. CASE s = p
    BY <1>1, <2>1, <2>2 DEF Enclosed
  <2>3. CASE s # p
    <3>1. items'[s] = items[s]
      BY <1>1, <2>3
    <3> QED BY <2>1, <3>1 DEF Enclosed, Closed
  <2> QED BY <2>2, <2>3
<1>4. BothPos(hand'.key) \subseteq C
  BY <1>1 DEF Enclosed, Closed
<1>5. Enclosed(C)'
  BY <1>2, <1>3, <1>4 DEF Enclosed
<1> QED BY <1>2, <1>5 DEF Walk

(* Positions of the table that are taken are fewer than half of it, while  *)
(* an entry is in hand.                                                    *)
LEMMA TakenAreFew ==
  ASSUME IInv, HalfFull, pc = "move",
         NEW C \in SUBSET Positions, \A p \in C : ~Free(p)
  PROVE  IsFiniteSet(C) /\ Cardinality(C) \in Nat /\ 2 * Cardinality(C) < size
<1> DEFINE others == KeySet \ {hand.key}
           f == [p \in C |-> items[p].key]
<1>1. /\ hand \in Item /\ hand.key \in Keys /\ hand # None
      /\ items \in [Positions -> Item \cup {None}]
  BY DEF IInv, PlaceInv, TypeOK, Item
<1>2. hand \in Entries
  BY <1>1 DEF Entries, Contained
<1>3. hand.key \in KeySet
  BY <1>1, <1>2 DEF KeySet
<1>4. ASSUME NEW p \in C PROVE items[p].key \in others
  <2>1. items[p] \in Item /\ items[p] # None /\ p \in Positions
    BY <1>1 DEF Free
  <2>2. items[p] \in Entries
    BY <2>1 DEF Entries, Contents
  <2>3. items[p].key # hand.key
    BY <1>1, <2>1 DEF IInv, PlaceInv, Distinct, HandApart, Free
  <2>4. items[p].key \in Keys
    BY <2>1 DEF Item
  <2> QED BY <2>2, <2>3, <2>4 DEF KeySet
<1>5. f \in Injection(C, others)
  <2>1. f \in [C -> others]
    BY <1>4
  <2>2. \A p, q \in C : items[p].key = items[q].key => p = q
    BY DEF IInv, PlaceInv, Distinct, DistinctTable
  <2> QED BY <2>1, <2>2 DEF Injection, IsInjective
<1>6. IsFiniteSet(KeySet) /\ Cardinality(KeySet) = used + Uncounted
  BY DEF IInv, Counted
<1>7. IsFiniteSet(others) /\ Cardinality(others) = Cardinality(KeySet) - 1
  BY <1>3, <1>6, FS_RemoveElement
<1>8. IsFiniteSet(C) /\ Cardinality(C) <= Cardinality(others)
  BY <1>5, <1>7, FS_Injection
<1>9. Cardinality(C) \in Nat
  BY <1>8, FS_CardinalityType
<1>10. PICK c \in Nat : c = Cardinality(C)
  BY <1>9
<1>11. c <= used /\ used \in Nat /\ size \in Nat
  <2>1. Uncounted \in {0, 1} /\ used \in Nat /\ size \in Nat
    BY DEF Uncounted, IInv, PlaceInv, TypeOK
  <2> QED BY <1>6, <1>7, <1>8, <1>10, <2>1
<1>12. 2 * c < size
  BY <1>11 DEF HalfFull
<1> QED BY <1>8, <1>9, <1>10, <1>12

(* So are those of a path. *)
LEMMA PathsAreShort ==
  ASSUME IInv, HalfFull, pc = "move",
         NEW m \in Nat, NEW q \in [1 .. m -> Positions], Path(q, m)
  PROVE  2 * m < size
<1> DEFINE C == On(q, m)
<1>1. C \in SUBSET Positions /\ \A p \in C : ~Free(p)
  BY DEF Path, On
<1>2. [i \in 1 .. m |-> q[i]] \in Injection(1 .. m, C)
  BY DEF Injection, IsInjective, On, Path
<1> HIDE DEF C
<1>3. IsFiniteSet(C) /\ Cardinality(C) \in Nat /\ 2 * Cardinality(C) < size
  BY <1>1, TakenAreFew
<1>4. Cardinality(1 .. m) = m
  BY FS_Interval
<1>5. m <= Cardinality(C)
  BY <1>2, <1>3, <1>4, FS_Injection
<1>6. size \in Nat
  BY DEF IInv, PlaceInv, TypeOK
<1> QED BY <1>3, <1>5, <1>6

(* A walk whose moves are used up has found no free position since there   *)
(* was none.                                                               *)
LEMMA UsedUp ==
  ASSUME IInv, WalkInv, pc = "move", loops = 0
  PROVE  Taken(hand.key)
<1>1. HalfFull /\ Walk
  BY DEF WalkInv
<1>2. size \in Nat
  BY DEF IInv, PlaceInv, TypeOK
<1>3. ASSUME NEW m \in Nat, NEW q \in [1 .. m -> Positions], Outward(q, m)
      PROVE  FALSE
  <2>1. 2 * m < size
    BY <1>1, <1>3, PathsAreShort DEF Outward
  <2>2. m = size
    BY <1>2, <1>3 DEF Outward
  <2> QED BY <1>2, <2>1, <2>2
<1>4. ASSUME NEW m \in Nat, NEW j \in Nat, NEW q \in [1 .. m -> Positions], Backward(q, m, j)
      PROVE  FALSE
  <2>1. 2 * m < size
    BY <1>1, <1>4, PathsAreShort DEF Backward
  <2>2. size <= (0 + 2 * m) - j
    BY <1>4 DEF Backward
  <2> QED BY <1>2, <2>1, <2>2
<1>5. ASSUME NEW C \in SUBSET Positions, Beyond(C)
      PROVE  FALSE
  <2>1. Cardinality(C) \in Nat /\ 2 * Cardinality(C) < size
    BY <1>1, <1>5, TakenAreFew DEF Beyond, Closed
  <2>2. size <= 0 + 2 * Cardinality(C)
    BY <1>5 DEF Beyond
  <2> QED BY <1>2, <2>1, <2>2
<1>6. ASSUME NEW C \in SUBSET Positions, Enclosed(C)
      PROVE  Taken(hand.key)
  BY <1>6 DEF Enclosed, Closed, Taken
<1> QED BY <1>1, <1>3, <1>4, <1>5, <1>6 DEF Walk

(* An entry pushed out keeps the walk what it is. *)
LEMMA KickWalks ==
  ASSUME PlaceInv, hand # None, pc = "move", loops # 0, UNCHANGED size, Walk,
         NEW p \in Positions, p = Goal, ~Free(p), KickFrom(p)
  PROVE  Walk'
<1>0. hand.key \in Keys /\ p \in BothPos(hand.key)
  <2>1. hand.key \in Keys /\ hash \in {Hash1[hand.key], Hash2[hand.key]}
    BY DEF PlaceInv, TypeOK, Item, Phases
  <2> QED BY <2>1 DEF Goal, BothPos, Pos1, Pos2
<1>1. ASSUME NEW m \in Nat, NEW j \in Nat, NEW q \in [1 .. m -> Positions], Backward(q, m, j)
      PROVE  Walk'
  BY <1>1, KickBackward DEF Backward
<1>2. ASSUME NEW m \in Nat, NEW q \in [1 .. m -> Positions], Outward(q, m)
      PROVE  Walk'
  <2>1. CASE p \in On(q, m)
    <3>1. PICK j \in 1 .. m : Backward(q, m, j)
      BY <1>2, <2>1, TurnsBack
    <3> QED BY <1>1, <3>1
  <2>2. CASE p \notin On(q, m)
    BY <1>2, <2>2, KickOutward
  <2> QED BY <2>1, <2>2
<1>3. ASSUME NEW C \in SUBSET Positions, Enclosed(C)
      PROVE  Walk'
  <2>1. p \in C
    BY <1>0, <1>3 DEF Enclosed
  <2> QED BY <1>3, <2>1, KickEnclosed
<1>4. ASSUME NEW C \in SUBSET Positions, Beyond(C)
      PROVE  Walk'
  <2>1. CASE p \in C
    <3>1. Enclosed(C)
      BY <1>4, <2>1 DEF Beyond, Enclosed
    <3> QED BY <1>3, <3>1
  <2>2. CASE p \notin C
    BY <1>4, <2>2, KickBeyond
  <2> QED BY <2>1, <2>2
<1> QED BY <1>1, <1>2, <1>3, <1>4 DEF Walk

(* The positions of the entries in the stash. *)
LEMMA StashPositions ==
  ASSUME PlaceInv
  PROVE  \A i \in DOMAIN stash : /\ stash[i].key \in Keys
                                 /\ BothPos(stash[i].key) \subseteq Positions
<1> SUFFICES ASSUME NEW i \in DOMAIN stash
             PROVE  stash[i].key \in Keys /\ BothPos(stash[i].key) \subseteq Positions
  OBVIOUS
<1>1. stash[i] \in Item
  BY StashType
<1>2. stash[i].key \in Keys
  BY <1>1 DEF Item
<1> QED BY <1>2, PosType DEF PlaceInv

(* What was in the stash still has both its positions taken, where no      *)
(* position is left.                                                       *)
LEMMA StaysTaken ==
  ASSUME PlaceInv, StashTaken, UNCHANGED size,
         \A p \in Positions : ~Free(p) => ~Free(p)',
         \A i \in DOMAIN stash' : \E j \in DOMAIN stash : stash'[i].key = stash[j].key
  PROVE  StashTaken'
<1>1. Positions' = Positions /\ \A k : BothPos(k)' = BothPos(k)
  BY SamePos
<1> SUFFICES ASSUME NEW i \in DOMAIN stash'
             PROVE  \A p \in BothPos(stash'[i].key) : ~Free(p)'
  BY <1>1 DEF StashTaken, Taken
<1>2. PICK j \in DOMAIN stash : stash'[i].key = stash[j].key
  OBVIOUS
<1>3. \A p \in BothPos(stash[j].key) : ~Free(p) /\ p \in Positions
  BY StashPositions DEF StashTaken, Taken
<1> QED BY <1>2, <1>3

(* A removal leaves the entries of the stash but one. *)
LEMMA ShorterStash ==
  ASSUME PlaceInv, NEW d \in 1 .. Len(stash), NEW t, t = RemoveAt(stash, d)
  PROVE  /\ DOMAIN t = 1 .. Len(t)
         /\ \A i \in DOMAIN t : \E j \in DOMAIN stash : t[i] = stash[j]
<1>1. PICK m \in Nat : m = Len(stash) /\ DOMAIN stash = 1 .. m
  BY StashType
<1>2. /\ t \in Seq(Item) /\ Len(t) = m - 1
      /\ \A j \in 1 .. Len(t) : t[j] = IF j < d THEN stash[j] ELSE stash[j + 1]
  BY <1>1, Removed, StashType
<1>3. DOMAIN t = 1 .. Len(t)
  BY <1>2, LenProperties
<1>4. ASSUME NEW i \in DOMAIN t PROVE \E j \in DOMAIN stash : t[i] = stash[j]
  <2>1. i \in 1 .. m /\ i + 1 \in 1 .. m /\ t[i] = IF i < d THEN stash[i] ELSE stash[i + 1]
    BY <1>1, <1>2, <1>3
  <2> QED BY <1>1, <2>1
<1> QED BY <1>3, <1>4

(* The entry in hand takes its place, or the moves begin. *)
LEMMA PlaceWalks ==
  ASSUME IInv, WalkInv, Place
  PROVE  WalkInv'
<1>1. /\ pc = "place" /\ hand \in Item /\ hand.key \in Keys /\ PlaceInv
      /\ UNCHANGED <<size, used>> /\ stash' = stash /\ Positions' = Positions
      /\ items \in [Positions -> Item \cup {None}] /\ None \notin Item
  BY NoneIsNothing DEF Place, PutAt, IInv, PlaceInv, TypeOK, Item, Positions
<1>2. Pos1(hand.key) \in Positions /\ Pos2(hand.key) \in Positions
  BY <1>1, PosType DEF PlaceInv
<1>3. HalfFull'
  BY <1>1 DEF WalkInv, HalfFull
<1>4. \A p \in Positions : ~Free(p) => ~Free(p)'
  BY <1>1, <1>2 DEF Place, PutAt, Free
<1>5. StashTaken'
  BY <1>1, <1>4, StaysTaken DEF WalkInv
<1>6. CASE pc' # "move"
  <2>1. pc' # "stash"
    BY <1>6 DEF Place, PutAt, Settled
  <2> QED BY <1>3, <1>5, <1>6, <2>1 DEF WalkInv
<1>7. CASE pc' = "move"
  <2>1. /\ ~Free(Pos1(hand.key)) /\ hash' = Hash1[hand.key] /\ first' = Hash1[hand.key]
        /\ loops' = size
    BY <1>7 DEF Place, PutAt, Settled
  <2>2. PICK r \in Positions : r = Pos1(hand.key)
    BY <1>2
  <2>3. Goal' = r /\ (first % size)' = r /\ items'[r] # None
    BY <1>1, <1>4, <2>1, <2>2 DEF Goal, Pos1, Free
  <2>4. 1 .. 0 = {} /\ 2 .. 0 = {}
    OBVIOUS
  <2>5. PICK q : q \in [1 .. 0 -> Positions]
    <3>1. [i \in 1 .. 0 |-> r] \in [1 .. 0 -> Positions]
      OBVIOUS
    <3> QED BY <3>1
  <2>7. Path(q, 0)' /\ LeadsBack(q, 0)'
    BY <1>1, <2>4, <2>5 DEF Path, LeadsBack
  <2>8. (loops + 0 = size)'
    BY <1>1, <2>1 DEF PlaceInv, TypeOK
  <2>9. Outward(q, 0)'
    BY <2>3, <2>7, <2>8 DEF Outward, Free
  <2>10. Walk'
    BY <1>1, <2>5, <2>9 DEF Walk
  <2>11. ~Free(first % size)'
    BY <2>3 DEF Free
  <2> QED BY <1>3, <1>5, <1>7, <2>10, <2>11 DEF WalkInv
<1> QED BY <1>6, <1>7

(* An entry is moved. *)
LEMMA MoveWalks ==
  ASSUME IInv, WalkInv, Move
  PROVE  WalkInv'
<1>1. /\ pc = "move" /\ hand \in Item /\ hand # None /\ hand.key \in Keys /\ loops # 0
      /\ UNCHANGED <<size, used>> /\ stash' = stash /\ PlaceInv /\ None \notin Item
      /\ items \in [Positions -> Item \cup {None}] /\ Positions' = Positions
  BY NoneIsNothing DEF Move, PutAt, KickFrom, IInv, PlaceInv, TypeOK, Item, Positions
<1>2. PICK p \in Positions : p = Goal
  <2>1. hash % size \in BothPos(hand.key)
    BY <1>1 DEF PlaceInv, Phases, BothPos, Pos1, Pos2
  <2> QED BY <1>1, <2>1, PosType DEF PlaceInv, Goal
<1>3. HalfFull' /\ Walk /\ ~Free(first % size)
  BY <1>1 DEF WalkInv, HalfFull
<1>4. CASE Free(p) /\ PutAt(p)
  <2>1. \A r \in Positions : ~Free(r) => ~Free(r)'
    BY <1>1, <1>4 DEF PutAt, Free
  <2>2. StashTaken'
    BY <1>1, <2>1, StaysTaken DEF WalkInv
  <2>3. pc' \in {"merge", "added"}
    BY <1>4 DEF PutAt, Settled
  <2> QED BY <1>3, <2>2, <2>3 DEF WalkInv
<1>5. CASE ~Free(p) /\ KickFrom(p)
  <2>1. /\ \A r \in Positions : Free(r)' <=> Free(r)
        /\ BothPos(hand'.key) = {p, Goal'} /\ Goal' \in Positions
    BY <1>1, <1>5, KickIs
  <2>2. StashTaken'
    BY <1>1, <2>1, StaysTaken DEF WalkInv
  <2>3. Walk'
    BY <1>1, <1>2, <1>3, <1>5, KickWalks
  <2>4. first' = first
    BY <1>5 DEF KickFrom
  <2>5. first % size \in Positions
    BY <1>1, HashesAreNumbers DEF PlaceInv, TypeOK, Positions
  <2>6. ~Free(first % size)'
    <3>1. PICK f \in Positions : f = first % size
      BY <2>5
    <3>2. (first % size)' = f /\ ~Free(f)'
      BY <1>1, <1>3, <2>1, <2>4, <3>1
    <3> QED BY <3>2 DEF Free
  <2>7. ASSUME pc' = "stash" PROVE Taken(hand.key)'
    <3>1. hash' = first
      <4>1. p \in BothPos(items[p].key)
        BY <1>1, <1>5 DEF PlaceInv, AtHome
      <4> QED BY <1>5, <2>7, <4>1 DEF KickFrom
    <3>2. Goal' = first % size
      BY <1>1, <3>1 DEF Goal
    <3>3. PICK g \in Positions : g = Goal' /\ ~Free(g)
      BY <1>3, <2>1, <3>2
    <3>4. ~Free(p)' /\ ~Free(g)'
      BY <1>5, <2>1, <3>3
    <3>5. BothPos(hand.key)' = {p, g}
      BY <1>1, <2>1, <3>3, SamePos
    <3> QED BY <3>4, <3>5 DEF Taken, Free
  <2> QED BY <1>3, <2>2, <2>3, <2>6, <2>7 DEF WalkInv
<1> QED BY <1>2, <1>4, <1>5 DEF Move, Goal

(* The entry in hand goes to the stash: none of its positions is free. *)
LEMMA StashWalks ==
  ASSUME IInv, WalkInv, ToStash
  PROVE  WalkInv'
<1>1. /\ PlaceInv /\ UNCHANGED <<size, used, items>> /\ stash' = Append(stash, hand)
      /\ hand \in Item /\ stash \in Seq(Item) /\ Positions' = Positions
      /\ pc' \in {"merge", "added"}
  BY DEF ToStash, Lost, Settled, IInv, PlaceInv, TypeOK, Positions
<1>2. Taken(hand.key)
  BY UsedUp DEF ToStash, Lost, WalkInv
<1>3. PICK n \in Nat : n = Len(stash)
  BY <1>1, LenProperties
<1>4. /\ DOMAIN stash = 1 .. n /\ DOMAIN stash' = 1 .. n + 1
      /\ stash'[n + 1] = hand /\ \A i \in 1 .. n : stash'[i] = stash[i]
  BY <1>1, <1>3, AppendProperties, LenProperties
<1>5. ASSUME NEW i \in DOMAIN stash' PROVE Taken(stash'[i].key)
  <2>1. i \in 1 .. n \/ i = n + 1
    BY <1>3, <1>4
  <2> QED BY <1>2, <1>4, <2>1 DEF WalkInv, StashTaken
<1>6. StashTaken'
  <2>1. (\A p : Free(p)' <=> Free(p)) /\ \A k : BothPos(k)' = BothPos(k)
    BY <1>1, SamePos DEF Free
  <2> QED BY <1>5, <2>1 DEF StashTaken, Taken
<1>7. HalfFull'
  BY <1>1 DEF WalkInv, HalfFull
<1> QED BY <1>1, <1>6, <1>7 DEF WalkInv

(* An entry is counted, and the table may grow. *)
LEMMA AddedWalks ==
  ASSUME IInv, WalkInv, Added
  PROVE  WalkInv'
<1>1. pc' \in {"idle", "merge"} /\ used' = used + 1 /\ used \in Nat /\ size \in Nat \ {0}
  BY DEF Added, IInv, PlaceInv, TypeOK
<1>2. CASE size' = 2 * size /\ stash' = <<>>
  <2>1. StashTaken'
    BY <1>2 DEF StashTaken
  <2>2. used < size \div 2
    BY DEF WalkInv, HalfFull
  <2>3. used + 1 < (2 * size) \div 2
    BY <1>1, <2>2
  <2>4. HalfFull'
    BY <1>1, <1>2, <2>3 DEF HalfFull
  <2> QED BY <1>1, <2>1, <2>4 DEF WalkInv
<1>3. CASE ~MustGrow /\ UNCHANGED <<items, size, stash>>
  <2>1. StashTaken'
    BY <1>3 DEF WalkInv, StashTaken, Taken, BothPos, Pos1, Pos2, Free
  <2>2. ~(used + 1 >= size \div 2)
    BY <1>3 DEF MustGrow
  <2>3. used + 1 < size \div 2
    BY <1>1, <2>2
  <2> QED BY <1>1, <1>3, <2>1, <2>3 DEF WalkInv, HalfFull
<1> QED BY <1>2, <1>3 DEF Added

(* A step that neither moves an entry nor changes where one is. *)
LEMMA StillWalks ==
  ASSUME WalkInv, UNCHANGED <<items, size, used, stash>>, pc' \notin {"move", "stash"}
  PROVE  WalkInv'
<1>1. HalfFull' /\ StashTaken'
  BY DEF WalkInv, HalfFull, StashTaken, Taken, BothPos, Pos1, Pos2, Free
<1> QED BY <1>1 DEF WalkInv

(* A value is written where its key is. *)
LEMMA SetWalks ==
  ASSUME IInv, WalkInv, pc = "idle", NEW k \in Keys, NEW v \in Values, SetValue(k, v),
         UNCHANGED <<size, used, call>>
  PROVE  WalkInv'
<1>1. /\ PlaceInv /\ pc' = "idle" /\ UNCHANGED <<size, used>> /\ None \notin Item
      /\ items \in [Positions -> Item \cup {None}]
      /\ stash \in Seq(Item) /\ DOMAIN stash = 1 .. Len(stash)
      /\ \A i \in 1 .. Len(stash) : stash[i] \in Item
  BY StashType, NoneIsNothing DEF IInv, PlaceInv, TypeOK, call
<1>2. HalfFull'
  BY <1>1 DEF WalkInv, HalfFull
<1>3. CASE InTable(k) /\ items' = [items EXCEPT ![TablePos(k)].value = v] /\ stash' = stash
  <2>1. PICK p \in Positions : p = TablePos(k) /\ items[p] \in Item
    BY <1>1, <1>3, Located
  <2>2. [items[p] EXCEPT !.value = v] # None
    <3>1. [items[p] EXCEPT !.value = v] \in Item
      BY <2>1 DEF Item
    <3> QED BY <1>1, <3>1
  <2>3. \A r \in Positions : ~Free(r) => ~Free(r)'
    BY <1>1, <1>3, <2>1, <2>2 DEF Free
  <2>4. StashTaken'
    BY <1>1, <1>3, <2>3, StaysTaken DEF WalkInv
  <2> QED BY <1>1, <1>2, <2>4 DEF WalkInv
<1>4. CASE InStash(k) /\ stash' = [stash EXCEPT ![StashPos(k)].value = v] /\ items' = items
  <2>1. \A i \in DOMAIN stash' : i \in DOMAIN stash /\ stash'[i].key = stash[i].key
    BY <1>1, <1>4 DEF Item
  <2>2. \A r \in Positions : ~Free(r) => ~Free(r)'
    BY <1>4 DEF Free
  <2>3. StashTaken'
    BY <1>1, <2>1, <2>2, StaysTaken DEF WalkInv
  <2> QED BY <1>1, <1>2, <2>3 DEF WalkInv
<1> QED BY <1>3, <1>4 DEF SetValue

(* An entry is removed: if one of the stash could take its place, it does. *)
LEMMA RemoveWalks ==
  ASSUME IInv, WalkInv, NEW k \in Keys, RemoveKey(k), IInv'
  PROVE  WalkInv'
<1>1. /\ PlaceInv /\ pc' = "idle" /\ UNCHANGED size /\ None \notin Item
      /\ items \in [Positions -> Item \cup {None}]
      /\ used \in Nat /\ size \in Nat /\ (used' = used - 1 \/ used' = used)
  BY NoneIsNothing DEF RemoveKey, Idle, call, table, IInv, PlaceInv, TypeOK
<1>2. HalfFull'
  BY <1>1 DEF WalkInv, HalfFull
<1>3. CASE UNCHANGED <<table, strings, cursor>>
  BY <1>1, <1>3, StillWalks DEF table
<1>4. CASE RemoveFromStash(k)
  <2>1. PICK d \in 1 .. Len(stash) : d = StashPos(k)
    BY <1>1, <1>4, Located DEF RemoveFromStash, InStash
  <2>2. stash' = RemoveAt(stash, d) /\ items' = items
    BY <1>4, <2>1 DEF RemoveFromStash
  <2>3. \A i \in DOMAIN stash' : \E j \in DOMAIN stash : stash'[i].key = stash[j].key
    BY <1>1, <2>2, ShorterStash
  <2>4. \A r \in Positions : ~Free(r) => ~Free(r)'
    BY <2>2 DEF Free
  <2>5. StashTaken'
    BY <1>1, <2>3, <2>4, StaysTaken DEF WalkInv
  <2> QED BY <1>1, <1>2, <2>5 DEF WalkInv
<1>5. CASE RemoveFromTable(k)
  <2>1. PICK p \in Positions : p = TablePos(k)
    BY <1>1, <1>5, Located DEF RemoveFromTable
  <2>2. Unstash(p, [items EXCEPT ![p] = None])
    BY <1>5, <2>1 DEF RemoveFromTable
  <2>3. CASE Fitting(p) = {}
    <3>1. items' = [items EXCEPT ![p] = None] /\ stash' = stash
      BY <2>2, <2>3 DEF Unstash
    <3>2. Positions' = Positions /\ \A x : BothPos(x)' = BothPos(x)
      BY <1>1, SamePos
    <3>3. ASSUME NEW i \in DOMAIN stash, NEW r \in BothPos(stash[i].key)
          PROVE  items'[r] # None
      <4>1. r # p
        BY <2>3 DEF Fitting
      <4>2. r \in Positions /\ items[r] # None
        BY <1>1, StashPositions DEF WalkInv, StashTaken, Taken, Free
      <4> QED BY <1>1, <3>1, <4>1, <4>2
    <3>4. StashTaken'
      BY <3>1, <3>2, <3>3 DEF StashTaken, Taken, Free
    <3> QED BY <1>1, <1>2, <3>4 DEF WalkInv
  <2>4. CASE Fitting(p) # {}
    <3>1. Least(Fitting(p)) \in 1 .. Len(stash)
      BY <1>1, <2>4, LeastOf, StashType DEF Fitting
    <3>2. PICK d \in 1 .. Len(stash) : d = Least(Fitting(p)) /\ stash[d] \in Item
      BY <1>1, <3>1, StashType
    <3>3. items' = [items EXCEPT ![p] = stash[d]] /\ stash' = RemoveAt(stash, d)
      BY <1>1, <2>2, <2>4, <3>2 DEF Unstash
    <3>4. \A i \in DOMAIN stash' : \E j \in DOMAIN stash : stash'[i].key = stash[j].key
      BY <1>1, <3>3, ShorterStash
    <3>5. \A r \in Positions : ~Free(r) => ~Free(r)'
      BY <1>1, <3>2, <3>3 DEF Free
    <3>6. StashTaken'
      BY <1>1, <3>4, <3>5, StaysTaken DEF WalkInv
    <3> QED BY <1>1, <1>2, <3>6 DEF WalkInv
  <2> QED BY <2>3, <2>4
<1> QED BY <1>3, <1>4, <1>5 DEF RemoveKey

(* Every step keeps it. *)
LEMMA WalkStep ==
  ASSUME IInv, IInv', WalkInv, [Next]_vars
  PROVE  WalkInv'
<1>1. CASE UNCHANGED vars
  <2>1. UNCHANGED <<items, size, used, stash, pc, hand, hash, first, loops>>
    BY <1>1 DEF vars
  <2>2. CASE pc \in {"move", "stash"}
    <3>1. /\ Positions' = Positions /\ Goal' = Goal /\ \A k : BothPos(k)' = BothPos(k)
          /\ \A p : Free(p)' <=> Free(p)
      BY <2>1, SamePos DEF Goal, Free
    <3>2. \A q, n : (LeadsBack(q, n)' <=> LeadsBack(q, n)) /\ (Path(q, n)' <=> Path(q, n))
      BY <2>1, <3>1 DEF LeadsBack, Path
    <3>3. \A C : Closed(C)' <=> Closed(C)
      BY <2>1, <3>1 DEF Closed
    <3>4. \A m, q : Outward(q, m)' <=> Outward(q, m)
      BY <2>1, <3>1, <3>2 DEF Outward
    <3>5. \A m, j, q : Backward(q, m, j)' <=> Backward(q, m, j)
      BY <2>1, <3>1, <3>2 DEF Backward
    <3>6. \A C : (Beyond(C)' <=> Beyond(C)) /\ (Enclosed(C)' <=> Enclosed(C))
      BY <2>1, <3>1, <3>3 DEF Beyond, Enclosed
    <3>7. Walk' <=> Walk
      BY <3>1, <3>4, <3>5, <3>6 DEF Walk
    <3>8. HalfFull' /\ StashTaken'
      BY <2>1, <3>1 DEF WalkInv, HalfFull, StashTaken, Taken
    <3>9. pc = "stash" => Taken(hand.key)'
      BY <2>1, <3>1 DEF WalkInv, Taken
    <3>10. pc = "move" => Walk' /\ ~Free(first % size)'
      BY <2>1, <3>7 DEF WalkInv, Free
    <3> QED BY <2>1, <3>8, <3>9, <3>10 DEF WalkInv
  <2> QED BY <2>1, <2>2, StillWalks
<1>2. ASSUME NEW k \in Keys, NEW v \in Values, Write(k, v) \/ Increment(k, v)
      PROVE  WalkInv'
  <2>1. pc = "idle"
    BY <1>2 DEF Write, Increment, Idle
  <2>2. CASE \E w : Insert(k, w)
    BY <2>2, StillWalks DEF Insert, table
  <2>3. ASSUME NEW w \in Values, SetValue(k, w), UNCHANGED <<size, used, strings, call, cursor>>
        PROVE  WalkInv'
    BY <2>1, <2>3, SetWalks
  <2>4. Present(k) => (Fetch(k) + v) % Cardinality(Values) \in Values
    BY <2>1, WrapsAround
  <2>5. \A w : SetValue(k, w) => Present(k)
    BY DEF SetValue, Present
  <2>6. CASE Write(k, v)
    BY <2>2, <2>3, <2>6 DEF Write
  <2>7. CASE Increment(k, v)
    BY <2>2, <2>3, <2>4, <2>5, <2>7 DEF Increment
  <2> QED BY <1>2, <2>6, <2>7
<1>3. CASE Merge
  BY <1>3, StillWalks DEF Merge, table
<1>4. CASE Fail
  BY <1>4, StillWalks DEF Fail, table
<1>5. ASSUME NEW k \in Keys, Read(k)
      PROVE  WalkInv'
  BY <1>5, StillWalks DEF Read, Idle, table, call
<1>6. CASE Count \/ EnumNew \/ EnumNext
  BY <1>6, StillWalks DEF Count, EnumNew, EnumNext, Idle, table, call
<1> QED BY <1>1, <1>2, <1>3, <1>4, <1>5, <1>6, PlaceWalks, MoveWalks, StashWalks, AddedWalks,
           RemoveWalks DEF Next

(* The table is large enough for no walk to end too early. *)
LEMMA WalkInvariance == Spec => []WalkInv
<1>1. Init => WalkInv
  <2> SUFFICES ASSUME Init PROVE WalkInv
    OBVIOUS
  <2>1. size \in Nat \ {0, 1} /\ used = 0 /\ pc = "idle" /\ stash = <<>>
    BY SizesArePositive DEF Init
  <2>2. DOMAIN stash = {}
    BY <2>1, EmptySeq
  <2>3. HalfFull
    BY <2>1 DEF HalfFull
  <2> QED BY <2>1, <2>2, <2>3 DEF WalkInv, StashTaken
<1>2. IInv /\ IInv' /\ WalkInv /\ [Next]_vars => WalkInv'
  BY WalkStep
<1> QED BY <1>1, <1>2, Invariance, PTL DEF Spec

(* An entry is in the stash only because both its positions are taken: the *)
(* moves, as many as the table has positions, find a free one if there is  *)
(* one to be found, since the table is less than half full                 *)
(* (coucal_add_item_), and a removal or a doubling brings back every entry *)
(* it makes room for.                                                      *)
THEOREM StashOnlyIfTaken == Spec => []Placed
<1>1. IInv /\ WalkInv => Placed
  <2> SUFFICES ASSUME IInv, WalkInv PROVE Placed
    OBVIOUS
  <2>1. \A i \in DOMAIN stash : ~Free(Pos1(stash[i].key)) /\ ~Free(Pos2(stash[i].key))
    BY DEF WalkInv, StashTaken, Taken, BothPos
  <2> QED BY <2>1 DEF Placed, IInv, PlaceInv
<1> QED BY <1>1, Invariance, WalkInvariance, PTL

-----------------------------------------------------------------------------
(* Strings in a pool *)

(* The bytes that the strings of K take, f being where each starts. *)
Reach(f, K) == UNION {f[k] .. f[k] + Bytes[k] - 1 : k \in K}

(* They lie apart. *)
ApartIn(f, K) ==
  \A k, l \in K : k # l => f[k] + Bytes[k] <= f[l] \/ f[l] + Bytes[l] <= f[k]

(* They lie apart below the mark s, take u bytes, and there is room for c. *)
Sound(f, K, s, u, c) ==
  /\ K \subseteq Keys /\ f \in [K -> Nat] /\ s \in Nat /\ c \in Nat /\ s <= c
  /\ ApartIn(f, K)
  /\ \A k \in K : f[k] + Bytes[k] <= s
  /\ u = Cardinality(Reach(f, K))

(* The length of a string is a positive number. *)
LEMMA BytesType ==
  ASSUME NEW k \in Keys
  PROVE  Bytes[k] \in Nat \ {0}
BY BytesArePositive

(* A string takes as many bytes as it is long. *)
LEMMA SpanSize ==
  ASSUME NEW a \in Nat, NEW n \in Nat \ {0}
  PROVE  IsFiniteSet(a .. a + n - 1) /\ Cardinality(a .. a + n - 1) = n
<1>1. PICK b \in Int : b = a + n - 1
  OBVIOUS
<1>2. IsFiniteSet(a .. b) /\ Cardinality(a .. b) = IF a > b THEN 0 ELSE b - a + 1
  BY FS_Interval
<1>3. Cardinality(a .. b) = n
  BY <1>1, <1>2
<1> QED BY <1>1, <1>2, <1>3

(* What the bytes are. *)
LEMMA ReachIs ==
  ASSUME NEW K, K \subseteq Keys, NEW f \in [K -> Nat], NEW x
  PROVE  x \in Reach(f, K) <=> \E k \in K : x \in f[k] .. f[k] + Bytes[k] - 1
BY DEF Reach

(* They are finitely many, and not more than lie below the mark. *)
LEMMA ReachBelow ==
  ASSUME NEW K, K \subseteq Keys, NEW f \in [K -> Nat], NEW s \in Nat,
         \A k \in K : f[k] + Bytes[k] <= s
  PROVE  /\ Reach(f, K) \subseteq 0 .. s - 1
         /\ IsFiniteSet(Reach(f, K)) /\ Cardinality(Reach(f, K)) <= s
<1>1. Reach(f, K) \subseteq 0 .. s - 1
  <2> SUFFICES ASSUME NEW x \in Reach(f, K)
               PROVE  x \in 0 .. s - 1
    OBVIOUS
  <2>1. PICK k \in K : x \in f[k] .. f[k] + Bytes[k] - 1
    BY ReachIs
  <2>2. f[k] \in Nat /\ Bytes[k] \in Nat /\ f[k] + Bytes[k] <= s
    BY BytesType
  <2> QED BY <2>1, <2>2
<1>2. IsFiniteSet(0 .. s - 1) /\ Cardinality(0 .. s - 1) = s
  <2>1. 0 \in Int /\ s - 1 \in Int
    OBVIOUS
  <2> QED BY <2>1, FS_Interval
<1> QED BY <1>1, <1>2, FS_Subset

(* The same of a pool. *)
LEMMA ReachFinite ==
  ASSUME NEW f, NEW K, NEW s, NEW u, NEW c, Sound(f, K, s, u, c)
  PROVE  /\ Reach(f, K) \subseteq 0 .. s - 1
         /\ IsFiniteSet(Reach(f, K)) /\ u \in Nat /\ u <= s
<1>1. /\ s \in Nat /\ K \subseteq Keys /\ f \in [K -> Nat] /\ u = Cardinality(Reach(f, K))
      /\ \A k \in K : f[k] + Bytes[k] <= s
  BY DEF Sound
<1> QED BY <1>1, ReachBelow, FS_CardinalityType

(* A string comes above all of them. *)
LEMMA SoundAdded ==
  ASSUME NEW f, NEW K, NEW s, NEW u, NEW c, Sound(f, K, s, u, c),
         NEW k \in Keys \ K, s + Bytes[k] <= c,
         NEW g, g = [x \in K \cup {k} |-> IF x = k THEN s ELSE f[x]]
  PROVE  Sound(g, K \cup {k}, s + Bytes[k], u + Bytes[k], c)
<1>1. /\ s \in Nat /\ c \in Nat /\ K \subseteq Keys /\ f \in [K -> Nat]
      /\ u = Cardinality(Reach(f, K)) /\ Bytes[k] \in Nat \ {0}
      /\ \A x \in K : Bytes[x] \in Nat /\ f[x] \in Nat
  BY BytesType DEF Sound
<1>2. /\ K \cup {k} \subseteq Keys /\ g \in [K \cup {k} -> Nat]
      /\ g[k] = s /\ \A x \in K : x # k /\ g[x] = f[x]
  BY <1>1
<1>3. ApartIn(g, K \cup {k})
  <2>1. \A x \in K : f[x] + Bytes[x] <= s
    BY DEF Sound
  <2>2. ApartIn(f, K)
    BY DEF Sound
  <2> QED BY <1>2, <2>1, <2>2 DEF ApartIn
<1>4. \A x \in K \cup {k} : g[x] + Bytes[x] <= s + Bytes[k]
  <2>1. \A x \in K : f[x] + Bytes[x] <= s
    BY DEF Sound
  <2>2. \A x \in K : f[x] + Bytes[x] <= s + Bytes[k]
    BY <1>1, <2>1
  <2> QED BY <1>1, <1>2, <2>2
<1>5. u + Bytes[k] = Cardinality(Reach(g, K \cup {k}))
  <2> DEFINE T == s .. s + Bytes[k] - 1
  <2>1. Reach(g, K \cup {k}) = Reach(f, K) \cup T
    BY <1>2 DEF Reach
  <2>2. IsFiniteSet(T) /\ Cardinality(T) = Bytes[k]
    BY <1>1, SpanSize
  <2>3. Reach(f, K) \subseteq 0 .. s - 1 /\ IsFiniteSet(Reach(f, K)) /\ u \in Nat
    BY ReachFinite
  <2>4. Reach(f, K) \cap T = {}
    BY <1>1, <2>3
  <2>5. Cardinality(Reach(f, K) \cap T) = 0
    BY <2>4, FS_EmptySet
  <2> HIDE DEF T
  <2>6. Cardinality(Reach(f, K) \cup T) = u + Bytes[k] - 0
    BY <1>1, <2>2, <2>3, <2>5, FS_Union
  <2>7. u + Bytes[k] - 0 = u + Bytes[k]
    BY <1>1, <2>3
  <2> QED BY <2>1, <2>6, <2>7
<1> QED BY <1>1, <1>2, <1>3, <1>4, <1>5 DEF Sound

(* One of them is freed. *)
LEMMA SoundLess ==
  ASSUME NEW f, NEW K, NEW s, NEW u, NEW c, Sound(f, K, s, u, c), NEW k \in K,
         NEW g, g = [x \in K \ {k} |-> f[x]]
  PROVE  Sound(g, K \ {k}, s, u - Bytes[k], c)
<1>1. /\ s \in Nat /\ c \in Nat /\ K \subseteq Keys /\ f \in [K -> Nat]
      /\ u = Cardinality(Reach(f, K)) /\ Bytes[k] \in Nat \ {0}
      /\ \A x \in K : Bytes[x] \in Nat /\ f[x] \in Nat
  BY BytesType DEF Sound
<1>2. /\ K \ {k} \subseteq Keys /\ g \in [K \ {k} -> Nat]
      /\ \A x \in K \ {k} : g[x] = f[x]
  BY <1>1
<1>3. ApartIn(g, K \ {k}) /\ \A x \in K \ {k} : g[x] + Bytes[x] <= s
  BY <1>2 DEF Sound, ApartIn
<1>4. u - Bytes[k] = Cardinality(Reach(g, K \ {k}))
  <2> DEFINE T == f[k] .. f[k] + Bytes[k] - 1
             R == Reach(g, K \ {k})
  <2>1. Reach(f, K) = R \cup T
    BY <1>2 DEF Reach
  <2>2. IsFiniteSet(T) /\ Cardinality(T) = Bytes[k]
    BY <1>1, SpanSize
  <2>3. IsFiniteSet(Reach(f, K)) /\ u \in Nat
    BY ReachFinite
  <2>4. IsFiniteSet(R)
    BY <2>1, <2>3, FS_Subset
  <2>5. R \cap T = {}
    <3> SUFFICES ASSUME NEW x \in R, x \in T
                 PROVE  FALSE
      OBVIOUS
    <3>1. PICK l \in K \ {k} : x \in g[l] .. g[l] + Bytes[l] - 1
      BY <1>2, ReachIs
    <3>2. f[k] + Bytes[k] <= f[l] \/ f[l] + Bytes[l] <= f[k]
      BY DEF Sound, ApartIn
    <3>3. x \in f[l] .. f[l] + Bytes[l] - 1
      BY <1>2, <3>1
    <3> QED BY <1>1, <3>2, <3>3
  <2>6. Cardinality(R \cap T) = 0
    BY <2>5, FS_EmptySet
  <2> HIDE DEF T, R
  <2>7. Cardinality(Reach(f, K)) = Cardinality(R) + Cardinality(T) - 0
    BY <2>1, <2>2, <2>4, <2>6, FS_Union
  <2>8. Cardinality(R) \in Nat
    BY <2>4, FS_CardinalityType
  <2>9. u - Bytes[k] = Cardinality(R)
    BY <1>1, <2>2, <2>7, <2>8
  <2> QED BY <2>9 DEF R
<1> QED BY <1>1, <1>2, <1>3, <1>4 DEF Sound

(* A walk through n places meets the strings of K, each of them once. *)
PassOf(w, n, K) ==
  /\ n \in Nat /\ DOMAIN w = 0 .. n - 1
  /\ \A i \in Named(w) : w[i].key \in Keys
  /\ K = {w[i].key : i \in Named(w)}
  /\ \A i, j \in Named(w) : w[i].key = w[j].key => i = j

(* The bytes before a place are those of the strings met before it. *)
LEMMA CopiedIs ==
  ASSUME NEW w, NEW m, NEW x
  PROVE  x \in Copied(w, m) <=>
           \E i \in Named(w) : i < m /\ \E b \in 1 .. Bytes[w[i].key] : x = <<i, b>>
BY DEF Copied

(* Strings that lie apart have no byte in common. *)
LEMMA NoneInCommon ==
  ASSUME NEW p \in Nat, NEW l \in Nat, NEW q \in Nat, NEW m \in Nat,
         NEW b \in 1 .. l, NEW d \in 1 .. m, p + b - 1 = q + d - 1
  PROVE  /\ ~(p + l <= q) /\ ~(q + m <= p)
         /\ p = q => b = d
OBVIOUS

(* A walk copies as many bytes as the strings take, wherever they are. *)
LEMMA Copying ==
  ASSUME NEW w, NEW n, NEW K, PassOf(w, n, K),
         NEW f \in [K -> Nat], ApartIn(f, K), IsFiniteSet(Reach(f, K))
  PROVE  /\ IsFiniteSet(Copied(w, n))
         /\ Cardinality(Copied(w, n)) = Cardinality(Reach(f, K))
<1>1. /\ n \in Nat /\ K \subseteq Keys /\ Named(w) \subseteq 0 .. n - 1
      /\ \A i \in Named(w) : /\ w[i].key \in K /\ Bytes[w[i].key] \in Nat \ {0}
                             /\ f[w[i].key] \in Nat /\ i < n
      /\ \A k \in K : \E i \in Named(w) : w[i].key = k
  <2>1. n \in Nat /\ K \subseteq Keys /\ Named(w) \subseteq 0 .. n - 1
    BY DEF PassOf, Named
  <2>2. \A i \in Named(w) : w[i].key \in K
    BY DEF PassOf
  <2>3. \A k \in K : \E i \in Named(w) : w[i].key = k
    BY DEF PassOf
  <2> QED BY <2>1, <2>2, <2>3, BytesType
<1> DEFINE phi == [x \in Copied(w, n) |-> f[w[x[1]].key] + x[2] - 1]
<1>2. ASSUME NEW i \in Named(w), NEW b \in 1 .. Bytes[w[i].key]
      PROVE  /\ <<i, b>> \in Copied(w, n) /\ phi[<<i, b>>] = f[w[i].key] + b - 1
             /\ phi[<<i, b>>] \in f[w[i].key] .. f[w[i].key] + Bytes[w[i].key] - 1
  <2>1. <<i, b>> \in Copied(w, n)
    BY <1>1, CopiedIs
  <2>2. phi[<<i, b>>] = f[w[i].key] + b - 1
    BY <2>1
  <2> QED BY <1>1, <2>1, <2>2
<1>3. \A x \in Copied(w, n) :
        \E i \in Named(w) : \E b \in 1 .. Bytes[w[i].key] : x = <<i, b>>
  BY CopiedIs
<1>a. phi = [x \in Copied(w, n) |-> phi[x]]
  OBVIOUS
<1> HIDE DEF phi
<1>4. \A x \in Copied(w, n) : phi[x] \in Reach(f, K)
  <2> SUFFICES ASSUME NEW x \in Copied(w, n)
               PROVE  phi[x] \in Reach(f, K)
    OBVIOUS
  <2>1. PICK i \in Named(w) : \E b \in 1 .. Bytes[w[i].key] : x = <<i, b>>
    BY <1>3
  <2>2. phi[x] \in f[w[i].key] .. f[w[i].key] + Bytes[w[i].key] - 1
    BY <1>2, <2>1
  <2> QED BY <1>1, <2>2, ReachIs
<1>5. ASSUME NEW x \in Copied(w, n), NEW y \in Copied(w, n), phi[x] = phi[y]
      PROVE  x = y
  <2>1a. PICK i \in Named(w) : \E b \in 1 .. Bytes[w[i].key] : x = <<i, b>>
    BY <1>3
  <2>1. PICK b \in 1 .. Bytes[w[i].key] : x = <<i, b>>
    BY <2>1a
  <2>2a. PICK j \in Named(w) : \E d \in 1 .. Bytes[w[j].key] : y = <<j, d>>
    BY <1>3
  <2>2. PICK d \in 1 .. Bytes[w[j].key] : y = <<j, d>>
    BY <2>2a
  <2>3. /\ phi[x] = f[w[i].key] + b - 1 /\ phi[y] = f[w[j].key] + d - 1
    BY <1>2, <2>1, <2>2
  <2>4. /\ ~(f[w[i].key] + Bytes[w[i].key] <= f[w[j].key])
        /\ ~(f[w[j].key] + Bytes[w[j].key] <= f[w[i].key])
        /\ f[w[i].key] = f[w[j].key] => b = d
    <3>1. /\ f[w[i].key] \in Nat /\ f[w[j].key] \in Nat
          /\ Bytes[w[i].key] \in Nat /\ Bytes[w[j].key] \in Nat
      BY <1>1
    <3>2. f[w[i].key] + b - 1 = f[w[j].key] + d - 1
      BY <1>5, <2>3
    <3> QED BY ONLY <3>1, <3>2, NoneInCommon
  <2>5. w[i].key = w[j].key
    <3> SUFFICES ASSUME w[i].key # w[j].key
                 PROVE  FALSE
      OBVIOUS
    <3>1. \/ f[w[i].key] + Bytes[w[i].key] <= f[w[j].key]
          \/ f[w[j].key] + Bytes[w[j].key] <= f[w[i].key]
      BY <1>1 DEF ApartIn
    <3> QED BY <2>4, <3>1
  <2>6. i = j
    BY <2>5 DEF PassOf
  <2> QED BY <2>1, <2>2, <2>4, <2>6
<1>6. \A z \in Reach(f, K) : \E x \in Copied(w, n) : phi[x] = z
  <2> SUFFICES ASSUME NEW z \in Reach(f, K)
               PROVE  \E x \in Copied(w, n) : phi[x] = z
    OBVIOUS
  <2>1. PICK k \in K : z \in f[k] .. f[k] + Bytes[k] - 1
    BY <1>1, ReachIs
  <2>2. PICK i \in Named(w) : w[i].key = k
    BY <1>1
  <2>3. z - f[k] + 1 \in 1 .. Bytes[w[i].key] /\ f[k] + (z - f[k] + 1) - 1 = z
    BY <1>1, <2>1, <2>2
  <2> QED BY <1>2, <2>2, <2>3
<1>7. phi \in [Copied(w, n) -> Reach(f, K)]
  BY <1>4, <1>a
<1>8. phi \in Injection(Copied(w, n), Reach(f, K))
  BY <1>5, <1>7 DEF Injection, IsInjective
<1>9. phi \in Surjection(Copied(w, n), Reach(f, K))
  BY <1>6, <1>7 DEF Surjection
<1> QED BY <1>8, <1>9, FS_Injection

(* A string is copied before those that come later. *)
LEMMA CopiedStep ==
  ASSUME NEW w, NEW n, NEW K, PassOf(w, n, K), IsFiniteSet(Copied(w, n)),
         NEW i \in Named(w), NEW m \in 0 .. n, i < m
  PROVE  /\ Cardinality(Copied(w, i)) \in Nat /\ Cardinality(Copied(w, m)) \in Nat
         /\ Cardinality(Copied(w, i)) + Bytes[w[i].key] <= Cardinality(Copied(w, m))
<1> DEFINE T == {i} \X (1 .. Bytes[w[i].key])
<1>1. /\ n \in Nat /\ Named(w) \subseteq 0 .. n - 1 /\ Bytes[w[i].key] \in Nat \ {0}
  BY BytesType DEF PassOf, Named
<1>2. Copied(w, i) \subseteq Copied(w, n) /\ Copied(w, m) \subseteq Copied(w, n)
  BY <1>1 DEF Copied
<1>3. IsFiniteSet(Copied(w, i)) /\ IsFiniteSet(Copied(w, m))
  BY <1>2, FS_Subset
<1>4. IsFiniteSet(T) /\ Cardinality(T) = Bytes[w[i].key]
  <2>1. IsFiniteSet({i}) /\ Cardinality({i}) = 1
    BY FS_Singleton
  <2>2. IsFiniteSet(1 .. Bytes[w[i].key]) /\ Cardinality(1 .. Bytes[w[i].key]) = Bytes[w[i].key]
    <3>1. PICK l \in Nat \ {0} : l = Bytes[w[i].key]
      BY <1>1
    <3>2. IsFiniteSet(1 .. l) /\ Cardinality(1 .. l) = l
      BY FS_Interval
    <3> QED BY <3>1, <3>2
  <2>3. IsFiniteSet(T) /\ Cardinality(T) = 1 * Bytes[w[i].key]
    BY <2>1, <2>2, FS_Product
  <2> QED BY <1>1, <2>3
<1>5. Copied(w, i) \cup T \subseteq Copied(w, m)
  <2>1. Copied(w, i) \subseteq Copied(w, m)
    BY <1>1 DEF Copied
  <2>2. T \subseteq Copied(w, m)
    BY DEF Copied
  <2> QED BY <2>1, <2>2
<1>6. Copied(w, i) \cap T = {}
  <2>1. ASSUME NEW x \in Copied(w, i)
        PROVE  x \notin T
    <3>1. PICK j \in Named(w) : j < i /\ \E b \in 1 .. Bytes[w[j].key] : x = <<j, b>>
      BY CopiedIs
    <3>2. x[1] = j /\ j # i
      BY <1>1, <3>1
    <3> QED BY <3>2
  <2> QED BY <2>1
<1> HIDE DEF T
<1>7. Cardinality(Copied(w, i) \cap T) = 0
  BY <1>6, FS_EmptySet
<1>8. Cardinality(Copied(w, i) \cup T) = Cardinality(Copied(w, i)) + Bytes[w[i].key] - 0
  BY <1>3, <1>4, <1>7, FS_Union
<1>9. Cardinality(Copied(w, i) \cup T) <= Cardinality(Copied(w, m))
  BY <1>3, <1>5, FS_Subset
<1>10. Cardinality(Copied(w, i)) \in Nat /\ Cardinality(Copied(w, m)) \in Nat
  BY <1>3, FS_CardinalityType
<1> QED BY <1>1, <1>8, <1>9, <1>10

(* A walk that is compacted leaves the strings one after the other. *)
LEMMA CompactedSound ==
  ASSUME NEW w, NEW n, NEW K, PassOf(w, n, K),
         NEW f, NEW s, NEW u, NEW c, Sound(f, K, s, u, c),
         NEW capacity \in Nat, u <= capacity
  PROVE  \E g : /\ Sound(g, K, u, u, capacity)
                /\ Compacted(w, capacity) =
                     [size |-> u, used |-> u, capacity |-> capacity,
                      at |-> [k \in DOMAIN at |-> IF k \in K THEN g[k] ELSE at[k]]]
<1> DEFINE place(k) == CHOOSE i \in Named(w) : w[i].key = k
           g == [k \in {w[i].key : i \in Named(w)} |-> Cardinality(Copied(w, place(k)))]
<1>1. /\ f \in [K -> Nat] /\ ApartIn(f, K) /\ u = Cardinality(Reach(f, K)) /\ K \subseteq Keys
  BY DEF Sound
<1>2. IsFiniteSet(Reach(f, K)) /\ u \in Nat
  BY ReachFinite
<1>3. IsFiniteSet(Copied(w, n)) /\ Cardinality(Copied(w, n)) = u
  BY <1>1, <1>2, Copying
<1>4. n \in Nat /\ Named(w) \subseteq 0 .. n - 1 /\ DOMAIN w = 0 .. n - 1
  BY DEF PassOf, Named
<1>5. Cardinality(DOMAIN w) = n
  <2>1. 0 \in Int /\ n - 1 \in Int
    BY <1>4
  <2>2. Cardinality(0 .. n - 1) = n
    BY <1>4, <2>1, FS_Interval
  <2> QED BY <1>4, <2>2
<1>6. Compacted(w, capacity) =
        [size |-> u, used |-> u, capacity |-> capacity,
         at |-> [k \in DOMAIN at |-> IF k \in K THEN g[k] ELSE at[k]]]
  <2>1. [k \in DOMAIN at |-> IF k \in K THEN g[k] ELSE at[k]]
          = [k \in DOMAIN at |-> IF k \in {w[i].key : i \in Named(w)}
                                THEN Cardinality(Copied(w, place(k))) ELSE at[k]]
    BY DEF PassOf
  <2> QED BY <1>3, <1>5, <2>1 DEF Compacted
<1>7. /\ K = {w[i].key : i \in Named(w)}
      /\ \A i, j \in Named(w) : w[i].key = w[j].key => i = j
  BY DEF PassOf
<1>8. ASSUME NEW i \in Named(w)
      PROVE  g[w[i].key] = Cardinality(Copied(w, i)) /\ w[i].key \in K
  <2>1. place(w[i].key) \in Named(w) /\ w[place(w[i].key)].key = w[i].key
    OBVIOUS
  <2>2. place(w[i].key) = i
    BY <1>7, <2>1
  <2> QED BY <1>7, <2>2
<1>9. DOMAIN g = K /\ g = [k \in K |-> g[k]]
  BY <1>7
<1> HIDE DEF g
<1>10. ASSUME NEW i \in Named(w)
       PROVE  /\ g[w[i].key] \in Nat /\ g[w[i].key] + Bytes[w[i].key] <= u
              /\ \A j \in Named(w) : i < j => g[w[i].key] + Bytes[w[i].key] <= g[w[j].key]
  <2>1. i \in 0 .. n /\ n \in 0 .. n /\ i < n
    BY <1>4
  <2>2. /\ Cardinality(Copied(w, i)) \in Nat
        /\ Cardinality(Copied(w, i)) + Bytes[w[i].key] <= Cardinality(Copied(w, n))
    BY <1>3, <2>1, CopiedStep
  <2>3. ASSUME NEW j \in Named(w), i < j
        PROVE  g[w[i].key] + Bytes[w[i].key] <= g[w[j].key]
    <3>1. j \in 0 .. n
      BY <1>4
    <3>2. Cardinality(Copied(w, i)) + Bytes[w[i].key] <= Cardinality(Copied(w, j))
      BY <1>3, <2>3, <3>1, CopiedStep
    <3> QED BY <1>8, <3>2
  <2> QED BY <1>3, <1>8, <2>2, <2>3
<1>11. \A k \in K : \E i \in Named(w) : w[i].key = k
  BY <1>7
<1>12. g \in [K -> Nat] /\ \A k \in K : g[k] + Bytes[k] <= u
  BY <1>9, <1>10, <1>11
<1>13. ApartIn(g, K)
  <2> SUFFICES ASSUME NEW k \in K, NEW l \in K, k # l
               PROVE  g[k] + Bytes[k] <= g[l] \/ g[l] + Bytes[l] <= g[k]
    BY DEF ApartIn
  <2>1. PICK i \in Named(w) : w[i].key = k
    BY <1>11
  <2>2. PICK j \in Named(w) : w[j].key = l
    BY <1>11
  <2>3. i < j \/ j < i
    BY <1>4, <2>1, <2>2
  <2> QED BY <1>10, <2>1, <2>2, <2>3
<1>14. IsFiniteSet(Reach(g, K))
  BY <1>1, <1>2, <1>12, ReachBelow
<1>15. Cardinality(Reach(g, K)) = u
  BY <1>3, <1>12, <1>13, <1>14, Copying
<1>16. Sound(g, K, u, u, capacity)
  BY <1>1, <1>2, <1>12, <1>13, <1>15 DEF Sound
<1> QED BY <1>6, <1>16

(* A key has an entry in a table or in a stash. *)
HeldIn(tab, st, k) ==
  \/ \E p \in Positions : tab[p] \in Item /\ tab[p].key = k
  \/ \E i \in 1 .. Len(st) : st[i].key = k

(* A table and a stash that hold no key twice. *)
EachOnce(tab, st) ==
  /\ size \in Nat \ {0} /\ tab \in [Positions -> Item \cup {None}]
  /\ st \in Seq(Item)
  /\ \A q, r \in Positions :
       tab[q] \in Item /\ tab[r] \in Item /\ tab[q].key = tab[r].key => q = r
  /\ \A i, j \in 1 .. Len(st) : st[i].key = st[j].key => i = j
  /\ \A q \in Positions, i \in 1 .. Len(st) : tab[q] \in Item => tab[q].key # st[i].key

(* A relocation meets each string they name once. *)
LEMMA WalkedPass ==
  ASSUME NEW tab, NEW st, EachOnce(tab, st)
  PROVE  PassOf(Walked(tab, st), size + Len(st),
                {k \in Keys : Pooled(k) /\ HeldIn(tab, st, k)})
<1> DEFINE w == Walked(tab, st)
<1>1. PICK m \in Nat : m = Len(st)
  BY LenProperties DEF EachOnce
<1>2. /\ size \in Nat \ {0} /\ Positions = 0 .. size - 1 /\ None \notin Item
      /\ \A p \in Positions : tab[p] \in Item \cup {None}
      /\ \A i \in 1 .. m : st[i] \in Item
  BY <1>1, NoneIsNothing, ElementOfSeq DEF EachOnce, Positions
<1>3. /\ DOMAIN w = 0 .. size + m - 1
      /\ \A p \in Positions : w[p] = tab[p]
      /\ \A i \in 1 .. m : size + i - 1 \in 0 .. size + m - 1 /\ w[size + i - 1] = st[i]
  BY <1>1, <1>2 DEF Walked
<1> HIDE DEF w
<1>4. \A i \in 0 .. size + m - 1 :
        i \in Positions \/ \E l \in 1 .. m : i = size + l - 1
  <2> SUFFICES ASSUME NEW i \in 0 .. size + m - 1, i \notin Positions
               PROVE  \E l \in 1 .. m : i = size + l - 1
    OBVIOUS
  <2>1. i - size + 1 \in 1 .. m /\ i = size + (i - size + 1) - 1
    BY <1>2
  <2> QED BY <2>1
<1>5. \A i : i \in Named(w) <=>
        /\ i \in 0 .. size + m - 1 /\ w[i] \in Item /\ Pooled(w[i].key)
  <2>1. \A i \in 0 .. size + m - 1 : w[i] # None <=> w[i] \in Item
    BY <1>2, <1>3, <1>4
  <2> QED BY <1>3, <2>1 DEF Named
<1>6. \A i, j \in Named(w) : w[i].key = w[j].key => i = j
  <2> SUFFICES ASSUME NEW i \in Named(w), NEW j \in Named(w), w[i].key = w[j].key
               PROVE  i = j
    OBVIOUS
  <2>1. /\ i \in 0 .. size + m - 1 /\ w[i] \in Item
        /\ j \in 0 .. size + m - 1 /\ w[j] \in Item
    BY <1>5
  <2>2. CASE i \in Positions /\ j \in Positions
    BY <1>3, <2>1, <2>2 DEF EachOnce
  <2>3. CASE i \notin Positions /\ j \notin Positions
    <3>1. PICK l \in 1 .. m : i = size + l - 1
      BY <1>4, <2>1, <2>3
    <3>2. PICK h \in 1 .. m : j = size + h - 1
      BY <1>4, <2>1, <2>3
    <3>3. st[l].key = st[h].key
      BY <1>3, <3>1, <3>2
    <3>4. l = h
      BY <1>1, <3>3 DEF EachOnce
    <3> QED BY <3>1, <3>2, <3>4
  <2>4. ASSUME NEW p \in Positions, NEW q \in 0 .. size + m - 1, q \notin Positions,
               w[p] \in Item, w[p].key = w[q].key
        PROVE  FALSE
    <3>1. PICK l \in 1 .. m : q = size + l - 1
      BY <1>4, <2>4
    <3>2. tab[p] \in Item /\ tab[p].key = st[l].key
      BY <1>3, <2>4, <3>1
    <3> QED BY <1>1, <3>2 DEF EachOnce
  <2> QED BY <2>1, <2>2, <2>3, <2>4
<1>7. \A i \in Named(w) : w[i].key \in Keys
  BY <1>5 DEF Item
<1>8. {k \in Keys : Pooled(k) /\ HeldIn(tab, st, k)} = {w[i].key : i \in Named(w)}
  <2>1. ASSUME NEW k \in Keys, Pooled(k), HeldIn(tab, st, k)
        PROVE  \E i \in Named(w) : w[i].key = k
    <3>1. CASE \E p \in Positions : tab[p] \in Item /\ tab[p].key = k
      <4>1. PICK p \in Positions : tab[p] \in Item /\ tab[p].key = k
        BY <3>1
      <4>2. p \in 0 .. size + m - 1
        BY <1>2
      <4> QED BY <1>3, <1>5, <2>1, <4>1, <4>2
    <3>2. CASE \E i \in 1 .. m : st[i].key = k
      <4>1. PICK l \in 1 .. m : st[l].key = k
        BY <3>2
      <4> QED BY <1>2, <1>3, <1>5, <2>1, <4>1
    <3> QED BY <1>1, <2>1, <3>1, <3>2 DEF HeldIn
  <2>2. ASSUME NEW i \in Named(w)
        PROVE  Pooled(w[i].key) /\ HeldIn(tab, st, w[i].key)
    <3>1. i \in 0 .. size + m - 1 /\ w[i] \in Item /\ Pooled(w[i].key)
      BY <1>5
    <3>2. CASE i \in Positions
      BY <1>3, <3>1, <3>2 DEF HeldIn
    <3>3. CASE i \notin Positions
      <4>1. PICK l \in 1 .. m : i = size + l - 1
        BY <1>4, <3>1, <3>3
      <4>2. st[l].key = w[i].key
        BY <1>3, <4>1
      <4> QED BY <1>1, <3>1, <4>2 DEF HeldIn
    <3> QED BY <3>1, <3>2, <3>3
  <2> QED BY <1>7, <2>1, <2>2
<1>9. size + m \in Nat
  BY <1>2
<1>10. PassOf(w, size + m, {k \in Keys : Pooled(k) /\ HeldIn(tab, st, k)})
  <2>1. ASSUME NEW K, K = {w[i].key : i \in Named(w)}
        PROVE  PassOf(w, size + m, K)
    <3>1. DOMAIN w = 0 .. (size + m) - 1
      <4>1. (size + m) - 1 = size + m - 1
        BY <1>2
      <4> QED BY <1>3, <4>1
    <3>2. PICK n \in Nat : n = size + m
      BY <1>9
    <3>3. n \in Nat /\ DOMAIN w = 0 .. n - 1
      BY <3>1, <3>2
    <3>4. PassOf(w, n, K)
      BY ONLY <1>6, <1>7, <2>1, <3>3 DEF PassOf
    <3> QED BY <3>2, <3>4
  <2> QED BY <1>8, <2>1
<1> QED BY <1>1, <1>10 DEF w

(* The keys whose strings the pool holds. *)
NamedKeys == {k \in KeySet : Pooled(k)}

(* Between two calls the entries are those of the table and of the stash. *)
LEMMA HeldAtRest ==
  ASSUME PlaceInv, pc = "idle"
  PROVE  /\ EachOnce(items, stash)
         /\ \A k \in Keys : k \in KeySet <=> HeldIn(items, stash, k)
<1>1. EachOnce(items, stash)
  BY Rest DEF EachOnce
<1>2. \A x : x \in Entries <=> x \in Item /\ Somewhere(x)
  BY EntriesAre DEF PlaceInv
<1>3. \A x \in Item : Somewhere(x) <=>
              \/ \E p \in Positions : items[p] = x
              \/ \E i \in 1 .. Len(stash) : stash[i] = x
  BY AtRest
<1>4. \A i \in 1 .. Len(stash) : stash[i] \in Item
  BY Rest
<1>5. \A k \in Keys : k \in KeySet <=> HeldIn(items, stash, k)
  BY <1>2, <1>3, <1>4 DEF KeySet, HeldIn
<1> QED BY <1>1, <1>5

(* A relocation between two calls meets the strings of all the keys. *)
LEMMA PassAtRest ==
  ASSUME PlaceInv, pc = "idle"
  PROVE  PassOf(Walked(items, stash), size + Len(stash), NamedKeys)
<1>1. {k \in Keys : Pooled(k) /\ HeldIn(items, stash, k)} = NamedKeys
  BY HeldAtRest DEF NamedKeys, KeySet
<1> QED BY <1>1, HeldAtRest, WalkedPass

(* One that an entry has left meets the strings of the others. *)
LEMMA PassFreed ==
  ASSUME PlaceInv, pc = "idle", NEW k \in Keys, NEW p \in Positions,
         items[p] \in Item, items[p].key = k,
         NEW tab, tab = [items EXCEPT ![p] = None]
  PROVE  PassOf(Walked(tab, stash), size + Len(stash), NamedKeys \ {k})
<1>1. /\ tab \in [Positions -> Item \cup {None}] /\ None \notin Item /\ tab[p] = None
      /\ \A q \in Positions : q # p => tab[q] = items[q]
  BY Rest
<1>2. \A q \in Positions : tab[q] \in Item => tab[q] = items[q] /\ q # p
  BY <1>1
<1>3. EachOnce(tab, stash)
  BY <1>1, <1>2, Rest DEF EachOnce
<1>4. ASSUME NEW x \in Keys
      PROVE  HeldIn(tab, stash, x) <=> x # k /\ HeldIn(items, stash, x)
  <2>1. \A i \in 1 .. Len(stash) : stash[i].key # k
    BY Rest
  <2>2. \A q \in Positions : items[q] \in Item /\ items[q].key = k => q = p
    BY Rest
  <2>3. (\E q \in Positions : tab[q] \in Item /\ tab[q].key = x)
          <=> x # k /\ \E q \in Positions : items[q] \in Item /\ items[q].key = x
    BY <1>1, <1>2, <2>2
  <2> QED BY <2>1, <2>3 DEF HeldIn
<1>5. {x \in Keys : Pooled(x) /\ HeldIn(tab, stash, x)} = NamedKeys \ {k}
  BY <1>4, HeldAtRest DEF NamedKeys, KeySet
<1> QED BY <1>3, <1>5, WalkedPass

(* The same of an entry that has left the stash. *)
LEMMA PassShorter ==
  ASSUME PlaceInv, pc = "idle", NEW k \in Keys, NEW d \in 1 .. Len(stash),
         stash[d].key = k, NEW t, t = RemoveAt(stash, d)
  PROVE  PassOf(Walked(items, t), size + Len(t), NamedKeys \ {k})
<1>1. PICK m \in Nat : m = Len(stash)
  BY Rest
<1>2. /\ t \in Seq(Item) /\ Len(t) = m - 1 /\ OthersOf(t, stash, d, m) /\ d \in 1 .. m
  BY <1>1, Removed, RemovedElements, Rest
<1>3. OnceIn(t, m - 1)
  <2>1. OnceIn(stash, Len(stash))
    BY Rest DEF OnceIn
  <2> QED BY <1>1, <2>1, Rest, StillOnce
<1>4. \A j \in 1 .. m - 1 : \E i \in 1 .. m : t[j] = stash[i] /\ i # d
  BY <1>2 DEF OthersOf
<1>5. \A i \in 1 .. m : i # d => \E j \in 1 .. m - 1 : t[j] = stash[i]
  BY <1>2 DEF OthersOf
<1>6. EachOnce(items, t)
  <2>1. \A q \in Positions, j \in 1 .. m - 1 : items[q] \in Item => items[q].key # t[j].key
    BY <1>1, <1>4, Rest
  <2>2. \A i, j \in 1 .. Len(t) : t[i].key = t[j].key => i = j
    BY <1>2, <1>3 DEF OnceIn
  <2> QED BY <1>2, <2>1, <2>2, Rest DEF EachOnce
<1>7. ASSUME NEW x \in Keys
      PROVE  HeldIn(items, t, x) <=> x # k /\ HeldIn(items, stash, x)
  <2>1. \A i \in 1 .. m : stash[i].key = k => i = d
    BY <1>1, <1>2, Rest
  <2>2. \A q \in Positions : items[q] \in Item => items[q].key # k
    BY <1>1, <1>2, Rest
  <2>3. (\E j \in 1 .. m - 1 : t[j].key = x) <=> x # k /\ \E i \in 1 .. m : stash[i].key = x
    BY <1>4, <1>5, <2>1
  <2> QED BY <1>1, <1>2, <2>2, <2>3 DEF HeldIn
<1>8. {x \in Keys : Pooled(x) /\ HeldIn(items, t, x)} = NamedKeys \ {k}
  BY <1>7, HeldAtRest DEF NamedKeys, KeySet
<1> QED BY <1>6, <1>8, WalkedPass

(* The strings of the keys that have an entry are sound. *)
StringsInv == Sound(at, NamedKeys, pool.size, pool.used, pool.capacity)

(* The smallest capacity that is enough is one. *)
LEMMA Enough ==
  ASSUME NEW n \in Nat \ {0}, Capacities(n) # {}
  PROVE  Least(Capacities(n)) \in Nat /\ n <= Least(Capacities(n))
<1>1. Capacities(n) \subseteq n .. MaxPool
  BY Zenon DEF Capacities
<1>2. MaxPool \in Nat /\ Capacities(n) \subseteq 1 .. MaxPool
  BY <1>1, SizesArePositive
<1>3. Least(Capacities(n)) \in Capacities(n)
  BY <1>2, LeastOf
<1> QED BY <1>1, <1>3

(* A pool may be larger than it need be. *)
LEMMA SoundWider ==
  ASSUME NEW f, NEW K, NEW s, NEW u, NEW c, Sound(f, K, s, u, c), NEW d \in Nat, s <= d
  PROVE  Sound(f, K, s, u, d)
BY DEF Sound

(* A key is added: wherever there is room, its string comes last. *)
LEMMA NameAdded ==
  ASSUME NEW K, Sound(at, K, pool.size, pool.used, pool.capacity),
         NEW n, PassOf(Walked(items, stash), n, K), NEW k \in Keys \ K, AddName(k), Pooled(k)
  PROVE  Sound(at', K \cup {k}, pool'.size, pool'.used, pool'.capacity)
<1> DEFINE need == Least(Capacities(pool.size + Bytes[k]))
<1>1. /\ pool.size \in Nat /\ pool.capacity \in Nat /\ pool.size <= pool.capacity
      /\ at \in [K -> Nat] /\ Bytes[k] \in Nat \ {0}
  BY BytesType DEF Sound
<1>2. pool.used \in Nat /\ pool.used <= pool.size
  BY ReachFinite
<1>3. HasRoom(k) \/ (need \in Nat /\ pool.size + Bytes[k] <= need)
  <2>1. HasRoom(k) \/ Capacities(pool.size + Bytes[k]) # {}
    BY DEF AddName
  <2>2. pool.size + Bytes[k] \in Nat \ {0}
    BY <1>1
  <2> QED BY <2>1, <2>2, Enough
<1> HIDE DEF need
<1>4. \E g, s, u, c :
        /\ Expanded(k) = [size |-> s, used |-> u, capacity |-> c, at |-> g]
        /\ Sound(g, K, s, u, c) /\ s + Bytes[k] <= c
  <2>1. CASE HasRoom(k)
    <3>1. pool.size + Bytes[k] <= pool.capacity
      BY <1>1, <2>1 DEF HasRoom
    <3>2. Expanded(k) = [size |-> pool.size, used |-> pool.used,
                         capacity |-> pool.capacity, at |-> at]
      BY <2>1 DEF Expanded
    <3> QED BY <3>1, <3>2
  <2>2. CASE ~HasRoom(k) /\ ~Sparse
    <3>1. Sound(at, K, pool.size, pool.used, need) /\ pool.size + Bytes[k] <= need
      BY <1>1, <1>3, <2>2, SoundWider
    <3>2. Expanded(k) = [size |-> pool.size, used |-> pool.used, capacity |-> need, at |-> at]
      BY <2>2 DEF Expanded, need
    <3> QED BY <3>1, <3>2
  <2>3. CASE ~HasRoom(k) /\ Sparse
    <3>1. pool.used <= need /\ pool.used + Bytes[k] <= need /\ need \in Nat
      BY <1>1, <1>2, <1>3, <2>3
    <3>2. PICK g : /\ Sound(g, K, pool.used, pool.used, need)
                   /\ Compacted(Walked(items, stash), need) =
                        [size |-> pool.used, used |-> pool.used, capacity |-> need,
                         at |-> [x \in DOMAIN at |-> IF x \in K THEN g[x] ELSE at[x]]]
      BY <3>1, CompactedSound
    <3>3. g \in [K -> Nat]
      BY <3>2 DEF Sound
    <3>4. [x \in DOMAIN at |-> IF x \in K THEN g[x] ELSE at[x]] = g
      BY <1>1, <3>3
    <3>5. Expanded(k) = [size |-> pool.used, used |-> pool.used, capacity |-> need, at |-> g]
      BY <2>3, <3>2, <3>4 DEF Expanded, need
    <3> QED BY <3>1, <3>2, <3>5
  <2> QED BY <2>1, <2>2, <2>3
<1>5. PICK g, s, u, c :
        /\ Expanded(k) = [size |-> s, used |-> u, capacity |-> c, at |-> g]
        /\ Sound(g, K, s, u, c) /\ s + Bytes[k] <= c
  BY <1>4
<1>6. /\ pool' = [size |-> s + Bytes[k], used |-> u + Bytes[k], capacity |-> c]
      /\ at' = [x \in DOMAIN g \cup {k} |-> IF x = k THEN s ELSE g[x]]
  BY <1>5 DEF AddName, SetStrings
<1>7. DOMAIN g = K
  BY <1>5 DEF Sound
<1>8. Sound(at', K \cup {k}, s + Bytes[k], u + Bytes[k], c)
  BY <1>5, <1>6, <1>7, SoundAdded
<1> QED BY <1>6, <1>8

(* A key is removed: its bytes are no longer counted, and what is left is *)
(* moved together when there are too many holes.                          *)
LEMMA NameFreed ==
  ASSUME NEW K, Sound(at, K, pool.size, pool.used, pool.capacity), NEW k \in K, Pooled(k),
         NEW tab, NEW st, NEW n, PassOf(Walked(tab, st), n, K \ {k}), FreeName(k, tab, st)
  PROVE  Sound(at', K \ {k}, pool'.size, pool'.used, pool'.capacity)
<1> DEFINE left == pool.used - Bytes[k]
           holes == left # 0 /\ left < pool.size \div 2
           less == IF left < pool.capacity \div 4 THEN pool.capacity \div 2 ELSE pool.capacity
           f == [x \in K \ {k} |-> at[x]]
<1>1. pool.size \in Nat /\ pool.capacity \in Nat /\ pool.size <= pool.capacity /\ at \in [K -> Nat]
  BY DEF Sound
<1>2. Sound(f, K \ {k}, pool.size, left, pool.capacity)
  BY SoundLess
<1>3. left \in Nat /\ left <= pool.size
  BY <1>2, ReachFinite
<1>4. CASE holes
  <2>1. less \in Nat /\ left <= less
    <3> HIDE DEF left
    <3> QED BY <1>1, <1>3
  <2>2. PICK g : /\ Sound(g, K \ {k}, left, left, less)
                 /\ Compacted(Walked(tab, st), less) =
                      [size |-> left, used |-> left, capacity |-> less,
                       at |-> [x \in DOMAIN at |-> IF x \in K \ {k} THEN g[x] ELSE at[x]]]
    <3> HIDE DEF left, less, f
    <3> QED BY <1>2, <2>1, CompactedSound
  <2>3. g \in [K \ {k} -> Nat]
    BY <2>2 DEF Sound
  <2> DEFINE h == [x \in DOMAIN at |-> IF x \in K \ {k} THEN g[x] ELSE at[x]]
  <2>4. [x \in DOMAIN h \ {k} |-> h[x]] = g
    BY <1>1, <2>3
  <2>5. SetStrings([Compacted(Walked(tab, st), less) EXCEPT !.at =
                      [x \in DOMAIN Compacted(Walked(tab, st), less).at \ {k} |->
                         Compacted(Walked(tab, st), less).at[x]]])
    BY <1>4 DEF FreeName
  <2>6. pool' = [size |-> left, used |-> left, capacity |-> less] /\ at' = g
    <3> HIDE DEF left, less, h
    <3>1. Compacted(Walked(tab, st), less) =
            [size |-> left, used |-> left, capacity |-> less, at |-> h]
      BY <2>2 DEF h
    <3> QED BY <2>4, <2>5, <3>1 DEF SetStrings
  <2> QED BY <2>2, <2>6
<1>5. CASE ~holes
  <2>1. /\ pool' = [size |-> pool.size, used |-> left, capacity |-> pool.capacity]
        /\ at' = [x \in DOMAIN at \ {k} |-> at[x]]
    BY <1>5 DEF FreeName, SetStrings
  <2>2. at' = f
    BY <1>1, <2>1
  <2> QED BY <1>2, <2>1, <2>2
<1> QED BY <1>4, <1>5

(* A map that stays has the same keys. *)
LEMMA KeysOfMap == PlaceInv => KeySet = {k \in Keys : MapNow[k] # None}
BY LookupIs DEF KeySet, MapNow

(* Their strings stay where they are. *)
LEMMA SameNames ==
  ASSUME IInv, IInv', StringsInv, UNCHANGED strings, MapNow' = MapNow
  PROVE  StringsInv'
<1>1. (PlaceInv => KeySet = {k \in Keys : MapNow[k] # None})'
  BY KeysOfMap, PTL
<1>2. KeySet' = KeySet
  BY <1>1, KeysOfMap DEF IInv
<1>3. NamedKeys' = NamedKeys
  BY <1>2 DEF NamedKeys, Pooled
<1> QED BY <1>3 DEF StringsInv, strings

(* So they do when a value is written where the key is. *)
LEMMA SetNames ==
  ASSUME IInv, IInv', StringsInv, pc = "idle", NEW k \in Keys, NEW v \in Values,
         SetValue(k, v), UNCHANGED <<size, used, strings, call, cursor>>
  PROVE  StringsInv'
<1>1. PlaceInv' /\ Becomes(k, {[key |-> k, value |-> v]}) /\ Present(k)
  BY SetKeeps DEF IInv
<1>2. KeySet' = KeySet \cup {k} /\ k \in KeySet
  BY <1>1, Finding, Stored DEF IInv, KeySet
<1>3. NamedKeys' = NamedKeys
  BY <1>2 DEF NamedKeys, Pooled
<1> QED BY <1>3 DEF StringsInv, strings

(* A new entry brings its string. *)
LEMMA InsertNames ==
  ASSUME IInv, StringsInv, pc = "idle", NEW k \in Keys, NEW v \in Values,
         ~Present(k), Insert(k, v)
  PROVE  StringsInv'
<1>1. PlaceInv' /\ Becomes(k, {[key |-> k, value |-> v]})
  BY InsertKeeps DEF IInv
<1>2. KeySet' = KeySet \cup {k}
  BY <1>1, Stored DEF IInv
<1>3. k \notin KeySet
  BY Finding DEF IInv, KeySet
<1>4. AddName(k)
  BY DEF Insert
<1>5. CASE Pooled(k)
  <2>1. NamedKeys' = NamedKeys \cup {k} /\ k \in Keys \ NamedKeys
    BY <1>2, <1>3, <1>5 DEF NamedKeys, Pooled
  <2>2. PassOf(Walked(items, stash), size + Len(stash), NamedKeys)
    BY PassAtRest DEF IInv
  <2>3. Sound(at', NamedKeys \cup {k}, pool'.size, pool'.used, pool'.capacity)
    BY <1>4, <1>5, <2>1, <2>2, NameAdded DEF StringsInv
  <2> QED BY <2>1, <2>3 DEF StringsInv
<1>6. CASE ~Pooled(k)
  <2>1. NamedKeys' = NamedKeys
    BY <1>2, <1>6 DEF NamedKeys, Pooled
  <2>2. UNCHANGED strings
    BY <1>4, <1>6 DEF AddName
  <2> QED BY <2>1, <2>2 DEF StringsInv, strings
<1> QED BY <1>5, <1>6

(* A removed one frees it. *)
LEMMA RemoveNames ==
  ASSUME IInv, StringsInv, pc = "idle", NEW k \in Keys,
         RemoveFromTable(k) \/ RemoveFromStash(k), used' \in Nat, UNCHANGED <<size, call>>
  PROVE  StringsInv'
<1>1. PlaceInv' /\ Becomes(k, {})
  BY RemoveKeeps DEF IInv
<1>2. KeySet' = KeySet \ {k}
  BY <1>1, Dropped DEF IInv
<1>3. k \in KeySet
  <2>1. Present(k)
    BY DEF RemoveFromTable, RemoveFromStash, Present
  <2> QED BY <2>1, Finding DEF IInv, KeySet
<1>4. NamedKeys' = NamedKeys \ {k}
  BY <1>2 DEF NamedKeys, Pooled
<1>5. \E tab, st, n : PassOf(Walked(tab, st), n, NamedKeys \ {k}) /\ FreeName(k, tab, st)
  <2>1. CASE RemoveFromTable(k)
    <3>1. PICK p \in Positions : p = TablePos(k) /\ items[p] \in Item /\ items[p].key = k
      BY <2>1, Located DEF RemoveFromTable, IInv
    <3>2. PassOf(Walked([items EXCEPT ![p] = None], stash), size + Len(stash), NamedKeys \ {k})
      BY <3>1, PassFreed DEF IInv
    <3>3. FreeName(k, [items EXCEPT ![p] = None], stash)
      BY <2>1, <3>1 DEF RemoveFromTable
    <3> QED BY <3>2, <3>3
  <2>2. CASE RemoveFromStash(k)
    <3>1. PICK d \in 1 .. Len(stash) : d = StashPos(k) /\ stash[d].key = k
      BY <2>2, Located DEF RemoveFromStash, InStash, IInv
    <3>2. PassOf(Walked(items, RemoveAt(stash, d)), size + Len(RemoveAt(stash, d)),
                 NamedKeys \ {k})
      BY <3>1, PassShorter DEF IInv
    <3>3. FreeName(k, items, RemoveAt(stash, d))
      BY <2>2, <3>1 DEF RemoveFromStash
    <3> QED BY <3>2, <3>3
  <2> QED BY <2>1, <2>2
<1>6. PICK tab, st, n : PassOf(Walked(tab, st), n, NamedKeys \ {k}) /\ FreeName(k, tab, st)
  BY <1>5
<1>7. CASE Pooled(k)
  <2>1. k \in NamedKeys
    BY <1>3, <1>7 DEF NamedKeys
  <2>2. Sound(at', NamedKeys \ {k}, pool'.size, pool'.used, pool'.capacity)
    BY <1>6, <1>7, <2>1, NameFreed DEF StringsInv
  <2> QED BY <1>4, <2>2 DEF StringsInv
<1>8. CASE ~Pooled(k)
  <2>1. NamedKeys \ {k} = NamedKeys /\ UNCHANGED strings
    BY <1>6, <1>8 DEF NamedKeys, FreeName
  <2> QED BY <1>4, <2>1 DEF StringsInv, strings
<1> QED BY <1>7, <1>8

(* Every step keeps the strings sound. *)
LEMMA NamesStep ==
  ASSUME IInv, StringsInv, [Next]_vars
  PROVE  StringsInv'
<1>0. IInv'
  BY Step
<1>1. CASE UNCHANGED vars
  <2>1. MapNow' = MapNow
    BY <1>1, StillStep DEF vars, table, call
  <2> QED BY <1>0, <1>1, <2>1, SameNames DEF vars, strings
<1>2. ASSUME NEW k \in Keys, NEW v \in Values, Write(k, v)
      PROVE  StringsInv'
  <2>1. pc = "idle"
    BY <1>2 DEF Write, Idle
  <2>2. CASE SetValue(k, v) /\ UNCHANGED <<size, used, strings, call, cursor>>
    BY <1>0, <2>1, <2>2, SetNames
  <2>3. CASE ~Present(k) /\ Insert(k, v)
    BY <2>1, <2>3, InsertNames
  <2> QED BY <1>2, <2>2, <2>3 DEF Write
<1>3. ASSUME NEW k \in Keys, NEW v \in Values, Increment(k, v)
      PROVE  StringsInv'
  <2>1. pc = "idle"
    BY <1>3 DEF Increment, Idle
  <2>2. ASSUME NEW w, w = (Fetch(k) + v) % Cardinality(Values), SetValue(k, w),
               UNCHANGED <<size, used, strings, call, cursor>>
        PROVE  StringsInv'
    <3>1. w \in Values
      <4>1. Present(k)
        BY <2>2 DEF SetValue, Present
      <4> QED BY <2>1, <2>2, <4>1, WrapsAround
    <3> QED BY <1>0, <2>1, <2>2, <3>1, SetNames
  <2>3. CASE ~Present(k) /\ Insert(k, v)
    BY <2>1, <2>3, InsertNames
  <2> QED BY <1>3, <2>2, <2>3 DEF Increment
<1>4. CASE Place \/ Move \/ ToStash \/ Added \/ Merge \/ Fail
  <2>1. UNCHANGED strings
    BY <1>4 DEF Place, Move, ToStash, Added, Merge, Fail
  <2>2. MapNow' = MapNow
    BY <1>4, InnerStep DEF MapNow, Promise!vars
  <2> QED BY <1>0, <2>1, <2>2, SameNames
<1>5. CASE (\E k \in Keys : Read(k)) \/ Count
  <2>1. UNCHANGED <<table, strings, call, cursor>>
    BY <1>5 DEF Read, Count
  <2> QED BY <1>0, <2>1, SameNames, StillStep
<1>6. ASSUME NEW k \in Keys, RemoveKey(k)
      PROVE  StringsInv'
  <2>1. pc = "idle" /\ UNCHANGED call
    BY <1>6 DEF RemoveKey, Idle
  <2>2. used' \in Nat
    BY <1>0 DEF IInv, PlaceInv, TypeOK
  <2>3. CASE (RemoveFromTable(k) \/ RemoveFromStash(k)) /\ UNCHANGED size
    BY <2>1, <2>2, <2>3, RemoveNames
  <2>4. CASE UNCHANGED <<table, strings, cursor>>
    BY <1>0, <2>1, <2>4, SameNames, StillStep
  <2> QED BY <1>6, <2>3, <2>4 DEF RemoveKey
<1>7. CASE EnumNew \/ EnumNext
  <2>1. UNCHANGED strings
    BY <1>7 DEF EnumNew, EnumNext
  <2>2. MapNow' = MapNow
    BY <1>7, EnumStep DEF MapNow, Promise!vars
  <2> QED BY <1>0, <2>1, <2>2, SameNames
<1> QED BY <1>1, <1>2, <1>3, <1>4, <1>5, <1>6, <1>7 DEF Next

(* The pool is empty at first. *)
LEMMA NamesInitially ==
  ASSUME Init
  PROVE  StringsInv
<1>1. NamedKeys = {}
  <2>1. IInv /\ MapNow = [k \in Keys |-> None]
    BY Initially DEF Promise!Init, MapNow
  <2> QED BY <2>1, KeysOfMap DEF IInv, NamedKeys
<1>2. at \in [{} -> Nat]
  BY DEF Init
<1>3. Reach(at, {}) = {}
  BY DEF Reach
<1>4. pool.size = 0 /\ pool.used = 0 /\ pool.capacity = 0
  BY DEF Init
<1>5. Sound(at, {}, 0, 0, 0)
  BY <1>2, <1>3, FS_EmptySet DEF Sound, ApartIn
<1> QED BY <1>1, <1>4, <1>5 DEF StringsInv

(* The strings of the keys lie apart from each other below the mark of the *)
(* pool, whose count of the bytes in use is right, through every           *)
(* addition, removal and relocation (add_string, coucal_realloc_pool and   *)
(* the freeing of a name): no key is read from the bytes of another.       *)
THEOREM StringsSound == Spec => []PoolSound
<1>1. Init => IInv /\ StringsInv
  BY Initially, NamesInitially
<1>2. (IInv /\ StringsInv) /\ [Next]_vars => (IInv /\ StringsInv)'
  BY Step, NamesStep
<1>3. StringsInv => PoolSound
  <2> SUFFICES ASSUME StringsInv
               PROVE  PoolSound
    OBVIOUS
  <2>1. {k \in Keys : Pooled(k) /\ \E x \in Entries : x.key = k} = NamedKeys
    BY DEF NamedKeys, KeySet
  <2>2. /\ NamedKeys \subseteq Keys /\ at \in [NamedKeys -> Nat]
        /\ pool.size \in Nat /\ pool.size <= pool.capacity
        /\ \A k \in NamedKeys : /\ at[k] \in Nat /\ Bytes[k] \in Nat
                                /\ at[k] + Bytes[k] <= pool.size
        /\ \A k, l \in NamedKeys :
             k # l => at[k] + Bytes[k] <= at[l] \/ at[l] + Bytes[l] <= at[k]
    BY BytesType DEF StringsInv, Sound, ApartIn
  <2>3. \A k \in NamedKeys : Span(k) \subseteq 0 .. pool.size - 1
    BY <2>2 DEF Span
  <2>4. \A k, l \in NamedKeys : k # l => Span(k) \cap Span(l) = {}
    BY <2>2 DEF Span
  <2>5. pool.used = Cardinality(UNION {Span(k) : k \in NamedKeys})
    BY DEF StringsInv, Sound, Reach, Span
  <2>6. DOMAIN at = NamedKeys
    BY <2>2
  <2> QED BY <2>1, <2>2, <2>3, <2>4, <2>5, <2>6 DEF PoolSound
<1> QED BY <1>1, <1>2, <1>3, PTL DEF Spec

=============================================================================
