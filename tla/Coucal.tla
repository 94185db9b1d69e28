------------------------------- MODULE Coucal -------------------------------
(***************************************************************************)
(* The hash table behind the links, the cache index and the parked         *)
(* answers (src/coucal/coucal.c): cuckoo hashing with a small stash, keys   *)
(* copied into a pool of strings that is compacted now and then, and the   *)
(* enumeration of the entries.  A call runs alone; the placement of a new  *)
(* entry, which moves others about, takes one step per entry moved.        *)
(***************************************************************************)
EXTENDS Integers, FiniteSets, Sequences, SequencesExt, TLC

CONSTANTS Keys,        \* the keys a caller uses
          Values,      \* 0..n, the unsigned values (uintg)
          Hash1,       \* the two hashes of each key
          Hash2,
          Bytes,       \* the length of each key with its final zero
          StashSize,   \* STASH_SIZE
          MinSize,     \* POW2(MIN_LG_SIZE)
          MaxSize,     \* POW2(COUCAL_HASH_SIZE)
          MinPool,     \* MIN_POOL_CAPACITY
          MaxPool,     \* bound: the largest capacity of the pool explored
          None         \* a free position, and a key without a value

ASSUME HashesAreNumbers ==
  Hash1 \in [Keys -> Nat] /\ Hash2 \in [Keys -> Nat]
ASSUME BytesArePositive == Bytes \in [Keys -> Nat \ {0}]
ASSUME SizesArePositive ==
  /\ MinSize \in Nat \ {0, 1} /\ MaxSize \in Nat /\ StashSize \in Nat
  /\ MinPool \in Nat \ {0} /\ MaxPool \in Nat
ASSUME ValuesAreNumbers ==
  IsFiniteSet(Values) /\ Values # {} /\ Values = 0 .. Cardinality(Values) - 1
Item == [key : Keys, value : Values]
ASSUME NoneIsNothing == None \notin Item /\ None \notin Nat

VARIABLES
  items,     \* the table: an entry or None at each position
  size,      \* POW2(lg_size)
  used,      \* the number of entries
  stash,     \* the entries that found no position
  pool,      \* the pool of strings: its size (high watermark), used, capacity
  at,        \* where the string of a key starts in the pool
  pc,        \* where the call is
  hand,      \* the entry being placed
  hash,      \* cuckoo_hash: the hash that gives its next position
  first,     \* initial_cuckoo_hash
  loops,     \* the moves left
  growing,   \* the stash is being merged into a doubled table
  pending,   \* the entries of the old stash still to be merged
  cursor,    \* the enumeration under way
  answer     \* what the last call has returned

table == <<items, size, used, stash>>
call == <<pc, hand, hash, first, loops, growing, pending>>
strings == <<pool, at>>
vars == <<items, size, used, stash, pool, at, pc, hand, hash, first, loops,
          growing, pending, cursor, answer>>

Idle == pc = "idle"
Positions == 0 .. size - 1

NoCursor == [on |-> FALSE, index |-> 0, seen |-> {}, twice |-> FALSE,
             kept |-> {}, removed |-> FALSE, over |-> FALSE]

Init ==
  /\ size = MinSize
  /\ items = [p \in 0 .. MinSize - 1 |-> None]
  /\ used = 0
  /\ stash = <<>>
  /\ pool = [size |-> 0, used |-> 0, capacity |-> 0]
  /\ at = <<>>
  /\ pc = "idle"
  /\ hand = None
  /\ hash = 0
  /\ first = 0
  /\ loops = 0
  /\ growing = FALSE
  /\ pending = <<>>
  /\ cursor = NoCursor
  /\ answer = 0

-----------------------------------------------------------------------------
(* Looking a key up.                                                       *)

Pos1(k) == Hash1[k] % size
Pos2(k) == Hash2[k] % size
BothPos(k) == {Pos1(k), Pos2(k)}

Free(p) == items[p] = None
Matches(p, k) == ~Free(p) /\ items[p].key = k

InTable(k) == Matches(Pos1(k), k) \/ Matches(Pos2(k), k)
TablePos(k) == IF Matches(Pos1(k), k) THEN Pos1(k) ELSE Pos2(k)

Least(S) == CHOOSE i \in S : \A j \in S : i <= j
StashPlaces(k) == {i \in DOMAIN stash : stash[i].key = k}
InStash(k) == ~InTable(k) /\ StashPlaces(k) # {}
StashPos(k) == Least(StashPlaces(k))

Present(k) == InTable(k) \/ InStash(k)

Fetch(k) ==
  IF InTable(k) THEN items[TablePos(k)].value ELSE stash[StashPos(k)].value

\* A value written where the key already is.
SetValue(k, v) ==
  \/ /\ InTable(k)
     /\ items' = [items EXCEPT ![TablePos(k)].value = v]
     /\ UNCHANGED stash
  \/ /\ InStash(k)
     /\ stash' = [stash EXCEPT ![StashPos(k)].value = v]
     /\ UNCHANGED items

Read(k) ==
  /\ Idle
  /\ answer' = IF Present(k) THEN Fetch(k) ELSE None
  /\ UNCHANGED <<table, strings, call, cursor>>

Count ==
  /\ Idle
  /\ answer' = used
  /\ UNCHANGED <<table, strings, call, cursor>>

-----------------------------------------------------------------------------
(* The pool of strings.  An empty string is never put there.               *)

Pooled(k) == Bytes[k] > 1

\* Mutant: a relocation that forgets the stash.
WalkedOfTable(tab, st) == [i \in 0 .. size - 1 |-> tab[i]]

\* A relocation walks through the table, then through the stash.
Walked(tab, st) ==
  [i \in 0 .. size + Len(st) - 1 |-> IF i < size THEN tab[i] ELSE st[i - size + 1]]

\* The places of a walk whose string is in the pool.
Named(w) == {i \in DOMAIN w : w[i] # None /\ Pooled(w[i].key)}

\* The bytes of the strings before the place n of a walk, each a place and a
\* number.
Copied(w, n) ==
  UNION {{i} \X (1 .. Bytes[w[i].key]) : i \in {j \in Named(w) : j < n}}

\* The strings copied one after the other into a new pool; one that no
\* walked entry names stays where it was.
Compacted(w, capacity) ==
  LET met == {w[i].key : i \in Named(w)}
      place(k) == CHOOSE i \in Named(w) : w[i].key = k
      copied == Cardinality(Copied(w, Cardinality(DOMAIN w)))
  IN [size |-> copied, used |-> copied, capacity |-> capacity,
      at |-> [k \in DOMAIN at |->
                IF k \in met THEN Cardinality(Copied(w, place(k))) ELSE at[k]]]

\* The doublings of the smallest capacity that have n bytes.
Capacities(n) == {c \in n .. MaxPool : \E i \in 0 .. n : c = MinPool * 2 ^ i}

HasRoom(k) == pool.capacity - pool.size >= Bytes[k]
Sparse == pool.used < (pool.size * 3) \div 4

\* The pool once there is room for a key: as it is, larger, or compacted
\* into a larger one when it has many holes.
Expanded(k) ==
  LET need == Least(Capacities(pool.size + Bytes[k]))
  IN IF ~HasRoom(k) /\ Sparse THEN Compacted(Walked(items, stash), need)
     ELSE [size |-> pool.size, used |-> pool.used, at |-> at,
           capacity |-> IF HasRoom(k) THEN pool.capacity ELSE need]

SetStrings(s) ==
  /\ pool' = [size |-> s.size, used |-> s.used, capacity |-> s.capacity]
  /\ at' = s.at

\* The copy of a new key.
AddName(k) ==
  \/ ~Pooled(k) /\ UNCHANGED strings
  \/ /\ Pooled(k)
     /\ HasRoom(k) \/ Capacities(pool.size + Bytes[k]) # {}
     /\ LET room == Expanded(k)
        IN SetStrings([room EXCEPT !.size = @ + Bytes[k],
                                   !.used = @ + Bytes[k],
                                   !.at = [x \in DOMAIN @ \cup {k} |->
                                             IF x = k THEN room.size ELSE @[x]]])

\* The string of a key is freed once no entry of tab and st names it; a pool
\* with too many holes is compacted and may shrink.
FreeName(k, tab, st) ==
  \/ ~Pooled(k) /\ UNCHANGED strings
  \/ /\ Pooled(k)
     /\ LET left == pool.used - Bytes[k]
            holes == left # 0 /\ left < pool.size \div 2
            less == IF left < pool.capacity \div 4
                    THEN pool.capacity \div 2 ELSE pool.capacity
            done == IF holes THEN Compacted(Walked(tab, st), less)
                    ELSE [size |-> pool.size, used |-> left,
                          capacity |-> pool.capacity, at |-> at]
        IN SetStrings([done EXCEPT !.at =
                         [x \in DOMAIN done.at \ {k} |-> done.at[x]]])

-----------------------------------------------------------------------------
(* Writing.                                                                *)

\* The entry in hand has found its place, and the locals are gone.
Settled ==
  /\ hand' = None /\ hash' = 0 /\ first' = 0 /\ loops' = 0
  /\ pc' = IF growing THEN "merge" ELSE "added"

PutAt(p) ==
  /\ items' = [items EXCEPT ![p] = hand]
  /\ Settled
  /\ UNCHANGED stash

\* A new entry, its name copied into the pool.
Insert(k, v) ==
  /\ AddName(k)
  /\ hand' = [key |-> k, value |-> v]
  /\ pc' = "place"
  /\ cursor' = NoCursor
  /\ UNCHANGED <<table, hash, first, loops, growing, pending>>

\* coucal_write_value: the value of a key is replaced, or an entry added.
Write(k, v) ==
  /\ Idle
  /\ \/ /\ SetValue(k, v)
        /\ answer' = 0
        /\ UNCHANGED <<size, used, strings, call, cursor>>
     \/ ~Present(k) /\ Insert(k, v) /\ answer' = 1

\* Mutant: an increment that does not wrap.
IncrementOver(k, by) ==
  /\ Idle /\ SetValue(k, Fetch(k) + by)
  /\ answer' = Fetch(k) + by
  /\ UNCHANGED <<size, used, strings, call, cursor>>

\* coucal_inc and coucal_dec: the value wraps around.
Increment(k, by) ==
  /\ Idle
  /\ \/ LET v == (Fetch(k) + by) % Cardinality(Values)
        IN /\ SetValue(k, v)
           /\ answer' = v
           /\ UNCHANGED <<size, used, strings, call, cursor>>
     \/ ~Present(k) /\ Insert(k, by) /\ answer' = by

\* coucal_add_item_: one of its two positions is free, or the moves begin.
Place ==
  /\ pc = "place"
  /\ LET k == hand.key
     IN \/ Free(Pos1(k)) /\ PutAt(Pos1(k))
        \/ ~Free(Pos1(k)) /\ Free(Pos2(k)) /\ PutAt(Pos2(k))
        \/ /\ ~Free(Pos1(k)) /\ ~Free(Pos2(k))
           /\ pc' = "move"
           /\ hash' = Hash1[k]
           /\ first' = Hash1[k]
           /\ loops' = size
           /\ UNCHANGED <<items, stash, hand>>
  /\ UNCHANGED <<size, used, strings, growing, pending, cursor, answer>>

\* The entry that was at p goes to its other position, unless the moves
\* have come back to the hash they began with.
KickFrom(p) ==
  LET out == items[p]
      next == IF p = Pos1(out.key) THEN Hash2[out.key] ELSE Hash1[out.key]
  IN /\ items' = [items EXCEPT ![p] = hand]
     /\ hand' = out
     /\ hash' = next
     /\ loops' = loops - 1
     /\ pc' = IF p \notin BothPos(out.key) THEN "failed"
              ELSE IF next = first THEN "stash" ELSE "move"
     /\ UNCHANGED <<stash, first>>

Move ==
  /\ pc = "move" /\ loops # 0
  /\ LET p == hash % size
     IN \/ Free(p) /\ PutAt(p)
        \/ ~Free(p) /\ KickFrom(p)
  /\ UNCHANGED <<size, used, strings, growing, pending, cursor, answer>>

\* Emergency stashing, when the moves are used up or have come back.
Lost == pc = "stash" \/ (pc = "move" /\ loops = 0)

ToStash ==
  /\ Lost /\ Len(stash) < StashSize
  /\ stash' = Append(stash, hand)
  /\ Settled
  /\ UNCHANGED <<items, size, used, strings, growing, pending, cursor, answer>>

-----------------------------------------------------------------------------
(* Growing: the table is doubled and the stash merged into it.             *)

\* Mutant: a doubling that only looks at the first hash.
NewPosOfFirst(p) == Hash1[items[p].key] % (2 * size)

\* Where the entry at position p of the old table belongs in the doubled one.
NewPos(p) ==
  LET k == items[p].key
  IN IF Pos1(k) = p THEN Hash1[k] % (2 * size) ELSE Hash2[k] % (2 * size)

\* Mutant: a doubling that leaves every entry where it is.
DoubledInPlace ==
  [p \in 0 .. 2 * size - 1 |-> IF p < size THEN items[p] ELSE None]

Doubled ==
  [p \in 0 .. 2 * size - 1 |->
     LET old == p % size
     IN IF ~Free(old) /\ NewPos(old) = p THEN items[old] ELSE None]

\* A table or a stash more than half full makes the table grow.
MustGrow == used + 1 >= size \div 2 \/ Len(stash) >= StashSize \div 2
CanGrow == 2 * size <= MaxSize

\* The entry added is counted.
Added ==
  /\ pc = "added"
  /\ used' = used + 1
  /\ \/ /\ MustGrow /\ CanGrow
        /\ size' = 2 * size
        /\ items' = Doubled
        /\ pending' = stash
        /\ stash' = <<>>
        /\ growing' = TRUE
        /\ pc' = "merge"
     \/ /\ ~MustGrow
        /\ pc' = "idle"
        /\ UNCHANGED <<items, size, stash, growing, pending>>
  /\ UNCHANGED <<strings, hand, hash, first, loops, cursor, answer>>

\* The entries of the old stash are added one by one.
Merge ==
  /\ pc = "merge"
  /\ \/ /\ pending # <<>>
        /\ hand' = Head(pending)
        /\ pending' = Tail(pending)
        /\ pc' = "place"
        /\ UNCHANGED growing
     \/ /\ pending = <<>>
        /\ growing' = FALSE
        /\ pc' = "idle"
        /\ UNCHANGED <<hand, pending>>
  /\ UNCHANGED <<table, strings, hash, first, loops, cursor, answer>>

\* The assertions that end the program: a stash that overflows, a table that
\* would pass its limit.
Fail ==
  /\ \/ Lost /\ Len(stash) >= StashSize
     \/ pc = "added" /\ MustGrow /\ ~CanGrow
  /\ pc' = "failed"
  /\ UNCHANGED <<table, strings, hand, hash, first, loops, growing, pending,
                 cursor, answer>>

-----------------------------------------------------------------------------
(* Removing.                                                               *)

\* The entries of the stash that could stand at p.
Fitting(p) == {i \in DOMAIN stash : p \in BothPos(stash[i].key)}

\* The first of them takes the position p that has become free.
Unstash(p, freed) ==
  IF Fitting(p) = {} THEN items' = freed /\ UNCHANGED stash
  ELSE LET i == Least(Fitting(p))
       IN /\ items' = [freed EXCEPT ![p] = stash[i]]
          /\ stash' = RemoveAt(stash, i)

RemoveFromTable(k) ==
  LET p     == TablePos(k)
      freed == [items EXCEPT ![p] = None]
  IN /\ InTable(k)
     /\ FreeName(k, freed, stash)
     /\ Unstash(p, freed)

RemoveFromStash(k) ==
  LET shorter == RemoveAt(stash, StashPos(k))
  IN /\ InStash(k)
     /\ FreeName(k, items, shorter)
     /\ stash' = shorter
     /\ UNCHANGED items

\* coucal_remove.
RemoveKey(k) ==
  /\ Idle
  /\ \/ /\ RemoveFromTable(k) \/ RemoveFromStash(k)
        /\ used' = used - 1
        /\ answer' = 1
        /\ cursor' = [cursor EXCEPT !.kept = @ \ {k}, !.removed = cursor.on]
        /\ UNCHANGED size
     \/ ~Present(k) /\ answer' = 0 /\ UNCHANGED <<table, strings, cursor>>
  /\ UNCHANGED call

-----------------------------------------------------------------------------
(* Enumerating.                                                            *)

Contents == {items[p] : p \in Positions} \cup {stash[i] : i \in DOMAIN stash}

\* cursor.kept: the keys that were there when the enumeration began and have
\* not been removed since; an addition ends the watch, for its effect on an
\* enumeration is undefined.
EnumNew ==
  /\ Idle
  /\ cursor' = [NoCursor EXCEPT !.on = TRUE,
                                !.kept = {k \in Keys : Present(k)}]
  /\ UNCHANGED <<table, strings, call, answer>>

Entry(i) == IF i < size THEN items[i] ELSE stash[i - size + 1]

\* Mutant: an enumeration that stops at the end of the table.
EnumNextOfTable ==
  /\ Idle /\ cursor.on /\ ~cursor.over
  /\ LET ahead == {i \in cursor.index .. size - 1 : ~Free(i)}
     IN IF ahead = {}
        THEN cursor' = [cursor EXCEPT !.over = TRUE]
        ELSE cursor' = [cursor EXCEPT
                          !.index = Least(ahead) + 1,
                          !.seen = @ \cup {Entry(Least(ahead)).key}]
  /\ UNCHANGED <<table, strings, call, answer>>

EnumNext ==
  /\ Idle /\ cursor.on /\ ~cursor.over
  /\ LET ahead == {i \in cursor.index .. size + Len(stash) - 1 :
                     i >= size \/ ~Free(i)}
         i     == Least(ahead)
     IN IF ahead = {}
        THEN cursor' = [cursor EXCEPT !.over = TRUE]
        ELSE cursor' = [cursor EXCEPT
                          !.index = i + 1,
                          !.seen = @ \cup {Entry(i).key},
                          !.twice = @ \/ Entry(i).key \in cursor.seen]
  /\ UNCHANGED <<table, strings, call, answer>>

Next ==
  \/ \E k \in Keys, v \in Values : Write(k, v) \/ Increment(k, v)
  \/ Place \/ Move \/ ToStash \/ Added \/ Merge \/ Fail
  \/ \E k \in Keys : Read(k) \/ RemoveKey(k)
  \/ Count
  \/ EnumNew \/ EnumNext

Spec == Init /\ [][Next]_vars

-----------------------------------------------------------------------------
(* What the table guarantees.                                              *)

Contained == IF hand = None THEN {} ELSE {hand}
Entries ==
  (Contents \cup Contained \cup {pending[i] : i \in DOMAIN pending}) \ {None}

TypeOK ==
  /\ size \in Nat \ {0}
  /\ items \in [Positions -> Item \cup {None}]
  /\ used \in Nat
  /\ stash \in Seq(Item) /\ pending \in Seq(Item)
  /\ hand \in Item \cup {None}
  /\ hash \in Nat /\ first \in Nat /\ loops \in Nat
  /\ growing \in BOOLEAN
  /\ pc \in {"idle", "place", "move", "stash", "added", "merge", "failed"}
  /\ pc \in {"place", "move", "stash"} => hand # None

\* Every entry of the table is at one of the two positions its hashes give
\* it, at whatever size the table has grown to: a look-up tries no other.
AtHome == \A p \in Positions : ~Free(p) => p \in BothPos(items[p].key)

\* Besides, an entry is in the stash only because both its positions are
\* taken: a removal and a doubling bring back every entry they make room for.
Placed ==
  /\ AtHome
  /\ pc = "idle" => \A i \in DOMAIN stash :
                      ~Free(Pos1(stash[i].key)) /\ ~Free(Pos2(stash[i].key))

\* The strings of the keys lie apart from each other below the mark of the
\* pool, and the bytes they take are the ones counted as used.
Span(k) == at[k] .. at[k] + Bytes[k] - 1
PoolSound ==
  LET named == {k \in Keys : Pooled(k) /\ \E x \in Entries : x.key = k}
  IN /\ DOMAIN at = named
     /\ \A k \in named : Span(k) \subseteq 0 .. pool.size - 1
     /\ \A k, l \in named : k # l => Span(k) \cap Span(l) = {}
     /\ pool.used = Cardinality(UNION {Span(k) : k \in named})
     /\ pool.size <= pool.capacity

\* An enumeration during which entries may be removed gives no key twice,
\* and gives all of them if nothing was removed.
EnumSound ==
  /\ ~cursor.twice
  /\ cursor.over /\ ~cursor.removed => cursor.kept = cursor.seen

\* The table as a map: what each key has, wherever its entry stands.
Lookup(k) ==
  IF \E x \in Entries : x.key = k
  THEN (CHOOSE x \in Entries : x.key = k).value ELSE None

Promise == INSTANCE KeyMap WITH map <- [k \in Keys |-> Lookup(k)]
MapPromise == Promise!Spec

=============================================================================
