------------------------------ MODULE MirrorLoop ------------------------------
(***************************************************************************)
(* The main loop of a mirror (htscore.c, httpmirror and back_fill): the    *)
(* heap of links that parsing appends to, the position ptr of the engine,  *)
(* the one or two passes over the heap, and the links fetched ahead of ptr.*)
(*                                                                         *)
(* The pool of downloads is here what BackSlots promises of it: a link has *)
(* an entry from its addition until its answer is taken, or written to its *)
(* file in the background, which marks the link as done (pass2 = -1).      *)
(* Links without a file name (robots.txt) are left out: they are never     *)
(* fetched ahead.  Statistics are left out too.                            *)
(***************************************************************************)
EXTENDS Integers, Sequences, FiniteSets

CONSTANTS
  MaxLinks,   \* opt->maxlink: links the heap can hold
  MaxSoc,     \* links fetched ahead at a time
  Retries,    \* opt->retry
  HostOf      \* per file number, the host it comes from

ASSUME LoopAssumption ==
  /\ MaxLinks \in Nat \ {0}
  /\ MaxSoc \in Nat \ {0}
  /\ Retries \in Nat

VARIABLES
  imagesLast, \* opt->getmode & 4: what is not HTML comes in a second pass
  heap,       \* the links: their file, their pass2 and the retries left
  ptr,        \* the current link
  pass,       \* numero_passe
  ant,        \* cache->ptr_ant: where the next links to fetch ahead begin
  last,       \* cache->ptr_last: where ptr was when ant was set
  entry,      \* per file, what the pool has of it
  got,        \* the links whose answer the engine has taken
  at          \* where the loop is

vars == <<imagesLast, heap, ptr, pass, ant, last, entry, got, at>>
pool == <<ant, last, entry>>

Done == -1      \* pass2 of a link written in the background, or invalidated

Files == 1..MaxLinks
Links == 1..Len(heap)
LinkType == [file : Files, pass2 : {Done, 0, 1}, retry : 0..Retries]
Ready == {"good", "bad", "written"}     \* "written": complete in its own file
Places == {"top", "want", "wait", "parse", "next", "end", "exit"}

DoneLinks == {i \in Links : heap[i].pass2 = Done}

(* The first place from p on that is not in S. *)
Passing(S, p, q) == q >= p /\ p..(q - 1) \subseteq S /\ q \notin S

(* The link a file name leads to: the last one recorded with it. *)
Leads(f, i) ==
  /\ i \in Links
  /\ heap[i].file = f
  /\ \A j \in Links : j > i => heap[j].file # f

(* hts_record_link *)
RecordLink(l) == heap' = Append(heap, l)

-----------------------------------------------------------------------------
(* The head of the loop: links done in the background are skipped.  The    *)
(* first link is the list of addresses of the user; it is not fetched.     *)
Skip ==
  /\ at = "top"
  /\ \E q \in ptr..(Len(heap) + 1) :
       /\ Passing(DoneLinks, ptr, q)
       /\ ptr' = q
       /\ at' = IF q \notin Links THEN "next" ELSE IF q = 1 THEN "parse" ELSE "want"
       /\ got' = IF q = 1 THEN got \cup {q} ELSE got
  /\ UNCHANGED <<imagesLast, heap, pass, pool>>

(* hts_mirror_wait_for_next_file: the link has become done meanwhile. *)
NowReady ==
  /\ at = "want"
  /\ ptr \in DoneLinks
  /\ at' = "next"
  /\ UNCHANGED <<imagesLast, heap, ptr, pass, pool, got>>

(* The link is added, unless it has been fetched ahead. *)
Want ==
  /\ at = "want"
  /\ ptr \notin DoneLinks
  /\ LET f == heap[ptr].file
     IN  entry' = IF entry[f] = "none" THEN [entry EXCEPT ![f] = "active"] ELSE entry
  /\ at' = "wait"
  /\ UNCHANGED <<imagesLast, heap, ptr, pass, ant, last, got>>

(* back_index finds no entry any more: written in the background. *)
Gone ==
  /\ at = "wait"
  /\ entry[heap[ptr].file] = "none"
  /\ at' = "next"
  /\ UNCHANGED <<imagesLast, heap, ptr, pass, pool, got>>

-----------------------------------------------------------------------------
(* back_fill *)

(* Fault: what comes last is not told from what comes first. *)
EligibleAnyPass(i) == heap[i].pass2 # Done

(* Fault: what is done is not told from what comes first. *)
EligibleDone(i) == IF heap[i].pass2 = 1 THEN pass = 1 ELSE pass = 0

(* back_fill takes every link but those of pass 0 for one of pass 1. *)
Eligible(i) == IF heap[i].pass2 = 0 THEN pass = 0 ELSE pass = 1

(* Fault: the place kept from the last scan is taken for one that was seen.*)
StartPast == LET a == IF ptr < last THEN 0 ELSE ant + 1
             IN  IF ptr + 1 < a THEN a ELSE ptr + 1

(* From the place the last scan has reached; a second pass begins again. *)
Start == LET a == IF ptr < last THEN 0 ELSE ant
         IN  IF ptr + 1 < a THEN a ELSE ptr + 1

(* The links a scan up to p adds: the first of each file without an entry. *)
Addable(p) ==
  LET C == {i \in Links : /\ Start <= i /\ i < p
                          /\ Eligible(i) /\ entry[heap[i].file] = "none"}
  IN  {i \in C : \A j \in C : heap[j].file = heap[i].file => i <= j}

(* The scan stops after the n-th link it adds, or at the end of the heap.  *)
Fill ==
  /\ at \in {"wait", "parse"}
  /\ \E n \in 1..(MaxSoc - Cardinality({f \in Files : entry[f] = "active"})) :
       \E p \in {Start} \cup Start..(Len(heap) + 1) :
         LET A == Addable(p)
         IN  /\ \/ p \notin Links /\ Cardinality(A) < n
                \/ p - 1 \in A /\ Cardinality(A) = n
             /\ entry' = [f \in Files |->
                            IF \E i \in A : heap[i].file = f THEN "active" ELSE entry[f]]
             /\ ant' = p
             /\ last' = ptr
  /\ UNCHANGED <<imagesLast, heap, ptr, pass, got, at>>

-----------------------------------------------------------------------------
(* The pool, while the engine waits, parses or pauses. *)
Pooling == at \in {"want", "wait", "parse"}

Arrive(f) ==
  /\ Pooling
  /\ entry[f] = "active"
  /\ \E a \in Ready : entry' = [entry EXCEPT ![f] = a]
  /\ UNCHANGED <<imagesLast, heap, ptr, pass, ant, last, got, at>>

(* back_clean: a file written in the background is done, its slot is free. *)
Clean(f) ==
  /\ Pooling
  /\ entry[f] = "written"
  /\ entry' = [entry EXCEPT ![f] = "none"]
  /\ \E i \in Links : Leads(f, i) /\ heap' = [heap EXCEPT ![i].pass2 = Done]
  /\ UNCHANGED <<imagesLast, ptr, pass, ant, last, got, at>>

-----------------------------------------------------------------------------
(* The answer of the current link is taken. *)

(* Fault: the pass under way is forgotten. *)
LaterOfLink == heap[ptr].pass2

(* The pass of a link that takes the place of the current one. *)
Later == IF heap[ptr].pass2 > pass THEN heap[ptr].pass2 ELSE pass

Arrived(a) ==
  /\ at = "wait"
  /\ entry[heap[ptr].file] = a
  /\ got' = got \cup {ptr}
  /\ UNCHANGED <<imagesLast, ptr, pass, ant, last>>

Release == entry' = [entry EXCEPT ![heap[ptr].file] = "none"]

Take ==
  /\ Arrived("good") \/ Arrived("written")
  /\ Release
  /\ at' = "parse"
  /\ UNCHANGED heap

(* Other errors.  The page that comes with one may be kept (opt->errpage); *)
(* it is, too, where a link could not be recorded again in a full heap.    *)
Fail ==
  /\ Arrived("bad")
  /\ Release
  /\ at' \in {"next", "parse"}
  /\ UNCHANGED heap

(* Fault: the retries are not counted. *)
RetryAlways ==
  /\ Arrived("bad")
  /\ Len(heap) < MaxLinks
  /\ RecordLink([heap[ptr] EXCEPT !.pass2 = Later, !.retry = @ - 1])
  /\ Release
  /\ at' = "next"

(* The same link is recorded again, one retry less. *)
Retry ==
  /\ Arrived("bad")
  /\ heap[ptr].retry > 0
  /\ Len(heap) < MaxLinks
  /\ RecordLink([heap[ptr] EXCEPT !.pass2 = Later, !.retry = @ - 1])
  /\ Release
  /\ at' = "next"

(* A partial file that is stale (412, 416), or a redirect to the same page *)
(* in another case or to a file: recorded again under the same file name,  *)
(* the current link being invalidated.                                     *)
Again ==
  /\ Arrived("bad")
  /\ Len(heap) < MaxLinks
  /\ heap' = Append([heap EXCEPT ![ptr].pass2 = Done],
                    [heap[ptr] EXCEPT !.pass2 = Later])
  /\ Release
  /\ at' = "next"

(* A redirect to a file that is known already: the link is only            *)
(* invalidated.  Where the heap is full, hts_mirror_check_moved returns    *)
(* before it applies the error, and the answer is parsed.                  *)
Moved ==
  /\ Arrived("bad")
  /\ heap' = [heap EXCEPT ![ptr].pass2 = Done]
  /\ Release
  /\ at' = "next" \/ (at' = "parse" /\ Len(heap) = MaxLinks)

(* host_ban: no retry is left; the links of the host are invalidated, and  *)
(* what the pool has of them fails, except answers it has swapped to disk. *)
Ban ==
  /\ Arrived("bad")
  /\ heap[ptr].retry = 0
  /\ LET h == HostOf[heap[ptr].file]
     IN  /\ heap' = [i \in Links |->
                       IF HostOf[heap[i].file] = h
                       THEN [heap[i] EXCEPT !.pass2 = Done] ELSE heap[i]]
         /\ \E F \in SUBSET {f \in Files : HostOf[f] = h /\ entry[f] # "none"} :
              /\ \A f \in Files : HostOf[f] = h /\ entry[f] = "active" => f \in F
              /\ entry' = [f \in Files |->
                             IF f = heap[ptr].file THEN "none"
                             ELSE IF f \in F THEN "bad" ELSE entry[f]]
  /\ at' \in {"next", "parse"}

Answer == Gone \/ Take \/ Fail \/ Retry \/ Again \/ Moved \/ Ban

-----------------------------------------------------------------------------
(* Parsing appends the links that are not on the heap yet.  One whose type *)
(* had to be awaited may be under way already (hts_wait_delayed).          *)
Record ==
  /\ at = "parse"
  /\ Len(heap) < MaxLinks
  /\ \E p \in IF imagesLast THEN {pass, 1} ELSE {0} :
       RecordLink([file |-> Len(heap) + 1, pass2 |-> p, retry |-> Retries])
  /\ \E e \in {"none", "active"} : entry' = [entry EXCEPT ![Len(heap) + 1] = e]
  /\ UNCHANGED <<imagesLast, ptr, pass, ant, last, got, at>>

(* The user adds an address while the engine waits. *)
AddUrl ==
  /\ at \in {"want", "wait"}
  /\ Len(heap) < MaxLinks
  /\ RecordLink([file |-> Len(heap) + 1, pass2 |-> pass, retry |-> Retries])
  /\ UNCHANGED <<imagesLast, ptr, pass, pool, got, at>>

Parsed ==
  /\ at = "parse"
  /\ at' = "next"
  /\ UNCHANGED <<imagesLast, heap, ptr, pass, pool, got>>

-----------------------------------------------------------------------------
(* The end of the loop (jump_if_done): the next link of the pass. *)

NotOf(p) == {i \in Links : IF p = 0 THEN heap[i].pass2 # 0 ELSE heap[i].pass2 = 0}

Advance ==
  /\ at = "next"
  /\ \E q \in (ptr + 1)..(ptr + Len(heap) + 1) :
       /\ IF imagesLast THEN Passing(NotOf(pass), ptr + 1, q) ELSE q = ptr + 1
       /\ IF imagesLast /\ pass = 0 /\ q \notin Links
          THEN /\ pass' = 1
               /\ ptr' \in 1..(Len(heap) + 1)
               /\ Passing(NotOf(1), 1, ptr')
          ELSE pass' = pass /\ ptr' = q
  /\ at' = IF ptr' \in Links THEN "top" ELSE "end"
  /\ UNCHANGED <<imagesLast, heap, pool, got>>

(* The user or a callback (exit_xh), or "too many links" while parsing.    *)
(* The quotas never leave the loop: back_checkmirror requests a stop.      *)
Exit ==
  /\ at \in {"wait", "next"} \/ (at = "parse" /\ Len(heap) = MaxLinks)
  /\ at' = "exit"
  /\ UNCHANGED <<imagesLast, heap, ptr, pass, pool, got>>

Terminated == at \in {"end", "exit"} /\ UNCHANGED vars

-----------------------------------------------------------------------------
Init ==
  /\ imagesLast \in BOOLEAN
  /\ heap = <<[file |-> 1, pass2 |-> 0, retry |-> Retries]>>
  /\ ptr = 1
  /\ pass = 0
  /\ ant = 0
  /\ last = 0
  /\ entry = [f \in Files |-> "none"]
  /\ got = {}
  /\ at = "top"

Next ==
  \/ Skip \/ NowReady \/ Want \/ Answer \/ Fill
  \/ \E f \in Files : Arrive(f) \/ Clean(f)
  \/ Record \/ AddUrl \/ Parsed \/ Advance \/ Exit \/ Terminated

Spec == Init /\ [][Next]_vars

-----------------------------------------------------------------------------
(* Properties *)

(* The values of the variables. *)
TypeOK ==
  /\ imagesLast \in BOOLEAN
  /\ heap \in Seq(LinkType) /\ Len(heap) \in 1..MaxLinks
  /\ ptr \in Nat \ {0}
  /\ pass \in {0, 1}
  /\ ant \in Nat /\ last \in Nat
  /\ entry \in [Files -> Ready \cup {"none", "active"}]
  /\ got \subseteq Links
  /\ at \in Places

Seen(i) == i \in got \/ heap[i].pass2 = Done

(* The link, or one recorded later in its place, has been seen. *)
Covered(i) == \E j \in Links : j >= i /\ heap[j].file = heap[i].file /\ Seen(j)

(* When the loop ends by itself, every link has been handled by the engine,*)
(* written in the background or invalidated, or another in its place: the  *)
(* skips of the two passes, the links appended while parsing and those     *)
(* recorded again lose none.                                               *)
NothingForgotten == at = "end" => \A i \in Links : Covered(i)

(* With one pass no file is started whose last link has been handled,      *)
(* written in the background or invalidated.                               *)
FetchedOnce ==
  [][~imagesLast => \A f \in Files : entry[f] = "none" /\ entry'[f] = "active" =>
       \A i \in Links : Leads(f, i) => ~Seen(i)]_vars

(* What is not HTML is started in the second pass only: it comes last.     *)
ImagesLast ==
  [][\A f \in Files : entry[f] = "none" /\ entry'[f] = "active" =>
       \A i \in Links : Leads(f, i) => heap[i].pass2 <= pass]_vars

(* What the scan has passed is fetched or under way: between ptr and ant   *)
(* no link of the pass is left to be fetched when its turn comes.          *)
Ahead ==
  \A i \in Links : ptr < i /\ i < ant /\ heap[i].pass2 = pass => entry[heap[i].file] # "none"

AheadFetched == ~imagesLast => Ahead

=============================================================================
