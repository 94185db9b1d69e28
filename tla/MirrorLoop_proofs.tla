-------------------------- MODULE MirrorLoop_proofs --------------------------
(***************************************************************************)
(* Proofs about the main loop of a mirror, for a heap of any size.         *)
(***************************************************************************)
EXTENDS MirrorLoop, TLAPS

(* Where the links that have had their turn in this pass end. *)
Turned == IF at \in {"parse", "next"} THEN ptr ELSE ptr - 1

(* The loop looks at a link of the heap. *)
Placed ==
  /\ at \in {"top", "want", "wait", "parse"} => ptr \in Links
  /\ at = "next" => ptr <= Len(heap) + 1
  /\ at = "end" => ptr > Len(heap)

(* Without a second pass there is nothing in it. *)
OnePass == ~imagesLast => pass = 0 /\ \A i \in Links : heap[i].pass2 # 1

(* A file is named after the first link that was recorded with it. *)
OldFiles == \A i \in Links : heap[i].file <= i

(* In the first pass, what has been recorded again has been handled, and   *)
(* nothing ahead has.                                                      *)
Firsts ==
  pass = 0 => \A i, j \in Links : i < j /\ heap[i].file = heap[j].file => i \in got
GotBehind ==
  pass = 0 => /\ \A i \in got : i <= ptr
              /\ at \in {"top", "want", "wait"} => ptr \notin got
              /\ at \in {"top", "want"} => heap[ptr].pass2 # 1
              /\ at = "top" /\ imagesLast => heap[ptr].pass2 = 0

(* What has been passed is covered, or waits for the second pass. *)
Behind ==
  /\ \A i \in Links : i <= Turned => Covered(i) \/ (pass = 0 /\ heap[i].pass2 = 1)
  /\ pass = 1 => \A i \in Links : heap[i].pass2 = 0 => Covered(i)

(* The entry of the awaited link is lost only when it is done. *)
Waited == at = "wait" /\ entry[heap[ptr].file] = "none" => Covered(ptr)

(* The end is reached in the last pass. *)
Ended == at = "end" => pass = 1 \/ ~imagesLast

IInv ==
  /\ TypeOK /\ Placed /\ OnePass /\ OldFiles
  /\ Firsts /\ GotBehind /\ Behind /\ Waited /\ Ended

-----------------------------------------------------------------------------
(* What every step within a turn does to the heap: links keep their files, *)
(* may become done, and at most one link is added, for this pass or later. *)
HeapStep ==
  /\ heap' \in Seq(LinkType)
  /\ Len(heap') \in {Len(heap), Len(heap) + 1}
  /\ \A i \in Links : /\ heap'[i].file = heap[i].file
                      /\ heap'[i].pass2 = heap[i].pass2 \/ heap'[i].pass2 = Done
  /\ Len(heap') = Len(heap) + 1 =>
       LET l == heap'[Len(heap) + 1]
       IN  /\ \/ l.file = Len(heap) + 1
              \/ l.file = heap[ptr].file /\ ptr \in got' /\ at # "parse"
           /\ l.pass2 \in {pass, 1}
           /\ ~imagesLast => l.pass2 # 1

(* A heap that is left alone is a step of the heap. *)
LEMMA SameHeap ==
  ASSUME TypeOK, UNCHANGED heap
  PROVE  HeapStep
BY DEF TypeOK, HeapStep, Links

(* A link recorded for this pass or later is a step of the heap. *)
LEMMA OneMore ==
  ASSUME TypeOK, NEW l \in LinkType, RecordLink(l),
         \/ l.file = Len(heap) + 1
         \/ l.file = heap[ptr].file /\ ptr \in got' /\ at # "parse",
         l.pass2 \in {pass, 1}, ~imagesLast => l.pass2 # 1
  PROVE  HeapStep /\ Len(heap') = Len(heap) + 1
<1>1. heap' = Append(heap, l) /\ heap \in Seq(LinkType)
  BY DEF RecordLink, TypeOK
<1>2. heap' \in Seq(LinkType) /\ Len(heap') = Len(heap) + 1
  BY <1>1
<1>3. heap'[Len(heap) + 1] = l /\ \A i \in Links : heap'[i] = heap[i]
  BY <1>1 DEF Links
<1> QED BY <1>2, <1>3 DEF HeapStep

Marked(M) ==
  heap' = [i \in Links |-> IF i \in M THEN [heap[i] EXCEPT !.pass2 = Done] ELSE heap[i]]

(* Marking links as done is a step of the heap. *)
LEMMA Marking ==
  ASSUME TypeOK, NEW M, Marked(M)
  PROVE  /\ HeapStep /\ Len(heap') = Len(heap)
         /\ \A i \in Links : i \in M => heap'[i].pass2 = Done
<1>1. heap \in Seq(LinkType) /\ Len(heap) \in Nat
  BY DEF TypeOK
<1>2. \A i \in Links : heap[i] \in LinkType
  BY <1>1 DEF Links
<1>3. \A i \in Links : heap'[i] \in LinkType
  BY <1>2 DEF LinkType, Marked
<1>4. heap' \in Seq(LinkType) /\ Len(heap') = Len(heap)
  BY <1>1, <1>3 DEF Links, Marked
<1>5. \A i \in Links : /\ heap'[i].file = heap[i].file
                       /\ heap'[i].pass2 = IF i \in M THEN Done ELSE heap[i].pass2
  BY <1>2 DEF LinkType, Marked
<1> QED BY <1>1, <1>4, <1>5 DEF HeapStep

(* What has been covered stays covered. *)
LEMMA CoveredStays ==
  ASSUME TypeOK, HeapStep, got \subseteq got', NEW i \in Links, Covered(i)
  PROVE  Covered(i)'
<1>1. PICK j \in Links : j >= i /\ heap[j].file = heap[i].file /\ Seen(j)
  BY DEF Covered
<1>2. Len(heap) \in Nat /\ Links \subseteq Links'
  BY DEF HeapStep, TypeOK, Links
<1>3. heap'[j].file = heap'[i].file /\ Seen(j)'
  BY <1>1 DEF HeapStep, Seen
<1> QED BY <1>1, <1>2, <1>3 DEF Covered

(* Within a turn, the invariant is kept when the current link is covered   *)
(* before its turn ends.                                                   *)
LEMMA WithinTurn ==
  ASSUME IInv, TypeOK', HeapStep, UNCHANGED <<imagesLast, ptr, pass>>,
         got \subseteq got', got' \subseteq got \cup {ptr},
         at \in {"want", "wait", "parse"},
         at = "parse" => at' \in {"parse", "next"},
         at # "parse" => \/ at' \in {"want", "wait"} /\ got' = got
                         \/ at' \in {"parse", "next"} /\ Covered(ptr)',
         at = "wait" => at' # "want",
         Waited'
  PROVE  IInv'
<1> USE DEF IInv
<1>a. /\ Len(heap) \in Nat /\ ptr \in Links /\ ptr \in Links' /\ ptr \in Nat
      /\ Links \subseteq Links'
      /\ \A i \in Links' : i \in Links \/ (i = Len(heap) + 1 /\ Len(heap') = Len(heap) + 1)
      /\ Len(heap') \in Nat
  BY DEF Placed, HeapStep, TypeOK, Links
<1>b. \A i \in Links : heap[i] \in LinkType
  BY DEF TypeOK, Links
<1>1. Placed'
  BY <1>a DEF Placed, Links
<1>2. OnePass'
  BY <1>a DEF OnePass, HeapStep, Done
<1>3. OldFiles'
  <2> SUFFICES ASSUME NEW i \in Links' PROVE heap'[i].file <= i
    BY DEF OldFiles
  <2>1. CASE i \in Links
    BY <2>1 DEF OldFiles, HeapStep
  <2>2. CASE i \notin Links
    <3>1. i = Len(heap) + 1 /\ ptr < i /\ heap[ptr].file \in Nat /\ heap[ptr].file <= ptr
      BY <2>2, <1>a, <1>b DEF OldFiles, LinkType, Links, Files
    <3> QED BY <3>1, <2>2, <1>a DEF HeapStep
  <2> QED BY <2>1, <2>2
<1>4. Firsts'
  <2> SUFFICES ASSUME pass = 0, NEW i \in Links', NEW j \in Links', i < j,
                      heap'[i].file = heap'[j].file
               PROVE  i \in got'
    BY DEF Firsts
  <2>1. i \in Links /\ i \in Nat /\ j \in Nat
    BY <1>a DEF Links
  <2>2. CASE j \in Links
    BY <2>1, <2>2 DEF Firsts, HeapStep
  <2>3. CASE j \notin Links
    <3>1. j = Len(heap) + 1 /\ Len(heap') = Len(heap) + 1
      BY <2>3, <1>a
    <3>2. heap[i].file # j
      BY <2>1, <3>1, <1>b DEF OldFiles, LinkType, Files, Links
    <3>3. heap[i].file = heap[ptr].file /\ ptr \in got'
      BY <3>1, <3>2, <2>1 DEF HeapStep
    <3>4. CASE i < ptr
      BY <3>3, <3>4, <2>1, <1>a DEF Firsts
    <3>5. CASE i > ptr
      <4>1. ptr \in got
        BY <3>3, <3>5, <2>1, <1>a DEF Firsts
      <4>2. at = "parse"
        BY <4>1, <2>1 DEF GotBehind
      <4> QED BY <4>2, <2>1, <3>1, <3>2 DEF HeapStep
    <3> QED BY <3>3, <3>4, <3>5, <2>1, <1>a
  <2> QED BY <2>2, <2>3
<1>5. GotBehind'
  BY <1>a DEF GotBehind, HeapStep, Done
<1>6. Behind'
  <2>1. ASSUME NEW i \in Links, Covered(i) PROVE Covered(i)'
    BY <2>1, CoveredStays
  <2>2. Turned' = Turned \/ (Turned' = ptr /\ Covered(ptr)')
    BY DEF Turned
  <2>3. ASSUME NEW i \in Links', i <= Turned'
        PROVE  Covered(i)' \/ (pass = 0 /\ heap'[i].pass2 = 1)
    <3>1. i \in Links /\ (i <= Turned \/ i = ptr) /\ i \in Nat
      BY <2>3, <1>a DEF Turned, Links
    <3>2. CASE i = ptr /\ Covered(ptr)'
      BY <3>2
    <3>3. CASE i <= Turned
      <4>1. CASE Covered(i)
        BY <4>1, <3>1, <2>1
      <4>2. CASE pass = 0 /\ heap[i].pass2 = 1 /\ heap'[i].pass2 = Done
        BY <4>2, <3>1, <1>a DEF Covered, Seen, Links
      <4> QED BY <3>1, <3>3, <4>1, <4>2 DEF Behind, HeapStep
    <3> QED BY <2>2, <2>3, <3>1, <3>2, <3>3
  <2>4. ASSUME pass = 1, NEW i \in Links', heap'[i].pass2 = 0 PROVE Covered(i)'
    <3>1. i \in Links
      BY <2>4, <1>a DEF HeapStep
    <3> QED BY <3>1, <2>4, <2>1 DEF Behind, HeapStep, Done
  <2> QED BY <2>3, <2>4 DEF Behind
<1>7. Ended'
  BY DEF Ended
<1> QED BY <1>1, <1>2, <1>3, <1>4, <1>5, <1>6, <1>7

-----------------------------------------------------------------------------
(* The values of a link, and of the position, in a turn. *)
LEMMA Facts ==
  ASSUME IInv
  PROVE  /\ Len(heap) \in Nat /\ heap \in Seq(LinkType) /\ ptr \in Nat
         /\ \A i \in Links : i \in Nat /\ heap[i] \in LinkType /\ heap[i].file \in Files
         /\ at \in {"top", "want", "wait", "parse"} => ptr \in Links
<1>1. heap \in Seq(LinkType) /\ Len(heap) \in Nat
  BY DEF IInv, TypeOK
<1>2. \A i \in Links : i \in Nat /\ heap[i] \in LinkType
  BY <1>1 DEF Links
<1> QED BY <1>1, <1>2 DEF IInv, TypeOK, Placed, LinkType

(* A step that leaves the heap and what has been handled alone. *)
LEMMA Quiet ==
  ASSUME IInv, UNCHANGED <<imagesLast, heap, ptr, pass, got>>,
         ant' \in Nat /\ last' \in Nat,
         entry' \in [Files -> Ready \cup {"none", "active"}],
         at \in {"want", "wait", "parse"},
         at = "parse" => at' \in {"parse", "next"},
         at # "parse" => at' \in {"want", "wait"} \/ (at' \in {"parse", "next"} /\ Covered(ptr)'),
         at = "wait" => at' # "want",
         at' = "wait" => (entry'[heap[ptr].file] = "none" => Covered(ptr))
  PROVE  IInv'
<1>1. TypeOK'
  BY DEF IInv, TypeOK, Places, Links
<1>2. HeapStep
  BY SameHeap DEF IInv
<1>3. Waited'
  BY DEF Waited, Covered, Seen, Links
<1> QED BY <1>1, <1>2, <1>3, WithinTurn

(* The link has become done while the engine was away. *)
LEMMA NowReadyStep == ASSUME IInv, NowReady PROVE IInv'
<1>1. Covered(ptr)'
  BY Facts DEF NowReady, DoneLinks, Covered, Seen, Links
<1> QED BY <1>1, Quiet DEF NowReady, pool, IInv, TypeOK

(* The current link gets an entry, or has one. *)
LEMMA WantStep == ASSUME IInv, Want PROVE IInv'
<1>1. heap[ptr].file \in Files
  BY Facts DEF Want
<1>2. /\ entry' \in [Files -> Ready \cup {"none", "active"}]
      /\ entry'[heap[ptr].file] # "none"
  BY <1>1 DEF Want, IInv, TypeOK
<1> QED BY <1>2, Quiet DEF Want, IInv, TypeOK

(* An entry that has gone was that of a link that is done. *)
LEMMA GoneStep == ASSUME IInv, Gone PROVE IInv'
<1>1. Covered(ptr)'
  BY DEF Gone, IInv, Waited, Covered, Seen, Links
<1> QED BY <1>1, Quiet DEF Gone, pool, IInv, TypeOK

(* An answer arrives: entries only change to entries. *)
LEMMA ArriveStep == ASSUME IInv, NEW f \in Files, Arrive(f) PROVE IInv'
<1>1. entry' \in [Files -> Ready \cup {"none", "active"}]
  BY DEF Arrive, IInv, TypeOK
<1>2. ASSUME at = "wait", entry'[heap[ptr].file] = "none" PROVE Covered(ptr)
  <2>1. entry[heap[ptr].file] = "none"
    BY <1>2, Facts DEF Arrive, Ready, IInv, TypeOK
  <2> QED BY <1>2, <2>1 DEF IInv, Waited
<1> QED BY <1>1, <1>2, Quiet DEF Arrive, Pooling, IInv, TypeOK

(* The end of the parsing of the current link. *)
LEMMA ParsedStep == ASSUME IInv, Parsed PROVE IInv'
BY Quiet DEF Parsed, pool, IInv, TypeOK

(* Links fetched ahead: entries are added, none is lost. *)
LEMMA FillStep == ASSUME IInv, Fill PROVE IInv'
<1>1. PICK n \in 1..(MaxSoc - Cardinality({f \in Files : entry[f] = "active"})),
           p \in {Start} \cup Start..(Len(heap) + 1) :
        /\ entry' = [f \in Files |-> IF \E i \in Addable(p) : heap[i].file = f
                                     THEN "active" ELSE entry[f]]
        /\ ant' = p /\ last' = ptr
  BY DEF Fill
<1>2. Start \in Nat /\ ptr \in Nat /\ Len(heap) \in Nat
  BY DEF IInv, TypeOK, Start
<1>3. ant' \in Nat /\ last' \in Nat
  BY <1>1, <1>2
<1>4. entry' \in [Files -> Ready \cup {"none", "active"}]
  BY <1>1 DEF IInv, TypeOK
<1>5. ASSUME at = "wait", entry'[heap[ptr].file] = "none" PROVE Covered(ptr)
  <2>1. heap[ptr].file \in Files
    BY <1>5, Facts
  <2>2. entry[heap[ptr].file] = "none"
    BY <1>1, <1>5, <2>1
  <2> QED BY <1>5, <2>2 DEF IInv, Waited
<1> QED BY <1>3, <1>4, <1>5, Quiet DEF Fill

-----------------------------------------------------------------------------
(* Marking one link. *)
LEMMA MarkOne ==
  ASSUME IInv, NEW i \in Links, heap' = [heap EXCEPT ![i].pass2 = Done]
  PROVE  Marked({i})
<1>1. heap = [j \in Links |-> heap[j]]
  BY Facts DEF Links
<1> QED BY <1>1 DEF Marked

(* The type of the state after links have been marked. *)
LEMMA MarkedType ==
  ASSUME IInv, HeapStep, Len(heap') <= MaxLinks, imagesLast' = imagesLast,
         pass' = pass, ptr' = ptr, ant' = ant, last' = last, at' \in Places,
         entry' \in [Files -> Ready \cup {"none", "active"}],
         got' \subseteq Links
  PROVE  TypeOK'
<1>1. /\ heap' \in Seq(LinkType) /\ Len(heap) \in 1..MaxLinks
      /\ Len(heap') \in {Len(heap), Len(heap) + 1}
  BY DEF HeapStep, IInv, TypeOK
<1>2. MaxLinks \in Nat
  BY LoopAssumption
<1>3. Len(heap') \in 1..MaxLinks /\ Links \subseteq Links'
  BY <1>1, <1>2 DEF Links
<1> QED BY <1>1, <1>3 DEF IInv, TypeOK

(* A file written in the background: its link is done. *)
LEMMA CleanStep == ASSUME IInv, NEW f \in Files, Clean(f) PROVE IInv'
<1>1. PICK i \in Links : Leads(f, i) /\ heap' = [heap EXCEPT ![i].pass2 = Done]
  BY DEF Clean, Leads
<1>2. /\ HeapStep /\ Len(heap') = Len(heap) /\ heap'[i].pass2 = Done
  BY <1>1, MarkOne, Marking DEF IInv
<1>3. entry' \in [Files -> Ready \cup {"none", "active"}]
  BY DEF Clean, IInv, TypeOK
<1>4. TypeOK'
  BY <1>2, <1>3, MarkedType DEF Clean, IInv, TypeOK, Places
<1>5. ASSUME at = "wait", entry'[heap'[ptr].file] = "none" PROVE Covered(ptr)'
  <2>1. ptr \in Links /\ heap'[ptr].file = heap[ptr].file /\ heap[ptr].file \in Files
    BY <1>2, <1>5, Facts DEF HeapStep
  <2>2. CASE heap[ptr].file = f
    <3>1. i \in Links /\ i \in Nat /\ ptr \in Nat /\ heap[i].file = f /\ ~(ptr > i)
      BY <1>1, <2>1, <2>2, Facts DEF Leads
    <3>2. i >= ptr
      BY <3>1
    <3>3. Links' = Links /\ ptr' = ptr
      BY <1>2 DEF Links, Clean
    <3>4. heap'[i].file = heap'[ptr].file
      BY <1>2, <2>1, <2>2, <3>1 DEF HeapStep
    <3> QED BY <1>2, <3>1, <3>2, <3>3, <3>4 DEF Covered, Seen, Done
  <2>3. CASE heap[ptr].file # f
    <3>1. entry[heap[ptr].file] = "none"
      BY <1>5, <2>1, <2>3 DEF Clean, IInv, TypeOK
    <3>2. Covered(ptr)
      BY <1>5, <3>1 DEF IInv, Waited
    <3> QED BY <1>2, <2>1, <3>2, CoveredStays DEF Clean, IInv
  <2> QED BY <2>2, <2>3
<1>6. Waited'
  BY <1>5 DEF Waited, Clean
<1> QED BY <1>2, <1>4, <1>6, WithinTurn DEF Clean, Pooling

-----------------------------------------------------------------------------
(* The answer of the current link is taken: the link is in got. *)
LEMMA AnswerFacts ==
  ASSUME IInv, NEW a, Arrived(a)
  PROVE  /\ ptr \in Links /\ ptr \in got' /\ got' = got \cup {ptr} /\ got' \subseteq Links
         /\ at = "wait" /\ UNCHANGED <<imagesLast, ptr, pass, ant, last>>
         /\ Len(heap) \in Nat /\ Len(heap) <= MaxLinks /\ MaxLinks \in Nat
         /\ heap[ptr] \in LinkType /\ heap[ptr].file \in Files
BY Facts, LoopAssumption DEF Arrived, IInv, TypeOK

(* The entry of the current link is released. *)
LEMMA ReleaseType ==
  ASSUME IInv, Release
  PROVE  entry' \in [Files -> Ready \cup {"none", "active"}]
BY DEF Release, IInv, TypeOK

(* An answer that ends the turn or the wait of the current link. *)
LEMMA AnswerStep ==
  ASSUME IInv, HeapStep, Len(heap') <= MaxLinks, at' \in {"parse", "next"},
         entry' \in [Files -> Ready \cup {"none", "active"}],
         NEW a, Arrived(a)
  PROVE  IInv'
<1>1. TypeOK'
  BY AnswerFacts, MarkedType DEF Places
<1>2. Covered(ptr)'
  <2>1. ptr \in Links' /\ ptr \in Nat
    BY AnswerFacts, Facts DEF HeapStep, Links
  <2> QED BY <2>1, AnswerFacts DEF Covered, Seen
<1>3. Waited'
  BY DEF Waited
<1> QED BY <1>1, <1>2, <1>3, AnswerFacts, WithinTurn

(* The pass of a link that takes the place of the current one. *)
LEMMA LaterPass ==
  ASSUME IInv, ptr \in Links
  PROVE  Later \in {0, 1} /\ Later \in {pass, 1} /\ (~imagesLast => Later # 1)
BY Facts DEF IInv, TypeOK, OnePass, Later, LinkType, Done

(* The link is recorded again. *)
LEMMA RetryHeap == ASSUME IInv, Retry PROVE HeapStep /\ Len(heap') <= MaxLinks
<1> DEFINE l == [heap[ptr] EXCEPT !.pass2 = Later, !.retry = @ - 1]
<1>1. Arrived("bad") /\ Release /\ at' \in {"parse", "next"}
  BY DEF Retry
<1>2. l \in LinkType /\ l.file = heap[ptr].file /\ l.pass2 = Later
  <2>1. heap[ptr].retry \in 0..Retries /\ heap[ptr].retry > 0 /\ Retries \in Nat
    BY <1>1, AnswerFacts, LoopAssumption DEF Retry, LinkType
  <2>2. heap[ptr].retry - 1 \in 0..Retries
    BY <2>1
  <2> QED BY <2>2, <1>1, AnswerFacts, LaterPass DEF LinkType
<1>3. RecordLink(l) /\ Len(heap) < MaxLinks
  BY DEF Retry
<1>4. HeapStep /\ Len(heap') = Len(heap) + 1
  <2> HIDE DEF l
  <2> QED BY <1>1, <1>2, <1>3, AnswerFacts, LaterPass, OneMore DEF IInv
<1> QED BY <1>1, <1>3, <1>4, AnswerFacts

(* Replacing an element of a sequence. *)
LEMMA ExceptSeq ==
  ASSUME NEW S, NEW s \in Seq(S), NEW i \in 1..Len(s), NEW x \in S
  PROVE  [s EXCEPT ![i] = x] \in Seq(S) /\ Len([s EXCEPT ![i] = x]) = Len(s)
OBVIOUS

(* The link is invalidated and recorded again. *)
LEMMA AgainHeap == ASSUME IInv, Again PROVE HeapStep /\ Len(heap') <= MaxLinks
<1> DEFINE h == [heap EXCEPT ![ptr].pass2 = Done]
           l == [heap[ptr] EXCEPT !.pass2 = Later]
<1>1. Arrived("bad") /\ Release /\ at' \in {"parse", "next"} /\ Len(heap) < MaxLinks
  BY DEF Again
<1>2. l \in LinkType /\ l.file = heap[ptr].file /\ l.pass2 = Later
  BY <1>1, AnswerFacts, LaterPass DEF LinkType
<1>3. /\ h \in Seq(LinkType) /\ Len(h) = Len(heap)
      /\ \A i \in Links : /\ h[i].file = heap[i].file
                          /\ h[i].pass2 = heap[i].pass2 \/ h[i].pass2 = Done
  <2>1. [heap[ptr] EXCEPT !.pass2 = Done] \in LinkType
    BY <1>1, AnswerFacts DEF LinkType
  <2>2. h = [heap EXCEPT ![ptr] = [heap[ptr] EXCEPT !.pass2 = Done]]
    OBVIOUS
  <2>3. h \in Seq(LinkType) /\ Len(h) = Len(heap)
    <3> HIDE DEF h
    <3> QED BY <2>1, <2>2, ExceptSeq, Facts, <1>1, AnswerFacts DEF Links
  <2>4. \A i \in Links : h[i] = IF i = ptr THEN [heap[ptr] EXCEPT !.pass2 = Done] ELSE heap[i]
    BY <2>2, Facts DEF Links
  <2>5. /\ [heap[ptr] EXCEPT !.pass2 = Done].file = heap[ptr].file
        /\ [heap[ptr] EXCEPT !.pass2 = Done].pass2 = Done
    BY <1>1, AnswerFacts DEF LinkType
  <2> HIDE DEF h
  <2> QED BY <2>3, <2>4, <2>5
<1>4. heap' = Append(h, l)
  BY DEF Again
<1>5. /\ heap' \in Seq(LinkType) /\ Len(heap') = Len(heap) + 1
      /\ heap'[Len(heap) + 1] = l /\ \A i \in Links : heap'[i] = h[i]
  <2> HIDE DEF h, l
  <2> QED BY <1>1, <1>2, <1>3, <1>4, AnswerFacts DEF Links
<1>6. HeapStep
  <2> HIDE DEF h, l
  <2> QED BY <1>1, <1>2, <1>3, <1>5, AnswerFacts, LaterPass DEF HeapStep
<1> QED BY <1>1, <1>5, <1>6, AnswerFacts

(* The link is invalidated. *)
LEMMA MovedHeap == ASSUME IInv, Moved PROVE HeapStep /\ Len(heap') <= MaxLinks
<1>1. Arrived("bad") /\ Release /\ at' \in {"parse", "next"}
  BY DEF Moved
<1>2. heap' = [heap EXCEPT ![ptr].pass2 = Done] /\ ptr \in Links
  BY <1>1, AnswerFacts DEF Moved
<1>3. HeapStep /\ Len(heap') = Len(heap)
  BY <1>2, MarkOne, Marking DEF IInv
<1> QED BY <1>1, <1>3, AnswerFacts

(* What an answer does to the heap. *)
LEMMA AnswerHeap ==
  ASSUME IInv, Take \/ Fail \/ Retry \/ Again \/ Moved
  PROVE  HeapStep /\ Len(heap') <= MaxLinks
<1>1. CASE Take \/ Fail
  <2>1. UNCHANGED heap /\ \E a : Arrived(a)
    BY <1>1 DEF Take, Fail
  <2> QED BY <2>1, AnswerFacts, SameHeap DEF IInv
<1> QED BY <1>1, RetryHeap, AgainHeap, MovedHeap

(* The answers but a ban and one that has gone. *)
LEMMA TakenStep == ASSUME IInv, Take \/ Fail \/ Retry \/ Again \/ Moved PROVE IInv'
<1>1. PICK a : Arrived(a)
  BY DEF Take, Fail, Retry, Again, Moved
<1>2. Release /\ at' \in {"parse", "next"}
  BY DEF Take, Fail, Retry, Again, Moved
<1> QED BY <1>1, <1>2, AnswerHeap, ReleaseType, AnswerStep

(* The links of a host are invalidated. *)
LEMMA BanHeap == ASSUME IInv, Ban PROVE HeapStep /\ Len(heap') = Len(heap)
<1> DEFINE M == {i \in Links : HostOf[heap[i].file] = HostOf[heap[ptr].file]}
<1>1. Marked(M)
  BY DEF Ban, Marked
<1> HIDE DEF M
<1> QED BY <1>1, Marking DEF IInv

(* A host is banned. *)
LEMMA BanStep == ASSUME IInv, Ban PROVE IInv'
<1>1. Arrived("bad") /\ at' \in {"parse", "next"}
  BY DEF Ban
<1>2. entry' \in [Files -> Ready \cup {"none", "active"}]
  BY DEF Ban, Ready, IInv, TypeOK
<1> QED BY <1>1, <1>2, BanHeap, AnswerFacts, AnswerStep

-----------------------------------------------------------------------------
(* A link found by parsing, or added by the user. *)
LEMMA NewLink ==
  ASSUME IInv, Len(heap) < MaxLinks, NEW p \in {0, 1}, p \in {pass, 1},
         ~imagesLast => p # 1
  PROVE  LET l == [file |-> Len(heap) + 1, pass2 |-> p, retry |-> Retries]
         IN  RecordLink(l) => HeapStep /\ Len(heap') = Len(heap) + 1
<1> DEFINE l == [file |-> Len(heap) + 1, pass2 |-> p, retry |-> Retries]
<1>1. l \in LinkType /\ l.file = Len(heap) + 1 /\ l.pass2 = p
  BY Facts, LoopAssumption DEF LinkType, Files
<1> HIDE DEF l
<1>2. RecordLink(l) => HeapStep /\ Len(heap') = Len(heap) + 1
  BY <1>1, OneMore DEF IInv
<1> QED BY <1>2 DEF l

(* What a new link does to the heap. *)
LEMMA NewLinkHeap ==
  ASSUME IInv, Record \/ AddUrl
  PROVE  HeapStep /\ Len(heap') = Len(heap) + 1 /\ Len(heap) < MaxLinks
<1>1. CASE AddUrl
  BY <1>1, NewLink DEF AddUrl, IInv, OnePass, TypeOK
<1>2. CASE Record
  <2>1. PICK p \in IF imagesLast THEN {pass, 1} ELSE {0} :
          RecordLink([file |-> Len(heap) + 1, pass2 |-> p, retry |-> Retries])
    BY <1>2 DEF Record
  <2>2. p \in {0, 1} /\ p \in {pass, 1} /\ (~imagesLast => p # 1) /\ Len(heap) < MaxLinks
    BY <1>2 DEF Record, IInv, OnePass, TypeOK
  <2> QED BY <2>1, <2>2, NewLink
<1> QED BY <1>1, <1>2

(* Parsing records a link. *)
LEMMA RecordStep == ASSUME IInv, Record PROVE IInv'
<1>1. entry' \in [Files -> Ready \cup {"none", "active"}]
  BY DEF Record, IInv, TypeOK
<1>2. TypeOK'
  <2>1. Len(heap') <= MaxLinks
    BY NewLinkHeap, Facts, LoopAssumption
  <2>2. /\ UNCHANGED <<imagesLast, ptr, pass, ant, last, got, at>>
        /\ at \in Places /\ got \subseteq Links
    BY DEF Record, IInv, TypeOK
  <2> QED BY <1>1, <2>1, <2>2, NewLinkHeap, MarkedType
<1>3. Waited'
  BY DEF Record, Waited
<1> QED BY <1>2, <1>3, NewLinkHeap, WithinTurn DEF Record

(* The user adds an address. *)
LEMMA AddUrlStep == ASSUME IInv, AddUrl PROVE IInv'
<1>1. HeapStep /\ Len(heap') = Len(heap) + 1 /\ Len(heap) < MaxLinks
  BY NewLinkHeap
<1>2. TypeOK'
  BY <1>1, Facts, LoopAssumption, MarkedType DEF AddUrl, pool, IInv, TypeOK, Places
<1>3. ASSUME at = "wait", entry'[heap'[ptr].file] = "none" PROVE Covered(ptr)'
  <2>1. ptr \in Links /\ heap'[ptr].file = heap[ptr].file
    BY <1>1, <1>3, Facts DEF HeapStep
  <2>2. Covered(ptr)
    BY <1>3, <2>1 DEF AddUrl, pool, IInv, Waited
  <2> QED BY <1>1, <2>1, <2>2, CoveredStays DEF AddUrl, IInv
<1>4. Waited'
  BY <1>3 DEF Waited, AddUrl
<1> QED BY <1>1, <1>2, <1>4, WithinTurn DEF AddUrl

-----------------------------------------------------------------------------
(* Links that are done are skipped: they are covered. *)
LEMMA SkipStep == ASSUME IInv, Skip PROVE IInv'
<1>1. PICK q \in ptr..(Len(heap) + 1) :
        /\ Passing(DoneLinks, ptr, q) /\ ptr' = q
        /\ at' = IF q \notin Links THEN "next" ELSE IF q = 1 THEN "parse" ELSE "want"
        /\ got' = IF q = 1 THEN got \cup {q} ELSE got
  BY DEF Skip
<1>2. /\ q \in Nat \ {0} /\ ptr \in Nat \ {0} /\ Len(heap) \in Nat /\ ptr \in Links
      /\ 1 \in Links /\ at = "top" /\ UNCHANGED <<imagesLast, heap, pass, ant, last, entry>>
      /\ \A i \in Links : i \in Nat
      /\ q > ptr => ptr \in DoneLinks
  BY <1>1, Facts DEF Skip, pool, IInv, TypeOK, Passing, Links
<1>3. Links' = Links
  BY <1>2 DEF Links
<1>4. TypeOK'
  BY <1>1, <1>2, <1>3 DEF IInv, TypeOK, Places
<1>5. Placed' /\ OnePass' /\ OldFiles' /\ Waited' /\ Ended'
  BY <1>1, <1>2, <1>3 DEF IInv, Placed, OnePass, OldFiles, Waited, Ended, Links
<1>6. Firsts' /\ GotBehind'
  <2>1. Firsts'
    BY <1>1, <1>2, <1>3 DEF IInv, Firsts
  <2>2. ASSUME pass = 0 PROVE \A i \in got' : i <= q
    BY <1>1, <1>2, <2>2 DEF IInv, GotBehind, TypeOK
  <2>3. ASSUME pass = 0, at' = "want" PROVE q \notin got'
    BY <1>1, <1>2, <2>3 DEF IInv, GotBehind, TypeOK
  <2>4. ASSUME pass = 0, at' = "want" PROVE heap[q].pass2 # 1
    <3>1. CASE imagesLast
      BY <1>1, <1>2, <2>4, <3>1 DEF IInv, GotBehind, DoneLinks, Done
    <3>2. CASE ~imagesLast
      BY <1>1, <1>2, <2>4, <3>2 DEF IInv, OnePass
    <3> QED BY <3>1, <3>2 DEF IInv, TypeOK
  <2> QED BY <1>1, <1>2, <2>1, <2>2, <2>3, <2>4 DEF GotBehind
<1>7. Behind'
  <2>1. ASSUME NEW i \in Links, Covered(i) PROVE Covered(i)'
    <3>1. got \subseteq got' /\ HeapStep
      BY <1>1, <1>2, SameHeap DEF IInv
    <3> QED BY <2>1, <3>1, CoveredStays DEF IInv
  <2>2. ASSUME NEW i \in Links, ptr <= i, i < q PROVE Covered(i)'
    <3>1. heap'[i].pass2 = Done /\ i \in Links'
      BY <1>1, <1>2, <1>3, <2>2 DEF Passing, DoneLinks
    <3> QED BY <3>1, <1>2 DEF Covered, Seen, Done
  <2>3. ASSUME at' = "parse" PROVE Covered(1)'
    BY <1>1, <1>2, <1>3, <2>3 DEF Covered, Seen
  <2>4. ASSUME NEW i \in Links, i <= Turned'
        PROVE  Covered(i)' \/ (pass = 0 /\ heap[i].pass2 = 1)
    <3>1. i < q \/ (i = 1 /\ at' = "parse")
      BY <1>1, <1>2, <2>4 DEF Turned, Links
    <3>2. CASE i < ptr
      BY <3>2, <1>2, <2>1 DEF IInv, Behind, Turned
    <3>3. CASE ptr <= i /\ i < q
      BY <3>3, <2>2
    <3>4. CASE i = 1 /\ at' = "parse"
      BY <3>4, <2>3
    <3> QED BY <3>1, <3>2, <3>3, <3>4, <1>2
  <2> QED BY <1>2, <1>3, <2>1, <2>4 DEF IInv, Behind
<1> QED BY <1>4, <1>5, <1>6, <1>7 DEF IInv

(* The places before p. *)
LEMMA Before == \A i, p \in Nat : i >= 1 /\ i < p => i \in 1..(p - 1)
OBVIOUS

(* The next link of the pass: what is skipped is covered, or is left for   *)
(* the second pass, which begins when nothing of the first is left.        *)
LEMMA AdvanceStep == ASSUME IInv, Advance PROVE IInv'
<1>1. PICK q \in (ptr + 1)..(ptr + Len(heap) + 1) :
        /\ IF imagesLast THEN Passing(NotOf(pass), ptr + 1, q) ELSE q = ptr + 1
        /\ IF imagesLast /\ pass = 0 /\ q \notin Links
           THEN pass' = 1 /\ ptr' \in 1..(Len(heap) + 1) /\ Passing(NotOf(1), 1, ptr')
           ELSE pass' = pass /\ ptr' = q
  BY DEF Advance
<1>2. /\ q \in Nat /\ q > ptr /\ ptr \in Nat \ {0} /\ Len(heap) \in Nat
      /\ ptr <= Len(heap) + 1 /\ at = "next" /\ pass \in {0, 1} /\ imagesLast \in BOOLEAN
      /\ at' = IF ptr' \in Links THEN "top" ELSE "end"
      /\ UNCHANGED <<imagesLast, heap, ant, last, entry, got>>
      /\ \A i \in Links : i \in Nat /\ i <= Len(heap)
      /\ \A i \in Links : heap[i].pass2 \in {Done, 0, 1}
  BY Facts DEF Advance, pool, IInv, TypeOK, Placed, Links, LinkType
<1>3. Links' = Links /\ ptr' \in Nat \ {0} /\ pass' \in {0, 1}
  BY <1>1, <1>2 DEF Links
<1>4. TypeOK'
  BY <1>2, <1>3 DEF IInv, TypeOK, Places
<1>5. Placed' /\ OldFiles' /\ Waited'
  BY <1>2, <1>3 DEF IInv, Placed, OldFiles, Waited, Links
<1>6. OnePass' /\ Ended' /\ (pass' = 0 => pass = 0 /\ ptr' = q)
  <2>1. OnePass' /\ (pass' = 0 => pass = 0 /\ ptr' = q)
    BY <1>1, <1>2, <1>3 DEF IInv, OnePass
  <2>2. ASSUME at' = "end", pass' = 0, imagesLast PROVE FALSE
    BY <1>1, <1>2, <2>1, <2>2
  <2> QED BY <1>2, <1>3, <2>1, <2>2 DEF Ended
<1>7. Firsts' /\ GotBehind'
  <2>1. Firsts'
    BY <1>2, <1>3, <1>6 DEF IInv, Firsts
  <2>2. ASSUME pass' = 0 PROVE \A i \in got : i < ptr' /\ i <= ptr'
    BY <1>2, <1>3, <1>6, <2>2 DEF IInv, GotBehind, TypeOK
  <2>3. ASSUME pass' = 0, at' = "top" PROVE heap[ptr'].pass2 # 1 /\ (imagesLast => heap[ptr'].pass2 = 0)
    <3>1. ptr' \in Links /\ ptr' = q /\ pass = 0
      BY <1>2, <1>6, <2>3
    <3>2. CASE imagesLast
      BY <1>1, <3>1, <3>2 DEF Passing, NotOf
    <3>3. CASE ~imagesLast
      BY <3>1, <3>3 DEF IInv, OnePass
    <3> QED BY <3>2, <3>3, <1>2
  <2>4. ASSUME pass' = 0, ptr' \in got PROVE FALSE
    BY <2>2, <2>4, <1>3
  <2> QED BY <1>2, <2>1, <2>2, <2>3, <2>4 DEF GotBehind
<1>8. Behind'
  <2>1. ASSUME NEW i \in Links, Covered(i) PROVE Covered(i)'
    BY <2>1, <1>2, SameHeap, CoveredStays DEF IInv
  <2>2. ASSUME NEW i \in Links, heap[i].pass2 = Done PROVE Covered(i)'
    BY <2>2, <1>2, <1>3 DEF Covered, Seen, Done
  <2>3. ASSUME NEW i \in Links, i < q
        PROVE  Covered(i)' \/ (pass = 0 /\ heap[i].pass2 = 1)
    <3>1. CASE i <= ptr
      BY <3>1, <1>2, <2>1 DEF IInv, Behind, Turned
    <3>2. CASE i > ptr
      <4>1. imagesLast /\ i \in NotOf(pass)
        BY <1>1, <1>2, <2>3, <3>2 DEF Passing
      <4>2. CASE pass = 0
        BY <4>1, <4>2, <1>2, <2>2 DEF NotOf
      <4>3. CASE pass = 1
        BY <4>1, <4>3, <1>2, <2>1 DEF NotOf, IInv, Behind
      <4> QED BY <4>2, <4>3, <1>2
    <3> QED BY <3>1, <3>2, <1>2
  <2>4. ASSUME pass' = 1, NEW i \in Links, heap[i].pass2 = 0 PROVE Covered(i)'
    <3>1. CASE pass = 1
      BY <3>1, <2>1, <2>4 DEF IInv, Behind
    <3>2. CASE pass = 0
      <4>1. q \notin Links
        BY <1>1, <2>4, <3>2
      <4>2. i < q
        BY <4>1, <1>2 DEF Links
      <4> QED BY <4>2, <2>3, <2>4
    <3> QED BY <3>1, <3>2, <1>2
  <2>5. ASSUME NEW i \in Links, i < ptr'
        PROVE  Covered(i)' \/ (pass' = 0 /\ heap[i].pass2 = 1)
    <3>1. CASE pass' = pass /\ ptr' = q
      BY <3>1, <2>3, <2>5
    <3>2. CASE pass' = 1 /\ Passing(NotOf(1), 1, ptr')
      <4>1. i \in NotOf(1)
        <5>1. i \in Nat /\ i >= 1 /\ ptr' \in Nat
          BY <1>2, <1>3 DEF Links
        <5>2. i \in 1..(ptr' - 1)
          BY <2>5, <5>1, Before
        <5> QED BY <3>2, <5>2 DEF Passing
      <4> QED BY <4>1, <3>2, <2>4 DEF NotOf
    <3> QED BY <1>1, <3>1, <3>2
  <2>6. Turned' = ptr' - 1
    BY <1>2 DEF Turned
  <2>7. \A i \in Links : i <= ptr' - 1 => i < ptr'
    BY <1>2, <1>3
  <2> QED BY <1>2, <1>3, <2>4, <2>5, <2>6, <2>7 DEF Behind
<1> QED BY <1>4, <1>5, <1>6, <1>7, <1>8 DEF IInv

(* The loop is left. *)
LEMMA ExitStep == ASSUME IInv, Exit PROVE IInv'
<1>1. /\ at' = "exit" /\ UNCHANGED <<imagesLast, heap, ptr, pass, ant, last, entry, got>>
      /\ at \in {"wait", "next", "parse"} /\ ptr \in Nat
  BY DEF Exit, pool, IInv, TypeOK
<1>2. TypeOK' /\ Placed' /\ OnePass' /\ OldFiles' /\ Waited' /\ Ended'
  BY <1>1 DEF IInv, TypeOK, Placed, OnePass, OldFiles, Waited, Ended, Links, Places
<1>3. Firsts' /\ GotBehind'
  BY <1>1 DEF IInv, Firsts, GotBehind, Links
<1>4. Behind'
  <2>1. \A i \in Links : i \in Nat /\ (Covered(i) => Covered(i)')
    BY <1>1, Facts DEF Covered, Seen, Links
  <2>2. Links' = Links /\ \A i \in Links : i <= Turned' => i <= Turned
    BY <1>1, <2>1 DEF Turned, Links
  <2> QED BY <1>1, <2>1, <2>2 DEF IInv, Behind
<1> QED BY <1>2, <1>3, <1>4 DEF IInv

-----------------------------------------------------------------------------
(* The invariant holds at first. *)
LEMMA InitInv == ASSUME Init PROVE IInv
<1> DEFINE l == [file |-> 1, pass2 |-> 0, retry |-> Retries]
<1>1. MaxLinks \in Nat \ {0} /\ Retries \in Nat
  BY LoopAssumption
<1>2. l \in LinkType
  BY <1>1 DEF LinkType, Files
<1>3. /\ heap = <<l>> /\ ptr = 1 /\ pass = 0 /\ ant = 0 /\ last = 0 /\ got = {} /\ at = "top"
      /\ imagesLast \in BOOLEAN /\ entry = [f \in Files |-> "none"]
  BY DEF Init
<1>4. heap \in Seq(LinkType) /\ Len(heap) = 1 /\ heap[1].file = 1 /\ heap[1].pass2 = 0
  BY <1>2, <1>3
<1>5. Links = {1}
  BY <1>4 DEF Links
<1> HIDE DEF l
<1>6. TypeOK
  BY <1>1, <1>3, <1>4 DEF TypeOK, Places
<1> QED BY <1>3, <1>4, <1>5, <1>6
        DEF IInv, Placed, OnePass, OldFiles, Firsts, GotBehind, Behind, Turned, Waited, Ended

(* Nothing changes. *)
LEMMA StutterStep == ASSUME IInv, UNCHANGED vars PROVE IInv'
<1>1. \A i : Covered(i)' = Covered(i)
  BY DEF vars, Covered, Seen, Links
<1> QED BY <1>1 DEF vars, IInv, TypeOK, Placed, OnePass, OldFiles, Firsts, GotBehind,
                Behind, Turned, Waited, Ended, Links

(* The inductive invariant of the loop. *)
LEMMA Invariant == Spec => []IInv
<1>1. Init => IInv
  BY InitInv
<1>2. IInv /\ [Next]_vars => IInv'
  BY SkipStep, NowReadyStep, WantStep, GoneStep, TakenStep, BanStep,
     FillStep, ArriveStep, CleanStep, RecordStep, AddUrlStep, ParsedStep,
     AdvanceStep, ExitStep, StutterStep DEF Next, Answer, Terminated
<1> QED BY <1>1, <1>2, PTL DEF Spec

-----------------------------------------------------------------------------
(* The variables keep their types, for any number of links: the heap of    *)
(* httpmirror never grows past opt->maxlink and ptr stays within it.       *)
THEOREM TypeCorrect == Spec => []TypeOK
<1>1. IInv => TypeOK
  BY DEF IInv
<1> QED BY <1>1, Invariant, PTL

(* When the loop of httpmirror ends by itself, no link was forgotten: each *)
(* was handled, written in the background or invalidated, or another one   *)
(* recorded in its place was.                                              *)
THEOREM NothingLost == Spec => []NothingForgotten
<1>1. ASSUME IInv, at = "end", NEW i \in Links PROVE Covered(i)
  <2>1. i \in Nat /\ i <= Len(heap) /\ Len(heap) \in Nat /\ ptr \in Nat /\ ptr > Len(heap)
    BY <1>1, Facts DEF IInv, Placed, Links
  <2>2. i <= Turned
    BY <1>1, <2>1 DEF Turned
  <2>3. Covered(i) \/ (pass = 0 /\ heap[i].pass2 = 1)
    BY <1>1, <2>2 DEF IInv, Behind
  <2> QED BY <1>1, <2>3 DEF IInv, Ended, OnePass
<1>2. IInv => NothingForgotten
  BY <1>1 DEF NothingForgotten
<1> QED BY <1>2, Invariant, PTL

-----------------------------------------------------------------------------
(* In the first pass, the last link recorded with a file is the only one   *)
(* that has not been handled.                                              *)
LEMMA OnlyLast ==
  ASSUME IInv, pass = 0, NEW f, NEW i \in Links, Leads(f, i),
         NEW j \in Links, heap[j].file = f, j \notin got
  PROVE  i = j
BY Facts DEF Leads, IInv, Firsts

(* What is started in the first pass has not been seen, and is of it. *)
LEMMA Started ==
  ASSUME IInv, pass = 0, [Next]_vars, NEW f \in Files, NEW i \in Links, Leads(f, i),
         entry[f] = "none", entry'[f] = "active"
  PROVE  ~Seen(i) /\ heap[i].pass2 <= 0
<1>1. entry \in [Files -> Ready \cup {"none", "active"}]
  BY DEF IInv, TypeOK
<1>2. CASE Want
  <2>1. ptr \in Links /\ heap[ptr].file = f /\ ptr \notin got /\ heap[ptr].pass2 = 0
    BY <1>1, <1>2, Facts DEF Want, IInv, GotBehind, DoneLinks, LinkType
  <2>2. i = ptr
    BY <2>1, OnlyLast
  <2> QED BY <2>1, <2>2 DEF Seen, Done
<1>3. CASE Fill
  <2>1. PICK p, j : j \in Addable(p) /\ heap[j].file = f
    BY <1>1, <1>3 DEF Fill
  <2>2. Start \in Nat /\ Start > ptr
    BY DEF Start, IInv, TypeOK
  <2>3. j \in Links /\ j >= Start /\ heap[j].pass2 = 0
    BY <2>1 DEF Addable, Eligible
  <2>4. j \notin got
    BY <2>2, <2>3, Facts DEF IInv, GotBehind
  <2>5. i = j
    BY <2>1, <2>3, <2>4, OnlyLast
  <2> QED BY <2>3, <2>4, <2>5 DEF Seen, Done
<1>4. CASE Record
  <2>1. f = Len(heap) + 1
    BY <1>1, <1>4 DEF Record
  <2>2. heap[i].file = f /\ heap[i].file <= i /\ i <= Len(heap)
    BY DEF Leads, IInv, OldFiles, Links
  <2> QED BY <2>1, <2>2, Facts
<1>5. CASE Answer
  <2>1. Release \/ Gone \/ Ban
    BY <1>5 DEF Answer, Take, Fail, Retry, Again, Moved
  <2> QED BY <2>1, <1>1 DEF Release, Gone, pool, Ban
<1>6. CASE \E g \in Files : Arrive(g) \/ Clean(g)
  <2>1. PICK g \in Files : Arrive(g) \/ Clean(g)
    BY <1>6
  <2> QED BY <2>1, <1>1 DEF Arrive, Clean, Ready
<1>7. CASE Skip \/ NowReady \/ AddUrl \/ Parsed \/ Advance \/ Exit \/ Terminated \/ UNCHANGED vars
  BY <1>7 DEF Skip, NowReady, AddUrl, Parsed, Advance, Exit, Terminated, pool, vars
<1> QED BY <1>2, <1>3, <1>4, <1>5, <1>6, <1>7 DEF Next

(* With one pass, no file is downloaded again once its last link has been  *)
(* handled, written in the background or invalidated.                      *)
THEOREM OnlyOnce == Spec => FetchedOnce
<1>1. ASSUME IInv, [Next]_vars, ~imagesLast, NEW f \in Files,
             entry[f] = "none", entry'[f] = "active", NEW i \in Links, Leads(f, i)
      PROVE  ~Seen(i)
  BY <1>1, Started DEF IInv, OnePass
<1>2. IInv /\ [Next]_vars =>
        [~imagesLast => \A f \in Files : entry[f] = "none" /\ entry'[f] = "active" =>
           \A i \in Links : Leads(f, i) => ~Seen(i)]_vars
  BY <1>1
<1> QED BY <1>2, Invariant, PTL DEF Spec, FetchedOnce

(* What is not HTML is never started before the second pass. *)
THEOREM NotBeforePages == Spec => ImagesLast
<1>1. ASSUME IInv, [Next]_vars, NEW f \in Files,
             entry[f] = "none", entry'[f] = "active", NEW i \in Links, Leads(f, i)
      PROVE  heap[i].pass2 <= pass
  <2>1. CASE pass = 0
    BY <1>1, <2>1, Started
  <2>2. CASE pass = 1
    BY <1>1, <2>2, Facts DEF LinkType, Done
  <2> QED BY <1>1, <2>1, <2>2 DEF IInv, TypeOK
<1>2. IInv /\ [Next]_vars =>
        [\A f \in Files : entry[f] = "none" /\ entry'[f] = "active" =>
           \A i \in Links : Leads(f, i) => heap[i].pass2 <= pass]_vars
  BY <1>1
<1> QED BY <1>2, Invariant, PTL DEF Spec, ImagesLast

-----------------------------------------------------------------------------
(* With one pass, ptr never goes back, and what lies before ant is known. *)
Scanned == ~imagesLast => last <= ptr /\ ant <= Len(heap) + 1 /\ Ahead

SInv == IInv /\ Scanned

(* Links keep their files, none is added before ant, and what loses its    *)
(* entry ahead of ptr is done.                                             *)
LEMMA AheadStays ==
  ASSUME SInv, TypeOK', ~imagesLast, HeapStep, UNCHANGED <<imagesLast, pass, ant, last>>,
         ptr' \in Nat, ptr' >= ptr,
         \A i \in Links : ptr < i /\ heap[i].pass2 = 0 /\ entry[heap[i].file] # "none"
                          => entry'[heap[i].file] # "none" \/ heap'[i].pass2 = Done
  PROVE  Scanned'
<1>1. /\ Len(heap) \in Nat /\ ptr \in Nat /\ last \in Nat /\ ant \in Nat /\ pass = 0
      /\ \A i \in Links : i \in Nat
  BY Facts DEF SInv, IInv, TypeOK, OnePass
<1>2. last <= ptr' /\ ant <= Len(heap') + 1
  BY <1>1 DEF SInv, Scanned, HeapStep
<1>3. ASSUME NEW i \in Links', ptr' < i, i < ant, heap'[i].pass2 = 0
      PROVE  entry'[heap'[i].file] # "none"
  <2>1. i \in Links /\ ptr < i
    BY <1>1, <1>3 DEF SInv, Scanned, Links
  <2>2. heap'[i].file = heap[i].file /\ heap[i].pass2 = 0
    BY <1>3, <2>1 DEF HeapStep, Done
  <2>3. entry[heap[i].file] # "none"
    BY <1>1, <1>3, <2>1, <2>2 DEF SInv, Scanned, Ahead
  <2> QED BY <1>3, <2>1, <2>2, <2>3 DEF Done
<1> QED BY <1>1, <1>2, <1>3 DEF Scanned, Ahead

(* An answer that is taken leaves the entries of the links ahead alone:    *)
(* none of them has the file of the current one.                           *)
LEMMA AnswerAhead ==
  ASSUME SInv, ~imagesLast, NEW a, Arrived(a), Release, NEW i \in Links, ptr < i,
         heap[i].pass2 = 0, entry[heap[i].file] # "none"
  PROVE  entry'[heap[i].file] # "none"
<1>1. ptr \in Links /\ ptr \notin got /\ pass = 0
  BY AnswerFacts DEF SInv, IInv, OnePass, GotBehind
<1>2. heap[i].file # heap[ptr].file
  BY <1>1 DEF SInv, IInv, Firsts
<1> QED BY <1>2, Facts DEF Release, SInv, IInv, TypeOK

(* A scan: what it passes has an entry. *)
LEMMA FillAhead == ASSUME SInv, Fill, ~imagesLast PROVE Scanned'
<1>1. PICK n, p :
        LET A == Addable(p)
        IN  /\ p \in {Start} \cup Start..(Len(heap) + 1)
            /\ entry' = [f \in Files |->
                           IF \E i \in A : heap[i].file = f THEN "active" ELSE entry[f]]
            /\ ant' = p
            /\ last' = ptr
  BY DEF Fill
<1>2. UNCHANGED <<imagesLast, heap, ptr, pass>> /\ at \in {"wait", "parse"}
  BY DEF Fill
<1>3. /\ ptr \in Nat /\ last \in Nat /\ ant \in Nat /\ pass = 0 /\ Len(heap) \in Nat
      /\ ptr \in Links /\ ptr <= Len(heap)
      /\ \A i \in Links : i \in Nat /\ heap[i].file \in Files
      /\ last <= ptr /\ ant <= Len(heap) + 1 /\ Ahead
  BY <1>2, Facts DEF SInv, Scanned, IInv, TypeOK, OnePass, Links
<1>4. Start \in Nat /\ ptr + 1 <= Start /\ ant <= Start /\ Start <= Len(heap) + 1
      /\ (Start = ant \/ Start = ptr + 1)
  BY <1>3 DEF Start
<1>5. p \in Nat /\ p <= Len(heap) + 1
  BY <1>1, <1>4, <1>3
<1>6. ASSUME NEW i \in Links, Start <= i, i < p, heap[i].pass2 = 0, entry[heap[i].file] = "none"
      PROVE  i \in Addable(p)
  <2>1. Eligible(i)
    BY <1>3, <1>6 DEF Eligible
  <2>2. ASSUME NEW j \in Links, Start <= j, heap[j].file = heap[i].file PROVE i <= j
    <3>1. j \notin got
      BY <1>3, <1>4, <2>2 DEF SInv, IInv, GotBehind
    <3>2. ~(j < i)
      BY <2>2, <3>1, <1>3 DEF SInv, IInv, Firsts
    <3> QED BY <3>2, <1>3
  <2> QED BY <1>6, <2>1, <2>2 DEF Addable
<1>7. ASSUME NEW i \in Links, ptr < i, i < p, heap[i].pass2 = 0
      PROVE  entry'[heap[i].file] # "none"
  <2>1. CASE entry[heap[i].file] # "none"
    BY <2>1, <1>1, <1>3
  <2>2. CASE entry[heap[i].file] = "none"
    <3>1. ~(i < ant)
      BY <2>2, <1>3, <1>7 DEF Ahead
    <3>2. Start <= i
      BY <3>1, <1>3, <1>4, <1>7
    <3>3. i \in Addable(p)
      BY <1>6, <1>7, <2>2, <3>2
    <3> QED BY <3>3, <1>1, <1>3
  <2> QED BY <2>1, <2>2
<1>8. Links' = Links
  BY <1>2 DEF Links
<1> QED BY <1>1, <1>2, <1>3, <1>5, <1>7, <1>8 DEF Scanned, Ahead

(* Every step keeps what lies between ptr and ant fetched. *)
LEMMA ScannedStep == ASSUME SInv, IInv', [Next]_vars PROVE Scanned'
<1> SUFFICES ASSUME ~imagesLast PROVE Scanned'
  <2>1. imagesLast' = imagesLast
    BY DEF Next, Answer, Skip, NowReady, Want, Gone, Take, Fail, Retry, Again, Moved, Ban,
           Arrived, Fill, Arrive, Clean, Record, AddUrl, Parsed, Advance, Exit, Terminated, vars
  <2> QED BY <2>1 DEF Scanned
<1>1. /\ ptr \in Nat /\ pass = 0 /\ TypeOK /\ TypeOK' /\ Len(heap) \in Nat
      /\ entry \in [Files -> Ready \cup {"none", "active"}]
      /\ \A i \in Links : i \in Nat /\ heap[i].file \in Files
  BY Facts DEF SInv, IInv, TypeOK, OnePass
<1>2. CASE Fill
  BY <1>2, FillAhead
<1>3. CASE Skip \/ NowReady \/ Gone \/ Parsed \/ Advance \/ Exit \/ Terminated \/ UNCHANGED vars
  <2>1. UNCHANGED <<imagesLast, heap, ant, last, entry>>
    BY <1>3 DEF Skip, NowReady, Gone, Parsed, Advance, Exit, Terminated, pool, vars
  <2>2. pass' = pass /\ ptr' \in Nat /\ ptr' >= ptr
    BY <1>1, <1>3 DEF Skip, NowReady, Gone, Parsed, Advance, Exit, Terminated, vars
  <2> QED BY <2>1, <2>2, <1>1, SameHeap, AheadStays
<1>4. CASE Want \/ \E f \in Files : Arrive(f)
  <2>1. UNCHANGED <<imagesLast, heap, ptr, pass, ant, last>>
    BY <1>4 DEF Want, Arrive
  <2>2. \A f \in Files : entry[f] # "none" => entry'[f] # "none"
    BY <1>1, <1>4 DEF Want, Arrive, Ready
  <2> QED BY <2>1, <2>2, <1>1, SameHeap, AheadStays
<1>5. ASSUME NEW f \in Files, Clean(f) PROVE Scanned'
  <2>1. PICK k \in Links : Leads(f, k) /\ heap' = [heap EXCEPT ![k].pass2 = Done]
    BY <1>5 DEF Clean, Leads
  <2>2. HeapStep /\ Len(heap') = Len(heap) /\ heap'[k].pass2 = Done
    BY <2>1, MarkOne, Marking DEF SInv, IInv
  <2>3. ASSUME NEW i \in Links, ptr < i, entry[heap[i].file] # "none"
        PROVE  entry'[heap[i].file] # "none" \/ heap'[i].pass2 = Done
    <3>1. CASE heap[i].file # f
      BY <2>3, <3>1, <1>1, <1>5 DEF Clean
    <3>2. CASE heap[i].file = f
      <4>1. i \notin got
        BY <2>3, <1>1 DEF SInv, IInv, GotBehind
      <4>2. i = k
        BY <2>1, <3>2, <4>1, <1>1, OnlyLast DEF SInv
      <4> QED BY <4>2, <2>2
    <3> QED BY <3>1, <3>2
  <2>4. UNCHANGED <<imagesLast, ptr, pass, ant, last>>
    BY <1>5 DEF Clean
  <2> QED BY <2>2, <2>3, <2>4, <1>1, AheadStays
<1>6. CASE Answer
  <2>1. CASE Gone
    BY <1>3, <2>1
  <2>2. CASE Take \/ Fail \/ Retry \/ Again \/ Moved
    <3>1. PICK a : Arrived(a) /\ Release
      BY <2>2 DEF Take, Fail, Retry, Again, Moved
    <3>2. HeapStep
      BY <2>2, AnswerHeap DEF SInv
    <3>3. UNCHANGED <<imagesLast, ptr, pass, ant, last>>
      BY <3>1 DEF Arrived
    <3> QED BY <3>1, <3>2, <3>3, <1>1, AnswerAhead, AheadStays
  <2>3. CASE Ban
    <3>1. HeapStep /\ UNCHANGED <<imagesLast, ptr, pass, ant, last>>
      BY <2>3, BanHeap DEF SInv, Ban, Arrived
    <3>2. ASSUME NEW i \in Links, entry[heap[i].file] # "none"
          PROVE  entry'[heap[i].file] # "none" \/ heap'[i].pass2 = Done
      <4>1. CASE heap[i].file = heap[ptr].file
        BY <2>3, <3>2, <4>1, Facts DEF Ban, SInv, LinkType
      <4>2. CASE heap[i].file # heap[ptr].file
        BY <2>3, <3>2, <4>2, <1>1 DEF Ban
      <4> QED BY <4>1, <4>2
    <3> QED BY <3>1, <3>2, <1>1, AheadStays
  <2> QED BY <1>6, <2>1, <2>2, <2>3 DEF Answer
<1>7. CASE Record \/ AddUrl
  <2>1. HeapStep /\ UNCHANGED <<imagesLast, ptr, pass, ant, last>>
    BY <1>7, NewLinkHeap DEF SInv, Record, AddUrl, pool
  <2>2. \A i \in Links : heap[i].file <= i /\ i <= Len(heap)
    BY DEF SInv, IInv, OldFiles, Links
  <2>3. ASSUME NEW i \in Links, entry[heap[i].file] # "none" PROVE entry'[heap[i].file] # "none"
    <3>1. heap[i].file # Len(heap) + 1
      BY <2>2, <1>1, Facts DEF SInv, Files
    <3> QED BY <3>1, <2>3, <1>1, <1>7 DEF Record, AddUrl, pool
  <2> QED BY <2>1, <2>3, <1>1, AheadStays
<1> QED BY <1>2, <1>3, <1>4, <1>5, <1>6, <1>7 DEF Next

(* With one pass, every link between ptr and the place that back_fill has  *)
(* reached is fetched or under way when its turn comes.                    *)
THEOREM NoneSkippedAhead == Spec => []AheadFetched
<1>1. Init => Scanned
  <2> SUFFICES ASSUME Init PROVE Scanned
    OBVIOUS
  <2>1. Len(heap) \in Nat /\ \A i \in Links : i \in Nat
    BY InitInv, Facts
  <2>2. ptr = 1 /\ last = 0 /\ ant = 0
    BY DEF Init
  <2> QED BY <2>1, <2>2 DEF Scanned, Ahead
<1>2. IInv /\ IInv' /\ Scanned /\ [Next]_vars => Scanned'
  BY ScannedStep DEF SInv
<1>3. Scanned => AheadFetched
  BY DEF Scanned, AheadFetched
<1> QED BY <1>1, <1>2, <1>3, Invariant, PTL DEF Spec

=============================================================================
