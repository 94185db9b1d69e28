-------------------------- MODULE LinkScope_proofs --------------------------
(***************************************************************************)
(* For every set of addresses, links, redirections and robots rules: a     *)
(* plain mirror stays below the directories it was started in, what the    *)
(* user has refused is never taken, no page gives a forbidden link of its  *)
(* own host, and without redirected files the links are handled level by   *)
(* level.                                                                  *)
(***************************************************************************)
EXTENDS LinkScope, Greatest, TLAPS

(* The shape of the heap: the first link is the primary one, and the link  *)
(* that a page started from is a page that started from itself.            *)
Entry ==
  [kind : {"primary", "page", "robots"}, host : Hosts \cup {"primary"},
   url : Urls \cup {NoUrl}, depth : Int, premier : Nat, precedent : Nat,
   live : BOOLEAN]

PageShape(h, i) ==
  h[i].kind = "page" =>
    /\ h[i].url \in Urls
    /\ h[i].host = h[i].url.host
    /\ h[i].premier \in DOMAIN h
    /\ h[h[i].premier].kind = "page"
    /\ h[h[i].premier].premier = h[i].premier

Shape ==
  /\ opt \in Settings
  /\ heap \in Seq(Entry)
  /\ \A i \in DOMAIN heap : PageShape(heap, i)
  /\ ptr \in Nat \ {0}
  /\ reading \in BOOLEAN
  /\ ptr = 1 => reading /\ DOMAIN todo \subseteq Primaries
  /\ DOMAIN todo \subseteq Urls
  /\ reading => ptr \in DOMAIN heap
  /\ reading /\ ptr # 1 => Cur.kind = "page"
  /\ filters \in Seq(Filter)
  /\ rules \in [Hosts -> SUBSET Dirs]

-----------------------------------------------------------------------------
(* The filter an answer puts before the others is one. *)
LEMMA InsertedType ==
  ASSUME NEW answer, NEW u \in Urls
  PROVE  /\ Inserted(answer, u) \in Seq(Filter)
         /\ Len(Inserted(answer, u)) <= 1
<1>1. /\ Tree(u) \in SUBSET Urls /\ Level(u) \in SUBSET Urls
      /\ Site(u) \in SUBSET Urls /\ {u} \in SUBSET Urls
  BY DEF Tree, Level, Site
<1>2. answer \in Filing => Reach(answer, u) \in SUBSET Urls
  BY <1>1 DEF Filing, Taking, Reach
<1> DEFINE f == [allow |-> answer \in Taking, covers |-> Reach(answer, u)]
<1>3. CASE answer \in Filing
  <2>1. (answer \in Taking) \in BOOLEAN
    OBVIOUS
  <2>2. f \in Filter
    BY <1>2, <1>3, <2>1 DEF Filter
  <2>3. Inserted(answer, u) = <<f>>
    BY <1>3 DEF Inserted
  <2> HIDE DEF f
  <2> QED
    BY <2>2, <2>3
<1>4. CASE answer \notin Filing
  <2>1. Inserted(answer, u) = <<>>
    BY <1>4 DEF Inserted
  <2> QED
    BY <2>1
<1> QED
  BY <1>3, <1>4

(* What the wizard returns has its types. *)
LEMMA AskType ==
  ASSUME Shape, NEW u \in Urls, NEW embedded, NEW fs \in Seq(Filter), NEW w \in {1, 2},
         NEW reply
  PROVE  /\ Ask(u, embedded, fs, w, reply).filters \in Seq(Filter)
         /\ Ask(u, embedded, fs, w, reply).prio \in Int
         /\ Ask(u, embedded, fs, w, reply).wizard \in {1, 2}
<1>1. opt.ext \in Nat
  BY DEF Shape, Settings
<1>2. \A answer : WithFilter(fs, answer, u) \in Seq(Filter)
  BY InsertedType DEF WithFilter
<1> HIDE DEF Filter
<1>3. Ask(u, embedded, fs, w, reply).filters \in Seq(Filter)
  BY <1>2, SMTT(30) DEF Ask
<1>4. Ask(u, embedded, fs, w, reply).prio \in Int
  BY <1>1, SMTT(30) DEF Ask
<1>5. Ask(u, embedded, fs, w, reply).wizard \in {1, 2}
  BY SMTT(30) DEF Ask
<1> QED
  BY <1>3, <1>4, <1>5

(* The answer of the wizard is a record, of which one field may be replaced. *)
LEMMA AskRecord ==
  ASSUME NEW u, NEW embedded, NEW fs, NEW w, NEW reply, NEW x
  PROVE  LET r == Ask(u, embedded, fs, w, reply)
             e == [r EXCEPT !.refused = x]
         IN /\ e.filters = r.filters /\ e.wizard = r.wizard
            /\ e.verdict = r.verdict /\ e.prio = r.prio /\ e.refused = x
<1> DEFINE r == Ask(u, embedded, fs, w, reply)
<1>1. r = [verdict |-> r.verdict, prio |-> r.prio, filters |-> r.filters,
           wizard |-> r.wizard, refused |-> r.refused]
  BY DEF Ask
<1> HIDE DEF r
<1> QED
  BY <1>1 DEF r

-----------------------------------------------------------------------------
WellShaped(h) ==
  /\ h \in Seq(Entry)
  /\ \A i \in DOMAIN h : PageShape(h, i)

(* The heap grows: what a link is, where it is and what it started from    *)
(* never change, and a new page is the one that was accepted.              *)
Grown(h, u) ==
  /\ WellShaped(h)
  /\ DOMAIN heap \subseteq DOMAIN h
  /\ \A i \in DOMAIN heap :
       /\ h[i].kind = heap[i].kind /\ h[i].host = heap[i].host
       /\ h[i].url = heap[i].url /\ h[i].premier = heap[i].premier
       /\ h[i].precedent = heap[i].precedent
       /\ h[i].live => heap[i].live
  /\ \A i \in DOMAIN h \ DOMAIN heap :
       h[i].url = IF h[i].kind = "page" THEN u ELSE NoUrl

(* A link put behind the heap keeps its shape. *)
LEMMA ShapeOfOneMore ==
  ASSUME NEW g, WellShaped(g), NEW e \in Entry,
         e.kind = "page" => /\ e.url \in Urls /\ e.host = e.url.host
                            /\ \/ e.premier = Len(g) + 1
                               \/ /\ e.premier \in DOMAIN g
                                  /\ g[e.premier].kind = "page"
                                  /\ g[e.premier].premier = e.premier
  PROVE  /\ WellShaped(Append(g, e))
         /\ DOMAIN Append(g, e) = 1 .. Len(g) + 1
         /\ Len(Append(g, e)) = Len(g) + 1
         /\ \A i \in DOMAIN g : Append(g, e)[i] = g[i]
         /\ Append(g, e)[Len(g) + 1] = e
<1> DEFINE h == Append(g, e)
<1>1. g \in Seq(Entry) /\ Len(g) \in Nat /\ DOMAIN g = 1 .. Len(g)
  BY DEF WellShaped
<1>2. /\ h \in Seq(Entry) /\ DOMAIN h = 1 .. Len(g) + 1
      /\ Len(h) = Len(g) + 1
      /\ \A i \in DOMAIN g : h[i] = g[i]
      /\ h[Len(g) + 1] = e
  BY <1>1
<1>3. \A i \in DOMAIN g : PageShape(g, i)
  BY DEF WellShaped
<1> HIDE DEF h, Entry
<1>4. \A i \in DOMAIN h : PageShape(h, i)
  <2> SUFFICES ASSUME NEW i \in DOMAIN h, h[i].kind = "page" PROVE PageShape(h, i)
    BY DEF PageShape
  <2>1. CASE i \in DOMAIN g
    <3>1. PageShape(g, i) /\ g[i].kind = "page"
      BY <1>2, <1>3, <2>1
    <3>2. g[i].premier \in DOMAIN g
      BY <3>1 DEF PageShape
    <3> QED
      BY <1>1, <1>2, <2>1, <3>1, <3>2 DEF PageShape
  <2>2. CASE i = Len(g) + 1
    <3>1. h[i] = e /\ e.kind = "page" /\ i \in DOMAIN h
      BY <1>2, <2>2
    <3>2. CASE e.premier = i
      BY <3>1, <3>2 DEF PageShape
    <3>3. CASE e.premier \in DOMAIN g
      BY <1>1, <1>2, <2>2, <3>1, <3>3 DEF PageShape
    <3> QED
      BY <2>2, <3>1, <3>2, <3>3
  <2> QED
    BY <1>1, <1>2, <2>1, <2>2
<1> QED
  BY <1>2, <1>4 DEF WellShaped, h

(* The depth of a new link is a number. *)
LEMMA DepthType ==
  ASSUME Shape, ptr \in DOMAIN heap, NEW prio \in Int
  PROVE  DepthOf(prio) \in Int /\ Cur.depth \in Int
<1>1. heap \in Seq(Entry)
  BY DEF Shape
<1>2. Cur \in Entry
  BY <1>1 DEF Cur
<1>3. Cur.depth \in Int
  BY <1>2 DEF Entry
<1> QED
  BY <1>3 DEF DepthOf, Lower

(* An accepted link, with the robots.txt of its host, keeps the shape. *)
LEMMA GrownByAppended ==
  ASSUME Shape, ptr \in DOMAIN heap, NEW u \in Urls, NEW prio \in Int,
         NEW same \in BOOLEAN, same => Cur.kind = "page"
  PROVE  Grown(Appended(u, prio, same), u)
<1> DEFINE n == Len(heap)
           robot == Robots(u.host, n + 1)
           page(k) == NewPage(u, prio, same, k)
<1>1. /\ WellShaped(heap) /\ n \in Nat /\ DOMAIN heap = 1 .. n /\ ptr \in Nat
      /\ heap \in Seq(Entry)
  BY DEF Shape, WellShaped
<1>2. u.host \in Hosts
  BY ScopeAssumption DEF Address
<1>3. robot \in Entry /\ robot.kind # "page" /\ robot.url = NoUrl
  BY <1>1, <1>2 DEF Robots, Entry
<1>4. same => /\ Cur.premier \in DOMAIN heap
              /\ heap[Cur.premier].kind = "page"
              /\ heap[Cur.premier].premier = Cur.premier
  BY DEF Shape, PageShape, Cur
<1>5. \A k \in Nat : /\ page(k) \in Entry /\ page(k).kind = "page"
                     /\ page(k).url = u /\ page(k).host = u.host
                     /\ page(k).premier = IF same THEN Cur.premier ELSE k
  <2> SUFFICES ASSUME NEW k \in Nat
               PROVE  /\ page(k) \in Entry /\ page(k).kind = "page"
                      /\ page(k).url = u /\ page(k).host = u.host
                      /\ page(k).premier = IF same THEN Cur.premier ELSE k
    OBVIOUS
  <2>1. DepthOf(prio) \in Int
    BY DepthType
  <2>2. (IF same THEN Cur.premier ELSE k) \in Nat
    BY <1>1, <1>4
  <2> QED
    BY <1>1, <1>2, <2>1, <2>2 DEF NewPage, Page, Entry
<1> HIDE DEF robot, page, Entry
<1>6. CASE ~NeedsRobots(u)
  <2> DEFINE h == Append(heap, page(n + 1))
  <2>1. heap \o <<page(n + 1)>> = h
    BY <1>1, <1>5
  <2>2. Appended(u, prio, same) = h
    BY <1>6, <2>1 DEF Appended, page
  <2>3. /\ WellShaped(h) /\ DOMAIN h = 1 .. n + 1
        /\ \A i \in DOMAIN heap : h[i] = heap[i]
        /\ h[n + 1] = page(n + 1)
    BY <1>1, <1>4, <1>5, ShapeOfOneMore
  <2> HIDE DEF h
  <2> QED
    BY <1>1, <1>5, <2>2, <2>3 DEF Grown
<1>7. CASE NeedsRobots(u)
  <2> DEFINE g == Append(heap, robot)
             h == Append(g, page(n + 2))
  <2>1. heap \o <<robot, page(n + 2)>> = h
    BY <1>1, <1>3, <1>5
  <2>2. Appended(u, prio, same) = h
    BY <1>7, <2>1 DEF Appended, page, robot
  <2>3. /\ WellShaped(g) /\ DOMAIN g = 1 .. n + 1 /\ Len(g) = n + 1
        /\ \A i \in DOMAIN heap : g[i] = heap[i]
        /\ g[n + 1] = robot
    BY <1>1, <1>3, ShapeOfOneMore
  <2> HIDE DEF g
  <2>4. page(n + 2).premier # n + 2 => /\ page(n + 2).premier \in DOMAIN g
                                       /\ g[page(n + 2).premier].kind = "page"
                                       /\ g[page(n + 2).premier].premier = page(n + 2).premier
    BY <1>1, <1>4, <1>5, <2>3
  <2> DEFINE e == page(n + 2)
  <2>8. /\ e \in Entry /\ e.url \in Urls /\ e.host = e.url.host
        /\ \/ e.premier = Len(g) + 1
           \/ /\ e.premier \in DOMAIN g
              /\ g[e.premier].kind = "page"
              /\ g[e.premier].premier = e.premier
    BY <1>1, <1>5, <2>3, <2>4
  <2> HIDE DEF e
  <2>9. /\ WellShaped(Append(g, e)) /\ DOMAIN Append(g, e) = 1 .. Len(g) + 1
        /\ \A i \in DOMAIN g : Append(g, e)[i] = g[i]
        /\ Append(g, e)[Len(g) + 1] = e
    BY <2>3, <2>8, ShapeOfOneMore
  <2>5. /\ WellShaped(h) /\ DOMAIN h = 1 .. n + 2
        /\ \A i \in DOMAIN g : h[i] = g[i]
        /\ h[n + 2] = page(n + 2)
    BY <1>1, <2>3, <2>9 DEF e
  <2> HIDE DEF h
  <2>6. \A i \in DOMAIN heap : h[i] = heap[i] /\ i \in DOMAIN h
    BY <1>1, <2>3, <2>5
  <2>7. \A i \in DOMAIN h \ DOMAIN heap :
          h[i].url = IF h[i].kind = "page" THEN u ELSE NoUrl
    BY <1>1, <1>3, <1>5, <2>3, <2>5
  <2> QED
    BY <2>2, <2>5, <2>6, <2>7 DEF Grown
<1> QED
  BY <1>6, <1>7

(* A known link that is raised keeps the shape. *)
LEMMA GrownByRaised ==
  ASSUME Shape, ptr \in DOMAIN heap, NEW u \in Urls
  PROVE  Grown(Raised(u), u)
<1> DEFINE h == Raised(u)
<1>1. /\ heap \in Seq(Entry) /\ Cur.depth \in Int
      /\ \A i \in DOMAIN heap : PageShape(heap, i)
  BY DepthType DEF Shape
<1>2. /\ DOMAIN h = DOMAIN heap
      /\ \A i \in DOMAIN heap :
           \/ h[i] = heap[i]
           \/ h[i] = [heap[i] EXCEPT !.depth = Cur.depth - 1]
  BY DEF Raised
<1>3. \A i \in DOMAIN heap :
        /\ h[i] \in Entry
        /\ h[i].kind = heap[i].kind /\ h[i].host = heap[i].host
        /\ h[i].url = heap[i].url /\ h[i].premier = heap[i].premier
        /\ h[i].precedent = heap[i].precedent /\ h[i].live = heap[i].live
  <2> SUFFICES ASSUME NEW i \in DOMAIN heap
               PROVE  /\ h[i] \in Entry
                      /\ h[i].kind = heap[i].kind /\ h[i].host = heap[i].host
                      /\ h[i].url = heap[i].url /\ h[i].premier = heap[i].premier
                      /\ h[i].precedent = heap[i].precedent
                      /\ h[i].live = heap[i].live
    OBVIOUS
  <2>1. heap[i] \in Entry /\ Cur.depth - 1 \in Int
    BY <1>1
  <2> QED
    BY <1>2, <2>1 DEF Entry
<1>4. h \in Seq(Entry)
  <2>1. /\ Len(heap) \in Nat /\ DOMAIN heap = 1 .. Len(heap)
    BY <1>1
  <2>2. h = [i \in 1 .. Len(heap) |-> h[i]]
    BY <2>1 DEF Raised
  <2> HIDE DEF h, Entry
  <2> QED
    BY <1>3, <2>1, <2>2
<1>5. \A i \in DOMAIN h : PageShape(h, i)
  BY <1>1, <1>2, <1>3 DEF PageShape
<1> HIDE DEF h
<1>6. WellShaped(h)
  BY <1>4, <1>5 DEF WellShaped
<1> QED
  BY <1>2, <1>3, <1>6 DEF Grown, h

(* What is done with an accepted link keeps the shape. *)
LEMMA GrownByRecorded ==
  ASSUME Shape, ptr \in DOMAIN heap, NEW u \in Urls, NEW prio \in Int,
         NEW same \in BOOLEAN, same => Cur.kind = "page"
  PROVE  Grown(Recorded(u, prio, same), u)
BY GrownByAppended, GrownByRaised DEF Recorded

-----------------------------------------------------------------------------
(* A plain mirror stays below the directories it was started in.           *)
FiltersBelow(fs) ==
  \A i \in DOMAIN fs : fs[i].allow => \A u \in fs[i].covers : Covered(u)

ScopeInv ==
  /\ Shape
  /\ wizard \in {1, 2}
  /\ Plain => wizard = 2 /\ FiltersBelow(filters)
  /\ StaysBelow

(* Where the mirror was started is covered, and so is the tree below it. *)
LEMMA RootsCovered ==
  ASSUME NEW u \in Roots
  PROVE  /\ u \in Urls
         /\ \A v \in Tree(u) : Covered(v)
         /\ u \in Tree(u) /\ Level(u) \subseteq Tree(u)
<1>1. u \in Urls
  BY ScopeAssumption DEF Roots
<1>2. u.dir \in Dirs
  BY <1>1, ScopeAssumption DEF Address
<1>3. <<u.dir, u.dir>> \in Within
  BY <1>2, ScopeAssumption
<1> QED
  BY <1>1, <1>3 DEF Tree, Level, Covered

(* What is not above something covered, on its host, is covered. *)
LEMMA NotAbove ==
  ASSUME NEW u \in Urls, NEW from \in Urls, Covered(from),
         u.host = from.host, ~Above(u, from)
  PROVE  Covered(u)
<1>1. PICK r \in Roots : from \in Tree(r)
  BY DEF Covered
<1>2. r \in Urls /\ from.host = r.host /\ <<from.dir, r.dir>> \in Within
  BY <1>1, RootsCovered DEF Tree
<1>3. u.dir \in Dirs /\ from.dir \in Dirs /\ r.dir \in Dirs
  BY <1>2, ScopeAssumption DEF Address
<1>4. <<u.dir, from.dir>> \in Within
  BY DEF Above
<1>5. <<u.dir, r.dir>> \in Within
  <2>1. \A d, e, f \in Dirs :
          <<d, e>> \in Within /\ <<e, f>> \in Within => <<d, f>> \in Within
    BY ScopeAssumption
  <2> QED
    BY <1>2, <1>3, <1>4, <2>1
<1> QED
  BY <1>2, <1>5 DEF Covered, Tree

(* A link that its position lets pass is covered. *)
LEMMA PositionCovered ==
  ASSUME Shape, Plain, ~Primary, Cur.kind = "page", ptr \in DOMAIN heap,
         OwnPremiers, NEW u \in Urls, Position(u) = "yes",
         \A i \in Pages : Covered(heap[i].url)
  PROVE  Covered(u)
<1>1. /\ ~opt.up /\ opt.travel = "address"
  BY DEF Plain
<1>2. SameHost(u) /\ Inside(u) = "yes"
  BY <1>1 DEF Position, Outside
<1>3. /\ ptr \in Pages /\ Cur.premier \in Pages
      /\ Cur.url \in Urls /\ First \in Urls
      /\ Cur.host = Cur.url.host /\ First.host = heap[Cur.premier].host
  BY DEF Shape, PageShape, Pages, Cur, First
<1>4. Covered(Cur.url) /\ Covered(First)
  BY <1>3 DEF Cur, First
<1>5. First.host = Cur.url.host
  BY <1>3 DEF OwnPremiers, Cur
<1>6. u.host = Cur.url.host
  BY <1>2 DEF SameHost
<1>7. ~(Above(u, First) /\ Above(u, Cur.url))
  <2>1. SUFFICES ASSUME Above(u, First), Above(u, Cur.url) PROVE FALSE
    OBVIOUS
  <2>2. Inside(u) = Uphill
    BY <2>1 DEF Inside
  <2> QED
    BY <1>1, <1>2, <2>2 DEF Uphill
<1> QED
  BY <1>3, <1>4, <1>5, <1>6, <1>7, NotAbove

(* The last filter that matches exists.                                    *)
LEMMA LastMatching ==
  ASSUME NEW fs \in Seq(Filter), NEW u
  PROVE  LET matching == {i \in DOMAIN fs : u \in fs[i].covers}
             last     == CHOOSE i \in matching : \A j \in matching : j <= i
         IN matching # {} => last \in matching /\ \A j \in matching : j <= last
<1> DEFINE matching == {i \in DOMAIN fs : u \in fs[i].covers}
<1> DEFINE n == Len(fs)
           last == CHOOSE i \in matching : \A j \in matching : j <= i
<1>1. n \in Nat /\ matching \subseteq 1 .. n
  OBVIOUS
<1> HIDE DEF matching, n
<1>2. matching # {} => last \in matching /\ \A j \in matching : j <= last
  BY <1>1, LastOf
<1> QED
  BY <1>2 DEF matching

(* No filter is put before the others without an answer that asks for it. *)
LEMMA NothingInserted ==
  ASSUME NEW fs \in Seq(Filter), NEW u, NEW answer, answer \notin Filing
  PROVE  WithFilter(fs, answer, u) = fs
<1>1. Inserted(answer, u) = <<>>
  BY DEF Inserted
<1> HIDE DEF Filter
<1> QED
  BY <1>1 DEF WithFilter

(* An accepting filter in front keeps the filters below the roots if what  *)
(* it covers is.                                                           *)
LEMMA FiltersStayBelow ==
  ASSUME NEW fs \in Seq(Filter), NEW u \in Urls, NEW answer, FiltersBelow(fs),
         answer \in Taking => \A v \in Reach(answer, u) : Covered(v)
  PROVE  FiltersBelow(WithFilter(fs, answer, u))
<1>1. CASE answer \notin Filing
  BY <1>1, NothingInserted
<1>2. CASE answer \in Filing
  <2> DEFINE f == [allow |-> answer \in Taking, covers |-> Reach(answer, u)]
             g == <<f>> \o fs
  <2>1. WithFilter(fs, answer, u) = g
    BY <1>2 DEF WithFilter, Inserted
  <2>2. f.allow => \A v \in f.covers : Covered(v)
    OBVIOUS
  <2>3. f \in Filter
    <3>1. Inserted(answer, u) = <<f>>
      BY <1>2 DEF Inserted
    <3>2. <<f>> \in Seq(Filter)
      BY <3>1, InsertedType
    <3> HIDE DEF f, Filter
    <3>3. <<f>>[1] \in Filter
      BY <3>2
    <3> QED
      BY <3>3
  <2> HIDE DEF f, Filter
  <2>4. /\ Len(fs) \in Nat /\ DOMAIN fs = 1 .. Len(fs)
        /\ DOMAIN g = 1 .. Len(fs) + 1 /\ g[1] = f
        /\ \A i \in DOMAIN g : i # 1 => i - 1 \in DOMAIN fs /\ g[i] = fs[i - 1]
    BY <2>3
  <2> HIDE DEF g
  <2> QED
    BY <2>1, <2>2, <2>4 DEF FiltersBelow
<1> QED
  BY <1>1, <1>2

(* The user is only asked about what no rule decides: not while the given  *)
(* addresses are read, nor without questions.                              *)
LEMMA AskFilters ==
  ASSUME NEW u \in Urls, NEW embedded, NEW fs \in Seq(Filter), NEW w, NEW reply
  PROVE  \E answer :
           /\ Ask(u, embedded, fs, w, reply).filters = WithFilter(fs, answer, u)
           /\ Primary => answer \in {"tree", "level", "nothing"}
           /\ ~Primary /\ w = 2 /\ ~opt.first => answer = "nothing"
<1>1. WithFilter(fs, "nothing", u) = fs
  BY NothingInserted DEF Filing, Taking
<1> HIDE DEF Filter
<1> QED
  BY <1>1 DEF Ask

(* What the wizard of a plain mirror accepts is covered, and the filters   *)
(* stay below the roots.                                                   *)
LEMMA AskCovered ==
  ASSUME Shape, Plain, ptr \in DOMAIN heap,
         NEW u \in Urls, NEW embedded, NEW fs \in Seq(Filter), NEW reply,
         FiltersBelow(fs),
         Primary => u \in Roots,
         ~Primary => Cur.kind = "page"
  PROVE  LET r == Ask(u, embedded, fs, 2, reply)
         IN /\ FiltersBelow(r.filters) /\ r.wizard = 2
            /\ /\ ~Known(u) /\ r.verdict # "no"
               /\ OwnPremiers /\ \A i \in Pages : Covered(heap[i].url)
               => Covered(u)
<1> DEFINE r == Ask(u, embedded, fs, 2, reply)
<1>0. /\ ~opt.up /\ ~opt.near /\ opt.ext = 0 /\ ~opt.first
  BY DEF Plain
<1>1. FiltersBelow(r.filters)
  <2>1. PICK answer : /\ r.filters = WithFilter(fs, answer, u)
                      /\ Primary => answer \in {"tree", "level", "nothing"}
                      /\ ~Primary => answer = "nothing"
    <3>1. \E answer :
             /\ Ask(u, embedded, fs, 2, reply).filters = WithFilter(fs, answer, u)
             /\ Primary => answer \in {"tree", "level", "nothing"}
             /\ ~Primary /\ 2 = 2 /\ ~opt.first => answer = "nothing"
      BY AskFilters
    <3> QED
      BY <1>0, <3>1
  <2>2. CASE answer = "nothing"
    BY <2>1, <2>2, NothingInserted DEF Filing, Taking
  <2>3. CASE answer # "nothing"
    <3>1. Primary /\ u \in Roots /\ answer \in {"tree", "level"}
      BY <2>1, <2>3
    <3>2. Reach(answer, u) \subseteq Tree(u)
      BY <1>0, <3>1, RootsCovered DEF Reach
    <3>3. \A v \in Reach(answer, u) : Covered(v)
      BY <3>1, <3>2, RootsCovered
    <3> QED
      BY <2>1, <3>3, FiltersStayBelow
  <2> QED
    BY <2>2, <2>3
<1>2. r.wizard = 2
  BY DEF Ask
<1>3. ASSUME ~Known(u), r.verdict # "no", OwnPremiers,
             \A i \in Pages : Covered(heap[i].url)
      PROVE  Covered(u)
  <2>1. CASE Primary
    BY <2>1, RootsCovered
  <2>2. CASE ~Primary
    <3>1. ~Unwanted(u, embedded)
      BY <1>3 DEF Ask
    <3>2. ~Beside(u, embedded)
      BY <1>0 DEF Beside
    <3>3. Position(u) = "yes" \/ Ruling(u, fs) = "allow"
      <4>1. Position(u) \in {"yes", "no", "open"}
        BY DEF Position, Inside, Outside, Uphill, Downhill
      <4>2. Ruling(u, fs) \in {"none", "allow", "forbid"}
        BY DEF Ruling
      <4> QED
        BY <1>0, <1>3, <2>2, <3>1, <3>2, <4>1, <4>2 DEF Ask
    <3>4. CASE Position(u) = "yes"
      BY <1>3, <2>2, <3>4, PositionCovered
    <3>5. CASE Ruling(u, fs) = "allow"
      <4> DEFINE matching == {i \in DOMAIN fs : u \in fs[i].covers}
                 last == CHOOSE i \in matching : \A j \in matching : j <= i
      <4>1. matching # {} /\ fs[last].allow
        BY <3>5 DEF Ruling
      <4>2. last \in matching
        BY <4>1, LastMatching
      <4> QED
        BY <4>1, <4>2 DEF FiltersBelow
    <3> QED
      BY <3>3, <3>4, <3>5
  <2> QED
    BY <2>1, <2>2
<1> QED
  BY <1>1, <1>2, <1>3

(* A redirected file that takes the place of its link keeps the shape. *)
LEMMA GrownByMoved ==
  ASSUME Shape, ptr \in DOMAIN heap, Cur.kind = "page", NEW u \in Urls,
         NEW d \in Int
  PROVE  LET gone == [heap EXCEPT ![ptr].live = FALSE]
         IN /\ Grown(gone, u) /\ DOMAIN gone = DOMAIN heap
            /\ Grown(Append(gone, Page(u, d, Cur.premier, Cur.precedent)), u)
<1> DEFINE gone == [heap EXCEPT ![ptr].live = FALSE]
           e == Page(u, d, Cur.premier, Cur.precedent)
           n == Len(heap)
<1>1. /\ heap \in Seq(Entry) /\ n \in Nat /\ DOMAIN heap = 1 .. n
      /\ \A i \in DOMAIN heap : PageShape(heap, i)
  BY DEF Shape
<1>2. /\ DOMAIN gone = DOMAIN heap
      /\ \A i \in DOMAIN heap :
           gone[i] = IF i = ptr THEN [heap[i] EXCEPT !.live = FALSE] ELSE heap[i]
  BY <1>1
<1>3. \A i \in DOMAIN heap :
        /\ gone[i] \in Entry
        /\ gone[i].kind = heap[i].kind /\ gone[i].host = heap[i].host
        /\ gone[i].url = heap[i].url /\ gone[i].premier = heap[i].premier
        /\ gone[i].precedent = heap[i].precedent
        /\ gone[i].live => heap[i].live
  <2> SUFFICES ASSUME NEW i \in DOMAIN heap
               PROVE  /\ gone[i] \in Entry
                      /\ gone[i].kind = heap[i].kind /\ gone[i].host = heap[i].host
                      /\ gone[i].url = heap[i].url
                      /\ gone[i].premier = heap[i].premier
                      /\ gone[i].precedent = heap[i].precedent
                      /\ gone[i].live => heap[i].live
    OBVIOUS
  <2>1. heap[i] \in Entry
    BY <1>1
  <2> HIDE DEF gone
  <2> QED
    BY <1>2, <2>1 DEF Entry
<1>4. gone \in Seq(Entry) /\ Len(gone) = n
  <2>1. gone = [i \in 1 .. n |-> gone[i]]
    BY <1>1
  <2> HIDE DEF gone, Entry
  <2> QED
    BY <1>1, <1>2, <1>3, <2>1
<1>5. WellShaped(gone)
  <2> HIDE DEF gone
  <2> QED
    BY <1>1, <1>2, <1>3, <1>4 DEF WellShaped, PageShape
<1>6. /\ e \in Entry /\ e.kind = "page" /\ e.url = u /\ e.host = e.url.host
      /\ e.premier = Cur.premier
  <2>1. u.host \in Hosts
    BY ScopeAssumption DEF Address
  <2>2. Cur.premier \in Nat /\ Cur.precedent \in Nat
    <3>1. Cur \in Entry
      BY <1>1 DEF Cur
    <3> QED
      BY <3>1 DEF Entry
  <2>3. e = [kind |-> "page", host |-> u.host, url |-> u, depth |-> d,
             premier |-> Cur.premier, precedent |-> Cur.precedent, live |-> TRUE]
    BY DEF Page
  <2> HIDE DEF e
  <2>4. e \in Entry
    BY <2>1, <2>2, <2>3 DEF Entry
  <2> QED
    BY <2>3, <2>4
<1>7. /\ Cur.premier \in DOMAIN heap /\ heap[Cur.premier].kind = "page"
      /\ heap[Cur.premier].premier = Cur.premier
  BY <1>1 DEF PageShape, Cur
<1> HIDE DEF gone, e, Entry
<1>8. /\ WellShaped(Append(gone, e)) /\ DOMAIN Append(gone, e) = 1 .. n + 1
      /\ \A i \in DOMAIN gone : Append(gone, e)[i] = gone[i]
      /\ Append(gone, e)[n + 1] = e
  <2>1. /\ e.premier \in DOMAIN gone /\ gone[e.premier].kind = "page"
        /\ gone[e.premier].premier = e.premier
    BY <1>2, <1>3, <1>6, <1>7
  <2>2. e.url \in Urls /\ e.host = e.url.host /\ e \in Entry
    BY <1>6
  <2>3. Len(gone) + 1 = n + 1
    BY <1>4
  <2> QED
    BY <1>5, <2>1, <2>2, <2>3, ShapeOfOneMore
<1>9. Grown(gone, u)
  BY <1>2, <1>3, <1>5 DEF Grown
<1> DEFINE h == Append(gone, e)
<1> HIDE DEF h
<1>10. Grown(h, u)
  <2>1. /\ WellShaped(h) /\ DOMAIN h = 1 .. n + 1 /\ h[n + 1] = e
        /\ \A i \in DOMAIN heap : h[i] = gone[i]
    BY <1>2, <1>8 DEF h
  <2>2. \A i \in DOMAIN h \ DOMAIN heap : i = n + 1
    BY <1>1, <2>1
  <2>3. DOMAIN heap \subseteq DOMAIN h
    BY <1>1, <2>1
  <2> QED
    BY <1>3, <1>6, <2>1, <2>2, <2>3 DEF Grown
<1> QED
  BY <1>2, <1>9, <1>10 DEF gone, e, h

(* An accepted link that is covered leaves a plain mirror covered. *)
LEMMA StaysBelowKept ==
  ASSUME Shape, StaysBelow, opt' = opt, NEW u, Grown(heap', u),
         Plain /\ OwnPremiers /\ (\A i \in Pages : Covered(heap[i].url))
           => Covered(u) \/ DOMAIN heap' = DOMAIN heap
  PROVE  StaysBelow'
<1> SUFFICES ASSUME Plain, OwnPremiers', NEW i \in Pages'
             PROVE  Covered(heap'[i].url)
  BY DEF StaysBelow, Plain
<1>1. /\ DOMAIN heap \subseteq DOMAIN heap'
      /\ \A j \in DOMAIN heap :
           /\ heap'[j].kind = heap[j].kind /\ heap'[j].host = heap[j].host
           /\ heap'[j].url = heap[j].url /\ heap'[j].premier = heap[j].premier
      /\ \A j \in DOMAIN heap' \ DOMAIN heap :
           heap'[j].kind = "page" => heap'[j].url = u
  BY DEF Grown
<1>2. Pages \subseteq Pages' /\ \A j \in Pages : heap[j].premier \in DOMAIN heap
  BY <1>1 DEF Pages, Shape, PageShape
<1>3. OwnPremiers
  <2> SUFFICES ASSUME NEW j \in Pages
               PROVE  heap[heap[j].premier].host = heap[j].host
    BY DEF OwnPremiers
  <2>1. j \in DOMAIN heap /\ j \in Pages' /\ heap[j].premier \in DOMAIN heap
    BY <1>2 DEF Pages
  <2>2. heap'[heap'[j].premier].host = heap'[j].host
    BY <2>1 DEF OwnPremiers
  <2> QED
    BY <1>1, <2>1, <2>2
<1>4. \A j \in Pages : Covered(heap[j].url)
  BY <1>3 DEF StaysBelow
<1>5. CASE i \in DOMAIN heap
  <2>1. i \in Pages
    BY <1>1, <1>5 DEF Pages
  <2> QED
    BY <1>1, <1>4, <1>5, <2>1
<1>6. CASE i \notin DOMAIN heap
  <2>1. i \in DOMAIN heap' /\ heap'[i].kind = "page"
    BY DEF Pages
  <2>2. heap'[i].url = u
    BY <1>1, <1>6, <2>1
  <2> QED
    BY <1>3, <1>4, <1>6, <2>1, <2>2
<1> QED
  BY <1>5, <1>6

(* A heap that does not change keeps its shape. *)
LEMMA GrownByNothing ==
  ASSUME Shape, NEW u
  PROVE  Grown(heap, u)
BY DEF Shape, Grown, WellShaped

-----------------------------------------------------------------------------
(* The page at ptr has an address, and its links are addresses. *)
LEMMA CurIsPage ==
  ASSUME Shape, ptr \in DOMAIN heap, Cur.kind = "page"
  PROVE  Cur.url \in Urls
BY DEF Shape, PageShape, Cur

(* What a link of a page may change, with the wizard asked once or twice. *)
LEMMA ScopeOfLink ==
  ASSUME ScopeInv, NEW u \in Urls, NEW v \in Urls, NEW reply, Link(u, v, reply)
  PROVE  ScopeInv'
<1> DEFINE r == Ask(u, todo[u], filters, wizard, reply)
           s == Ask(v, FALSE, r.filters, r.wizard, reply)
<1>1. /\ Shape /\ wizard \in {1, 2} /\ filters \in Seq(Filter)
      /\ Plain => wizard = 2 /\ FiltersBelow(filters)
  BY DEF ScopeInv, Shape
<1>2. reading /\ ptr \in DOMAIN heap /\ u \in DOMAIN todo
  BY <1>1 DEF Link, Shape
<1>3. ~Primary => Cur.kind = "page"
  BY <1>1, <1>2 DEF Shape, Primary
<1>4. SameHost(u) \in BOOLEAN /\ (SameHost(u) => Cur.kind = "page")
  BY <1>3 DEF SameHost
<1>5. /\ r.filters \in Seq(Filter) /\ r.prio \in Int /\ r.wizard \in {1, 2}
  BY <1>1, AskType
<1>6. /\ s.filters \in Seq(Filter) /\ s.prio \in Int /\ s.wizard \in {1, 2}
  <2> HIDE DEF r
  <2> QED
    BY <1>1, <1>5, AskType
<1>7. Primary => u \in Roots
  BY <1>1, <1>2 DEF Shape, Primary, Roots
<1>8. Primary /\ v \in Moves[u] => v \in Roots
  BY <1>1, <1>2 DEF Shape, Primary, Roots
<1>9. Plain => /\ FiltersBelow(r.filters) /\ r.wizard = 2
               /\ /\ ~Known(u) /\ r.verdict # "no"
                  /\ OwnPremiers /\ \A i \in Pages : Covered(heap[i].url)
                  => Covered(u)
  BY <1>1, <1>2, <1>3, <1>7, AskCovered
<1>10. Plain /\ v \in Moves[u] =>
         /\ FiltersBelow(s.filters) /\ s.wizard = 2
         /\ /\ ~Known(v) /\ s.verdict # "no"
            /\ OwnPremiers /\ \A i \in Pages : Covered(heap[i].url)
            => Covered(v)
  <2> SUFFICES ASSUME Plain, v \in Moves[u]
               PROVE  /\ FiltersBelow(s.filters) /\ s.wizard = 2
                      /\ /\ ~Known(v) /\ s.verdict # "no"
                         /\ OwnPremiers /\ \A i \in Pages : Covered(heap[i].url)
                         => Covered(v)
    OBVIOUS
  <2> DEFINE fs == r.filters
  <2>1. s = Ask(v, FALSE, fs, 2, reply)
    BY <1>9
  <2>2. fs \in Seq(Filter) /\ FiltersBelow(fs)
    BY <1>5, <1>9
  <2>3. Primary => v \in Roots
    BY <1>8
  <2> HIDE DEF s, fs, r
  <2> QED
    BY <1>1, <1>2, <1>3, <2>1, <2>2, <2>3, AskCovered
<1>10a. LET e == [s EXCEPT !.refused = @ \cup r.refused]
       IN e.filters = s.filters /\ e.wizard = s.wizard
  <2> DEFINE x == s.refused \cup r.refused
  <2> HIDE DEF r, x
  <2>1. LET e == [s EXCEPT !.refused = x]
        IN e.filters = s.filters /\ e.wizard = s.wizard
    BY AskRecord
  <2> QED
    BY <2>1 DEF x
<1> HIDE DEF r, s
<1>11. /\ filters' \in Seq(Filter) /\ wizard' \in {1, 2}
       /\ Plain => wizard' = 2 /\ FiltersBelow(filters')
  <2>1. IF u = v THEN filters' = r.filters /\ wizard' = r.wizard
        ELSE v \in Moves[u] /\ filters' = s.filters /\ wizard' = s.wizard
    BY <1>10a, Zenon DEF Link, Learn, r, s
  <2> QED
    BY <1>5, <1>6, <1>9, <1>10, <2>1
<1>12. PICK w \in Urls : Grown(heap', w) /\
         (Plain /\ OwnPremiers /\ (\A i \in Pages : Covered(heap[i].url))
            => Covered(w) \/ DOMAIN heap' = DOMAIN heap)
  <2>0. \A w \in Urls, prio \in Int :
          /\ Grown(Recorded(w, prio, SameHost(u)), w)
          /\ Known(w) => DOMAIN Recorded(w, prio, SameHost(u)) = DOMAIN heap
    BY <1>1, <1>2, <1>4, GrownByRecorded DEF Recorded, Raised
  <2>1. CASE heap' = heap
    BY <1>1, <2>1, GrownByNothing
  <2>2. CASE u = v /\ r.verdict # "no" /\ heap' = Recorded(u, r.prio, SameHost(u))
    BY <1>5, <1>9, <2>0, <2>2
  <2>3. CASE /\ v \in Moves[u] /\ s.verdict # "no"
             /\ heap' = Recorded(v, r.prio, SameHost(u))
    BY <1>5, <1>10, <2>0, <2>3
  <2>4. IF u = v
        THEN heap' = IF r.verdict = "no" THEN heap
                     ELSE Recorded(u, r.prio, SameHost(u))
        ELSE /\ v \in Moves[u]
             /\ heap' = IF s.verdict = "no" THEN heap
                        ELSE Recorded(v, r.prio, SameHost(u))
    BY Zenon DEF Link, r, s
  <2> QED
    BY <2>1, <2>2, <2>3, <2>4
<1>13. /\ UNCHANGED <<opt, ptr, reading, rules>>
       /\ DOMAIN todo' = DOMAIN todo \ {u}
  BY DEF Link
<1>14. /\ WellShaped(heap') /\ DOMAIN heap \subseteq DOMAIN heap'
       /\ heap'[ptr].kind = Cur.kind
  BY <1>2, <1>12 DEF Grown, Cur
<1>15. Shape'
  <2>1. heap' \in Seq(Entry) /\ \A i \in DOMAIN heap' : PageShape(heap', i)
    BY <1>14 DEF WellShaped
  <2>2. ptr' \in DOMAIN heap' /\ Cur'.kind = Cur.kind
    BY <1>2, <1>13, <1>14 DEF Cur
  <2>3. DOMAIN todo' \subseteq DOMAIN todo
    BY <1>13
  <2> HIDE DEF Entry, Filter, Settings, Cur
  <2> QED
    BY <1>1, <1>11, <1>13, <2>1, <2>2, <2>3 DEF Shape
<1>16. StaysBelow'
  BY <1>1, <1>12, <1>13, StaysBelowKept DEF ScopeInv
<1> QED
  BY <1>11, <1>13, <1>15, <1>16 DEF ScopeInv, Plain

(* What a redirection may change. *)
LEMMA ScopeOfMoved ==
  ASSUME ScopeInv, NEW v \in Urls, NEW reply, Moved(v, reply)
  PROVE  ScopeInv'
<1> DEFINE r == Ask(v, FALSE, filters, wizard, reply)
           gone == [heap EXCEPT ![ptr].live = FALSE]
           depth == IF r.prio = 0 THEN Cur.depth ELSE Lower(r.prio - 1, Cur.depth)
           d == IF depth < 0 THEN 0 ELSE depth
           more == Append(gone, Page(v, d, Cur.premier, Cur.precedent))
<1>1. /\ Shape /\ wizard \in {1, 2} /\ filters \in Seq(Filter)
      /\ Plain => wizard = 2 /\ FiltersBelow(filters)
      /\ StaysBelow
  BY DEF ScopeInv, Shape
<1>2. ptr \in DOMAIN heap /\ Cur.kind = "page" /\ ~reading /\ ~Primary /\ ptr \in Nat
  BY <1>1 DEF Moved, Here, Shape, Primary
<1>3. /\ r.filters \in Seq(Filter) /\ r.prio \in Int /\ r.wizard \in {1, 2}
  BY <1>1, AskType
<1>4. Plain => /\ FiltersBelow(r.filters) /\ r.wizard = 2
               /\ /\ ~Known(v) /\ r.verdict # "no"
                  /\ OwnPremiers /\ \A i \in Pages : Covered(heap[i].url)
                  => Covered(v)
  <2> SUFFICES ASSUME Plain
               PROVE  /\ FiltersBelow(r.filters) /\ r.wizard = 2
                      /\ /\ ~Known(v) /\ r.verdict # "no"
                         /\ OwnPremiers /\ \A i \in Pages : Covered(heap[i].url)
                         => Covered(v)
    OBVIOUS
  <2>1. r = Ask(v, FALSE, filters, 2, reply) /\ FiltersBelow(filters)
    BY <1>1
  <2> HIDE DEF r
  <2> QED
    BY <1>1, <1>2, <2>1, AskCovered
<1> HIDE DEF r
<1>5. d \in Int
  <2>1. Cur.depth \in Int
    <3> HIDE DEF d, depth, gone, more
    <3> QED
      BY <1>1, <1>2, DepthType, 0 \in Int
  <2>2. depth \in Int
    <3> DEFINE p == r.prio - 1
               c == Cur.depth
    <3>1. p \in Int /\ c \in Int
      BY <1>3, <2>1
    <3> HIDE DEF p, c
    <3>2. Lower(p, c) \in Int
      BY <3>1 DEF Lower
    <3>3. depth = IF r.prio = 0 THEN c ELSE Lower(p, c)
      BY Zenon DEF p, c
    <3> QED
      BY <3>1, <3>2, <3>3
  <2> HIDE DEF depth
  <2> QED
    BY <2>2
<1> HIDE DEF d
<1>6. Grown(gone, v) /\ DOMAIN gone = DOMAIN heap /\ Grown(more, v)
  BY <1>1, <1>2, <1>5, GrownByMoved
<1> HIDE DEF gone, more
<1>7. /\ \/ filters' = filters /\ wizard' = wizard
         \/ filters' = r.filters /\ wizard' = r.wizard
      /\ \/ heap' = heap \/ heap' = gone
         \/ heap' = more /\ r.verdict # "no" /\ ~Known(v)
      /\ \/ /\ reading' = TRUE /\ DOMAIN todo' = {v} /\ UNCHANGED <<heap, ptr>>
         \/ ptr' = ptr + 1 /\ UNCHANGED <<todo, reading>>
      /\ UNCHANGED <<opt, rules>>
  BY Zenon DEF Moved, Learn, r, gone, depth, d, more
<1>8. /\ filters' \in Seq(Filter) /\ wizard' \in {1, 2}
      /\ Plain => wizard' = 2 /\ FiltersBelow(filters')
  BY <1>1, <1>3, <1>4, <1>7
<1>9. /\ Grown(heap', v)
      /\ Plain /\ OwnPremiers /\ (\A i \in Pages : Covered(heap[i].url))
           => Covered(v) \/ DOMAIN heap' = DOMAIN heap
  <2>1. CASE heap' = heap
    BY <1>1, <2>1, GrownByNothing
  <2>2. CASE heap' = gone
    BY <1>6, <2>2
  <2>3. CASE heap' = more /\ r.verdict # "no" /\ ~Known(v)
    BY <1>4, <1>6, <2>3
  <2> QED
    BY <1>7, <2>1, <2>2, <2>3
<1>10. Shape'
  <2>1. heap' \in Seq(Entry) /\ \A i \in DOMAIN heap' : PageShape(heap', i)
    BY <1>9 DEF Grown, WellShaped
  <2>2. ptr' # 1 /\ ptr' \in Nat \ {0}
    BY <1>1, <1>2, <1>7 DEF Primary, Shape
  <2>3. reading' => ptr' \in DOMAIN heap' /\ Cur'.kind = "page"
    BY <1>2, <1>7 DEF Cur
  <2>4. DOMAIN todo' \subseteq Urls /\ reading' \in BOOLEAN
    BY <1>1, <1>7 DEF Shape
  <2> HIDE DEF Entry, Filter, Settings, Cur
  <2> QED
    BY <1>1, <1>7, <1>8, <2>1, <2>2, <2>3, <2>4 DEF Shape
<1>11. StaysBelow'
  BY <1>1, <1>7, <1>9, StaysBelowKept
<1> QED
  BY <1>7, <1>8, <1>10, <1>11 DEF ScopeInv, Plain

(* Steps that leave the heap, the filters and the wizard as they are. *)
LEMMA ScopeOfReading ==
  ASSUME ScopeInv,
         \/ Advance \/ ParsePage \/ PassLink \/ \E set \in Bans : ReadRobots(set)
         \/ UNCHANGED vars
  PROVE  ScopeInv'
<1>1. Shape
  BY DEF ScopeInv
<1>2. UNCHANGED <<opt, heap, filters, wizard>>
  BY DEF Advance, ParsePage, Read, PassLink, ReadRobots, vars
<1>0. /\ rules \in [Hosts -> SUBSET Dirs] /\ DOMAIN todo \subseteq Urls
      /\ ptr \in Nat \ {0} /\ reading \in BOOLEAN
      /\ ptr = 1 => reading /\ DOMAIN todo \subseteq Primaries
      /\ reading => ptr \in DOMAIN heap
      /\ reading /\ ptr # 1 => Cur.kind = "page"
  BY <1>1 DEF Shape
<1>3. /\ rules' \in [Hosts -> SUBSET Dirs]
      /\ DOMAIN todo' \subseteq Urls
      /\ \/ ptr' = ptr + 1 /\ reading' \in BOOLEAN /\ ~reading'
         \/ ptr' = ptr /\ ptr # 1 /\ ptr \in DOMAIN heap /\ Cur.kind = "page"
            /\ reading' = TRUE
         \/ UNCHANGED <<ptr, reading, todo>>
  <2>1. CASE Advance
    <3>1. /\ todo' = todo /\ rules' = rules /\ ptr' = ptr + 1
          /\ reading' = FALSE
      BY <2>1 DEF Advance
    <3>2. rules' \in [Hosts -> SUBSET Dirs] /\ DOMAIN todo' \subseteq Urls
      BY <1>0, <3>1
    <3>3. reading' \in BOOLEAN /\ ~reading'
      BY <3>1
    <3> QED
      BY <3>1, <3>2, <3>3
  <2>2. CASE ParsePage
    <3>1. /\ ptr \in DOMAIN heap /\ Cur.kind = "page" /\ ~reading
          /\ ptr' = ptr /\ reading' = TRUE /\ rules' = rules
      BY <2>2 DEF ParsePage, Here, Read
    <3>2. Cur.url \in Urls
      BY <1>1, <3>1, CurIsPage
    <3>3. PICK set \in SUBSET Links[Cur.url] : \E links \in [set -> BOOLEAN] : todo' = links
      BY <2>2 DEF ParsePage, Read
    <3>4. set \subseteq Urls /\ DOMAIN todo' = set
      BY <3>2, <3>3, ScopeAssumption
    <3> QED
      BY <1>1, <3>1, <3>4 DEF Shape
  <2>3. CASE PassLink
    BY <1>0, <2>3 DEF PassLink, Here
  <2>4. ASSUME NEW set \in Bans, ReadRobots(set)
        PROVE  /\ rules' \in [Hosts -> SUBSET Dirs]
               /\ DOMAIN todo' \subseteq Urls
               /\ ptr' = ptr + 1 /\ reading' \in BOOLEAN /\ ~reading'
    <3>1. set \subseteq Dirs
      BY ScopeAssumption
    <3>2. rules' = [rules EXCEPT ![Cur.host] = set]
      BY <2>4 DEF ReadRobots
    <3> QED
      BY <1>0, <2>4, <3>1, <3>2 DEF ReadRobots, Here
  <2>5. CASE UNCHANGED vars
    BY <1>0, <2>5 DEF vars
  <2> QED
    BY <2>1, <2>2, <2>3, <2>4, <2>5
<1>4. Shape'
  <2>1. /\ ptr' \in Nat \ {0} /\ reading' \in BOOLEAN
        /\ ptr' = 1 => reading' /\ DOMAIN todo' \subseteq Primaries
        /\ reading' => ptr' \in DOMAIN heap
        /\ reading' /\ ptr' # 1 => ptr' = ptr /\ Cur.kind = "page"
    <3>1. CASE ptr' = ptr + 1 /\ reading' \in BOOLEAN /\ ~reading'
      BY <1>0, <3>1
    <3>2. CASE /\ ptr' = ptr /\ ptr # 1 /\ ptr \in DOMAIN heap
               /\ Cur.kind = "page" /\ reading' = TRUE
      BY <1>0, <3>2
    <3>3. CASE UNCHANGED <<ptr, reading, todo>>
      BY <1>0, <3>3
    <3> QED
      BY <1>3, <3>1, <3>2, <3>3
  <2>2. ptr' = ptr => Cur' = Cur
    BY <1>2 DEF Cur
  <2>3. /\ opt' \in Settings /\ heap' \in Seq(Entry) /\ filters' \in Seq(Filter)
        /\ \A i \in DOMAIN heap' : PageShape(heap', i)
    BY <1>1, <1>2 DEF Shape
  <2> QED
    BY <1>2, <1>3, <2>1, <2>2, <2>3 DEF Shape
<1>5. StaysBelow'
  BY <1>2 DEF ScopeInv, StaysBelow, Plain, OwnPremiers, Pages
<1> QED
  BY <1>2, <1>4, <1>5 DEF ScopeInv, Plain

(* Only a plain mirror without accepting filters starts the invariant. *)
LEMMA ScopeAtStart ==
  ASSUME Init
  PROVE  ScopeInv
<1>1. opt \in Settings
  BY ScopeAssumption DEF Init
<1>2. opt.filters \in Seq(Filter) /\ opt.depth \in Nat /\ opt.wizard \in {1, 2}
  BY <1>1 DEF Settings
<1> DEFINE e == [kind |-> "primary", host |-> "primary", url |-> NoUrl,
                 depth |-> opt.depth + 1, premier |-> 1, precedent |-> 1,
                 live |-> TRUE]
<1>3. e \in Entry /\ e.kind = "primary"
  BY <1>2 DEF Entry
<1> HIDE DEF e, Entry
<1>4. heap = <<e>> /\ ptr = 1
  BY DEF Init, e
<1>5. /\ heap \in Seq(Entry) /\ DOMAIN heap = {1} /\ heap[1] = e
  BY <1>3, <1>4
<1>6. DOMAIN todo = Primaries /\ Primaries \subseteq Urls
  BY ScopeAssumption DEF Init
<1>7. rules \in [Hosts -> SUBSET Dirs]
  BY DEF Init
<1>8. Shape
  <2> HIDE DEF Filter, Settings
  <2> QED
    BY <1>1, <1>2, <1>3, <1>4, <1>5, <1>6, <1>7 DEF Shape, PageShape, Init
<1>9. StaysBelow
  BY <1>3, <1>5 DEF StaysBelow, Pages
<1>10. Plain => FiltersBelow(filters) /\ wizard = 2
  BY DEF Plain, Init, FiltersBelow
<1> QED
  BY <1>2, <1>8, <1>9, <1>10 DEF ScopeInv, Init

(* A plain mirror never leaves the directories it was started in, as long  *)
(* as every page is on the host of the link it started from.               *)
THEOREM InScope == Spec => []StaysBelow
<1>1. Init => ScopeInv
  BY ScopeAtStart
<1>2. ScopeInv /\ [Next]_vars => ScopeInv'
  BY ScopeOfLink, ScopeOfMoved, ScopeOfReading DEF Next
<1>3. ScopeInv => StaysBelow
  BY DEF ScopeInv
<1> QED
  BY <1>1, <1>2, <1>3, PTL DEF Spec

-----------------------------------------------------------------------------
(* What the user has refused is never taken.                               *)
AnswerInv ==
  /\ refusals \subseteq Urls
  /\ Primary => refusals = {}
  /\ \A u \in refusals : ~Known(u) /\ Ruling(u, filters) = "forbid"

(* A filter in front does not change what the last one that matches says. *)
LEMMA RulingKept ==
  ASSUME NEW fs \in Seq(Filter), NEW u \in Urls, NEW answer, NEW v,
         Ruling(v, fs) = "forbid"
  PROVE  Ruling(v, WithFilter(fs, answer, u)) = "forbid"
<1>1. CASE answer \notin Filing
  BY <1>1, NothingInserted
<1>2. CASE answer \in Filing
  <2> DEFINE g == WithFilter(fs, answer, u)
             old == {i \in DOMAIN fs : v \in fs[i].covers}
             new == {i \in DOMAIN g : v \in g[i].covers}
             last(S) == CHOOSE i \in S : \A j \in S : j <= i
  <2>1. /\ g \in Seq(Filter) /\ Len(fs) \in Nat /\ DOMAIN fs = 1 .. Len(fs)
        /\ DOMAIN g = 1 .. Len(fs) + 1
        /\ \A i \in DOMAIN fs : i + 1 \in DOMAIN g /\ g[i + 1] = fs[i]
        /\ \A i \in DOMAIN g : i # 1 => i - 1 \in DOMAIN fs /\ g[i] = fs[i - 1]
    <3> DEFINE f == [allow |-> answer \in Taking, covers |-> Reach(answer, u)]
    <3>1. Inserted(answer, u) = <<f>> /\ <<f>> \in Seq(Filter)
      BY <1>2, InsertedType DEF Inserted
    <3> HIDE DEF f
    <3>2. g = <<f>> \o fs
      BY <3>1 DEF WithFilter
    <3> QED
      BY <3>1, <3>2
  <2> HIDE DEF g
  <2>2. old # {} /\ ~fs[last(old)].allow
    BY DEF Ruling
  <2>3. last(old) \in old /\ \A j \in old : j <= last(old)
    BY <2>2, LastMatching
  <2>4. last(old) + 1 \in new
    BY <2>1, <2>3
  <2>5. last(new) \in new /\ \A j \in new : j <= last(new)
    BY <2>1, <2>4, LastMatching
  <2>6. last(new) = last(old) + 1
    <3>1. last(old) + 1 <= last(new)
      BY <2>4, <2>5
    <3>2. last(new) # 1
      BY <2>1, <2>3, <2>5, <3>1
    <3>3. last(new) - 1 \in old
      BY <2>1, <2>5, <3>2
    <3>4. last(new) - 1 <= last(old)
      BY <2>3, <3>3
    <3> QED
      BY <2>1, <2>3, <2>5, <3>1, <3>4
  <2>7. new # {} /\ ~g[last(new)].allow
    BY <2>1, <2>2, <2>3, <2>5, <2>6
  <2>8. Ruling(v, g) = "forbid"
    BY <2>7 DEF Ruling
  <2> QED
    BY <2>8 DEF g
<1> QED
  BY <1>1, <1>2

(* An answer that lasts forbids the address it is about. *)
LEMMA RulingInserted ==
  ASSUME NEW fs \in Seq(Filter), NEW u \in Urls, NEW answer \in Lasting,
         Ruling(u, fs) = "none"
  PROVE  Ruling(u, WithFilter(fs, answer, u)) = "forbid"
<1> DEFINE g == WithFilter(fs, answer, u)
           new == {i \in DOMAIN g : u \in g[i].covers}
           last == CHOOSE i \in new : \A j \in new : j <= i
           f == [allow |-> answer \in Taking, covers |-> Reach(answer, u)]
<1>1. answer \in Filing /\ answer \notin Taking
  BY DEF Lasting, Filing, Taking
<1>2. u \in Reach(answer, u)
  <2>1. <<u.dir, u.dir>> \in Within
    BY ScopeAssumption DEF Address
  <2> QED
    BY <2>1 DEF Lasting, Reach, Tree, Site
<1>3. {i \in DOMAIN fs : u \in fs[i].covers} = {}
  BY DEF Ruling
<1>4. /\ g \in Seq(Filter) /\ Len(fs) \in Nat /\ DOMAIN fs = 1 .. Len(fs)
      /\ DOMAIN g = 1 .. Len(fs) + 1 /\ g[1] = f
      /\ \A i \in DOMAIN g : i # 1 => i - 1 \in DOMAIN fs /\ g[i] = fs[i - 1]
  <2>1. Inserted(answer, u) = <<f>> /\ <<f>> \in Seq(Filter)
    BY <1>1, InsertedType DEF Inserted
  <2> HIDE DEF f
  <2>2. g = <<f>> \o fs
    BY <2>1 DEF WithFilter
  <2> QED
    BY <2>1, <2>2
<1> HIDE DEF g
<1>5. 1 \in new
  BY <1>2, <1>4
<1>6. last \in new
  BY <1>4, <1>5, LastMatching
<1>7. last = 1
  BY <1>3, <1>4, <1>6
<1>8. ~g[last].allow
  <2>1. ~f.allow
    BY <1>1
  <2>2. g[last] = f
    BY <1>4, <1>7
  <2> QED
    BY <2>1, <2>2
<1>9. Ruling(u, g) = "forbid"
  BY <1>5, <1>8 DEF Ruling
<1> QED
  BY <1>9 DEF g

(* What an answer leaves in the result r of the wizard.                     *)
Answered(r, u, fs, answer) ==
  /\ r.filters = WithFilter(fs, answer, u)
  /\ r.refused = IF answer \in Lasting THEN {u} ELSE {}
  /\ answer \in Lasting =>
       /\ ~Primary /\ ~Known(u) /\ Ruling(u, fs) = "none"
       /\ r.verdict = "no"

(* The user is asked to refuse only what no filter decides, and what he    *)
(* refuses is not taken.                                                   *)
LEMMA AskAnswer ==
  ASSUME NEW u \in Urls, NEW embedded, NEW fs \in Seq(Filter), NEW w, NEW reply
  PROVE  \E answer : Answered(Ask(u, embedded, fs, w, reply), u, fs, answer)
<1>1. WithFilter(fs, "nothing", u) = fs
  BY NothingInserted DEF Filing, Taking
<1> HIDE DEF Filter
<1>2. Lasting \subseteq Refusing /\ {"nothing", "tree", "level"} \cap Lasting = {}
  BY DEF Lasting, Refusing
<1> QED
  BY <1>1, <1>2 DEF Ask, Answered

(* What is forbidden is not taken and stays forbidden, and so is what the  *)
(* user refuses.                                                           *)
Forbids(r, u, fs) ==
  /\ r.refused \subseteq {u}
  /\ r.refused # {} => ~Primary /\ ~Known(u) /\ r.verdict = "no"
  /\ \A v : v \in r.refused \/ Ruling(v, fs) = "forbid"
              => Ruling(v, r.filters) = "forbid"
  /\ ~Primary /\ ~Known(u) /\ Ruling(u, fs) = "forbid" => r.verdict = "no"

(* The wizard keeps what is forbidden.                                     *)
LEMMA AskForbidden ==
  ASSUME NEW u \in Urls, NEW embedded, NEW fs \in Seq(Filter), NEW w, NEW reply
  PROVE  Forbids(Ask(u, embedded, fs, w, reply), u, fs)
<1> DEFINE r == Ask(u, embedded, fs, w, reply)
<1>1. ~Primary /\ ~Known(u) /\ Ruling(u, fs) = "forbid" => r.verdict = "no"
  BY DEF Ask
<1>0. PICK answer : Answered(r, u, fs, answer)
  BY AskAnswer
<1>2. /\ r.filters = WithFilter(fs, answer, u)
      /\ r.refused = IF answer \in Lasting THEN {u} ELSE {}
      /\ answer \in Lasting =>
           /\ ~Primary /\ ~Known(u) /\ Ruling(u, fs) = "none"
           /\ r.verdict = "no"
  BY <1>0 DEF Answered
<1> HIDE DEF r
<1>3. ASSUME NEW v, v \in r.refused \/ Ruling(v, fs) = "forbid"
      PROVE  Ruling(v, r.filters) = "forbid"
  <2>1. CASE v \in r.refused
    <3>1. answer \in Lasting /\ v = u
      BY <1>2, <2>1
    <3> QED
      BY <1>2, <3>1, RulingInserted
  <2>2. CASE Ruling(v, fs) = "forbid"
    BY <1>2, <2>2, RulingKept
  <2> QED
    BY <1>3, <2>1, <2>2
<1>4. r.refused \subseteq {u} /\ (r.refused # {} => answer \in Lasting)
  BY <1>2
<1> QED
  BY <1>1, <1>2, <1>3, <1>4 DEF r, Forbids

(* Nothing but the accepted address becomes known. *)
LEMMA KnownAfter ==
  ASSUME NEW u \in Urls, Grown(heap', u), NEW v \in Urls, Known(v)'
  PROVE  Known(v) \/ (v = u /\ DOMAIN heap' # DOMAIN heap)
<1>1. PICK i \in DOMAIN heap' : heap'[i].live /\ heap'[i].url = v
  BY DEF Known
<1>2. CASE i \in DOMAIN heap
  <2>1. (heap'[i].live => heap[i].live) /\ heap'[i].url = heap[i].url
    BY <1>2 DEF Grown
  <2>2. heap[i].live /\ heap[i].url = v
    BY <1>1, <2>1
  <2> QED
    BY <1>2, <2>2, Zenon DEF Known
<1>3. CASE i \notin DOMAIN heap
  <2>1. heap'[i].url = IF heap'[i].kind = "page" THEN u ELSE NoUrl
    BY <1>1, <1>3 DEF Grown
  <2> QED
    BY <1>1, <1>3, <2>1, ScopeAssumption
<1> QED
  BY <1>2, <1>3

(* The wizard is asked for one address, which is recorded or not. *)
LEMMA AnswerKept ==
  ASSUME AnswerInv, NEW w \in Urls, NEW embedded, NEW fs \in Seq(Filter),
         NEW wz, NEW reply, NEW a, a = Ask(w, embedded, fs, wz, reply),
         \A x \in refusals : Ruling(x, fs) = "forbid",
         filters' = a.filters, refusals' = refusals \cup a.refused,
         Primary' => Primary, Grown(heap', w),
         DOMAIN heap' # DOMAIN heap => ~Known(w) /\ a.verdict # "no"
  PROVE  AnswerInv'
<1>1. /\ a.refused \subseteq {w}
      /\ a.refused # {} => ~Primary /\ ~Known(w) /\ a.verdict = "no"
      /\ \A x : x \in a.refused \/ Ruling(x, fs) = "forbid"
                  => Ruling(x, a.filters) = "forbid"
      /\ ~Primary /\ ~Known(w) /\ Ruling(w, fs) = "forbid" => a.verdict = "no"
  <2>1. Forbids(a, w, fs)
    BY AskForbidden
  <2> QED
    BY <2>1 DEF Forbids
<1>2. /\ refusals \subseteq Urls
      /\ Primary => refusals = {}
      /\ \A x \in refusals : ~Known(x)
  BY DEF AnswerInv
<1>3. refusals' \subseteq Urls /\ (Primary' => refusals' = {})
  BY <1>1, <1>2
<1>4. ASSUME NEW x \in refusals'
      PROVE  Ruling(x, filters') = "forbid" /\ ~Known(x)'
  <2>1. Ruling(x, filters') = "forbid"
    BY <1>1
  <2>2. ~Known(x)
    BY <1>1, <1>2
  <2>3. ASSUME Known(x)' PROVE FALSE
    <3>1. x = w /\ DOMAIN heap' # DOMAIN heap
      BY <1>3, <2>2, <2>3, KnownAfter
    <3>2. ~Known(w) /\ a.verdict # "no"
      BY <3>1
    <3>3. w \in refusals
      BY <1>1, <3>1, <3>2
    <3> QED
      BY <1>1, <1>2, <3>2, <3>3
  <2> QED
    BY <2>1, <2>3
<1> QED
  BY <1>3, <1>4 DEF AnswerInv

(* What a link of a page leaves of the refusals. *)
LEMMA AnswerOfLink ==
  ASSUME ScopeInv, AnswerInv, NEW u \in Urls, NEW v \in Urls, NEW reply,
         Link(u, v, reply)
  PROVE  AnswerInv'
<1> DEFINE r == Ask(u, todo[u], filters, wizard, reply)
           s == Ask(v, FALSE, r.filters, r.wizard, reply)
<1>1. Shape /\ wizard \in {1, 2} /\ filters \in Seq(Filter) /\ Primary' = Primary
  BY DEF ScopeInv, Shape, Link, Primary
<1>2. ptr \in DOMAIN heap /\ SameHost(u) \in BOOLEAN /\ (SameHost(u) => Cur.kind = "page")
  BY <1>1 DEF Link, Shape, SameHost, Primary
<1>3. r.filters \in Seq(Filter) /\ r.prio \in Int
  BY <1>1, AskType
<1>4. /\ r.refused # {} => r.verdict = "no"
      /\ \A x : Ruling(x, filters) = "forbid" => Ruling(x, r.filters) = "forbid"
  <2>1. Forbids(r, u, filters)
    BY <1>1, AskForbidden
  <2> HIDE DEF r
  <2> QED
    BY <2>1 DEF Forbids
<1>5. [s EXCEPT !.refused = @ \cup r.refused].filters = s.filters
  /\ [s EXCEPT !.refused = @ \cup r.refused].refused = s.refused \cup r.refused
  <2> DEFINE x == s.refused \cup r.refused
  <2> HIDE DEF r, x
  <2>1. LET e == [s EXCEPT !.refused = x]
        IN e.filters = s.filters /\ e.refused = x
    BY AskRecord
  <2> QED
    BY <2>1 DEF x
<1> HIDE DEF r, s
<1>6. \A w \in Urls :
        /\ Grown(heap, w)
        /\ Grown(Recorded(w, r.prio, SameHost(u)), w)
        /\ Known(w) => DOMAIN Recorded(w, r.prio, SameHost(u)) = DOMAIN heap
  BY <1>1, <1>2, <1>3, GrownByRecorded, GrownByNothing DEF Recorded, Raised
<1>7. CASE u = v
  <2>1. /\ filters' = r.filters /\ refusals' = refusals \cup r.refused
        /\ heap' = IF r.verdict = "no" THEN heap
                   ELSE Recorded(u, r.prio, SameHost(u))
    BY <1>7, Zenon DEF Link, Learn, r
  <2>2. /\ Grown(heap', u)
        /\ DOMAIN heap' # DOMAIN heap => ~Known(u) /\ r.verdict # "no"
    BY <1>6, <2>1
  <2>3. \A x \in refusals : Ruling(x, filters) = "forbid"
    BY DEF AnswerInv
  <2>4. r = Ask(u, todo[u], filters, wizard, reply)
    BY DEF r
  <2> QED
    BY <1>1, <2>1, <2>2, <2>3, <2>4, AnswerKept
<1>8. CASE u # v
  <2>1. /\ r.verdict = "yes"
        /\ filters' = [s EXCEPT !.refused = @ \cup r.refused].filters
        /\ refusals' = refusals \cup [s EXCEPT !.refused = @ \cup r.refused].refused
        /\ heap' = IF s.verdict = "no" THEN heap
                   ELSE Recorded(v, r.prio, SameHost(u))
    BY <1>8, Zenon DEF Link, Learn, r, s
  <2>2. filters' = s.filters /\ refusals' = refusals \cup s.refused
    BY <1>4, <1>5, <2>1
  <2>3. /\ Grown(heap', v)
        /\ DOMAIN heap' # DOMAIN heap => ~Known(v) /\ s.verdict # "no"
    BY <1>6, <2>1
  <2>4. \A x \in refusals : Ruling(x, r.filters) = "forbid"
    BY <1>4 DEF AnswerInv
  <2>5. s = Ask(v, FALSE, r.filters, r.wizard, reply)
    BY DEF s
  <2> QED
    BY <1>1, <1>3, <2>2, <2>3, <2>4, <2>5, AnswerKept
<1> QED
  BY <1>7, <1>8

(* What a redirection leaves of the refusals. *)
LEMMA AnswerOfMoved ==
  ASSUME ScopeInv, AnswerInv, NEW v \in Urls, NEW reply, Moved(v, reply)
  PROVE  AnswerInv'
<1> DEFINE r == Ask(v, FALSE, filters, wizard, reply)
           gone == [heap EXCEPT ![ptr].live = FALSE]
           depth == IF r.prio = 0 THEN Cur.depth ELSE Lower(r.prio - 1, Cur.depth)
           d == IF depth < 0 THEN 0 ELSE depth
           more == Append(gone, Page(v, d, Cur.premier, Cur.precedent))
<1>1. Shape /\ wizard \in {1, 2} /\ filters \in Seq(Filter) /\ ptr \in Nat
  BY DEF ScopeInv, Shape
<1>2. ptr \in DOMAIN heap /\ Cur.kind = "page" /\ ~Primary /\ ptr # 1
  BY <1>1 DEF Moved, Here, Shape, Primary
<1>3. r.prio \in Int
  BY <1>1, AskType
<1> HIDE DEF r
<1>4. d \in Int
  BY <1>1, <1>2, <1>3, DepthType DEF Lower
<1> HIDE DEF d
<1>5. /\ Grown(gone, v) /\ DOMAIN gone = DOMAIN heap /\ Grown(more, v)
      /\ Grown(heap, v)
  BY <1>1, <1>2, <1>4, GrownByMoved, GrownByNothing
<1> HIDE DEF gone, more
<1>6. /\ \/ /\ filters' = filters /\ refusals' = refusals /\ heap' = heap
         \/ /\ filters' = r.filters /\ refusals' = refusals \cup r.refused
            /\ \/ heap' = heap \/ heap' = gone
               \/ heap' = more /\ r.verdict # "no" /\ ~Known(v)
      /\ ptr' = ptr \/ ptr' = ptr + 1
  BY Zenon DEF Moved, Learn, r, gone, depth, d, more
<1>7. ~Primary'
  BY <1>1, <1>2, <1>6 DEF Primary
<1>8. CASE filters' = filters /\ refusals' = refusals /\ heap' = heap
  BY <1>2, <1>7, <1>8 DEF AnswerInv, Known, Ruling
<1>9. CASE /\ filters' = r.filters /\ refusals' = refusals \cup r.refused
           /\ \/ heap' = heap \/ heap' = gone
              \/ heap' = more /\ r.verdict # "no" /\ ~Known(v)
  <2>1. /\ Grown(heap', v)
        /\ DOMAIN heap' # DOMAIN heap => ~Known(v) /\ r.verdict # "no"
    BY <1>5, <1>9
  <2>2. \A x \in refusals : Ruling(x, filters) = "forbid"
    BY DEF AnswerInv
  <2>3. r = Ask(v, FALSE, filters, wizard, reply)
    BY DEF r
  <2> QED
    BY <1>1, <1>7, <1>9, <2>1, <2>2, <2>3, AnswerKept
<1> QED
  BY <1>6, <1>8, <1>9

(* What the user has refused for good is never taken by a later answer.    *)
THEOREM AnswersStand == Spec => []AnswerStands
<1>1. Init => ScopeInv /\ AnswerInv
  BY ScopeAtStart DEF Init, AnswerInv
<1>2. ScopeInv /\ AnswerInv /\ [Next]_vars => ScopeInv' /\ AnswerInv'
  <2> SUFFICES ASSUME ScopeInv, AnswerInv, [Next]_vars
               PROVE  ScopeInv' /\ AnswerInv'
    OBVIOUS
  <2>1. ScopeInv'
    BY ScopeOfLink, ScopeOfMoved, ScopeOfReading DEF Next
  <2>2. ASSUME \/ Advance \/ ParsePage \/ PassLink
               \/ \E set \in Bans : ReadRobots(set)
               \/ UNCHANGED vars
        PROVE  AnswerInv'
    <3>1. UNCHANGED <<heap, filters, refusals>> /\ (ptr' = ptr \/ ptr' = ptr + 1)
      BY <2>2 DEF Advance, ParsePage, Read, PassLink, ReadRobots, vars
    <3>2. ptr \in Nat \ {0}
      BY DEF ScopeInv, Shape
    <3>3. Primary' => Primary
      BY <3>1, <3>2 DEF Primary
    <3> QED
      BY <3>1, <3>3 DEF AnswerInv, Known, Ruling
  <2> QED
    BY <2>1, <2>2, AnswerOfLink, AnswerOfMoved DEF Next
<1>3. AnswerInv => AnswerStands
  BY DEF AnswerInv, AnswerStands
<1> QED
  BY <1>1, <1>2, <1>3, PTL DEF Spec

-----------------------------------------------------------------------------
(* A page gives no forbidden link of its own host.                         *)
RobotsAt(h, i, host) == h[i].kind = "robots" /\ h[i].host = host

RobotsInv ==
  /\ 1 \in DOMAIN heap /\ heap[1].kind = "primary"
  /\ \A i \in DOMAIN heap : heap[i].kind = "primary" => heap[i].host = "primary"
  /\ \A i \in Pages : /\ heap[i].precedent \in DOMAIN heap
                      /\ heap[i].precedent <= ptr
                      /\ heap[heap[i].precedent].kind # "robots"
  /\ opt.robots = 2 =>
       /\ \A i, j \in DOMAIN heap, host \in Hosts :
            RobotsAt(heap, i, host) /\ RobotsAt(heap, j, host) => i = j
       /\ \A i \in Pages : heap[i].url.html =>
            \E j \in DOMAIN heap : j < i /\ RobotsAt(heap, j, heap[i].host)
       /\ RobotsFirst

(* What is put behind the heap for the address u, found at p.              *)
NewEntries(h, u, p) ==
  /\ \A i \in DOMAIN h \ DOMAIN heap :
       /\ h[i].precedent = p /\ h[i].kind # "primary" /\ h[i].host = u.host
       /\ h[i].kind = "robots" => ~RobotsKnown(u.host)
       /\ h[i].kind = "page" /\ u.html /\ opt.robots > 0 =>
            \E j \in DOMAIN h : j < i /\ RobotsAt(h, j, u.host)
  /\ \A i, j \in DOMAIN h \ DOMAIN heap :
       h[i].kind = "robots" /\ h[j].kind = "robots" => i = j

(* A first page of a host brings the robots.txt of the host with it. *)
LEMMA EntriesOfAppended ==
  ASSUME Shape, NEW u \in Urls, NEW prio, NEW same
  PROVE  NewEntries(Appended(u, prio, same), u, ptr)
<1> DEFINE n == Len(heap)
           robot == Robots(u.host, n + 1)
           page(k) == NewPage(u, prio, same, k)
           h == Appended(u, prio, same)
<1>1. heap \in Seq(Entry) /\ n \in Nat /\ DOMAIN heap = 1 .. n
  BY DEF Shape
<1>2. robot.kind = "robots" /\ robot.host = u.host /\ robot.precedent = ptr
  BY DEF Robots
<1>3. \A k : /\ page(k).kind = "page" /\ page(k).host = u.host
             /\ page(k).precedent = ptr
  BY DEF NewPage, Page
<1> HIDE DEF robot, page
<1>4. CASE ~NeedsRobots(u)
  <2>1. h = heap \o <<page(n + 1)>>
    BY <1>4 DEF Appended, page
  <2> HIDE DEF h
  <2>2. /\ DOMAIN h = 1 .. n + 1 /\ h[n + 1] = page(n + 1)
        /\ \A i \in DOMAIN heap : h[i] = heap[i]
    BY <1>1, <2>1
  <2>3. ASSUME u.html, opt.robots > 0
        PROVE  \E j \in DOMAIN h : j < n + 1 /\ RobotsAt(h, j, u.host)
    <3>1. PICK j \in DOMAIN heap : RobotsAt(heap, j, u.host)
      BY <1>4, <2>3 DEF NeedsRobots, RobotsKnown, RobotsAt
    <3> QED
      BY <1>1, <2>2, <3>1 DEF RobotsAt
  <2>4. DOMAIN h \ DOMAIN heap = {n + 1}
    BY <1>1, <2>2
  <2> QED
    BY <1>3, <2>2, <2>3, <2>4 DEF NewEntries, h
<1>5. CASE NeedsRobots(u)
  <2>1. h = heap \o <<robot, page(n + 2)>>
    BY <1>5 DEF Appended, page, robot
  <2> HIDE DEF h
  <2>2. /\ DOMAIN h = 1 .. n + 2 /\ h[n + 1] = robot /\ h[n + 2] = page(n + 2)
        /\ \A i \in DOMAIN heap : h[i] = heap[i]
    BY <1>1, <2>1
  <2>3. /\ ~RobotsKnown(u.host)
        /\ n + 1 \in DOMAIN h /\ n + 1 < n + 2 /\ RobotsAt(h, n + 1, u.host)
    BY <1>1, <1>2, <1>5, <2>2 DEF NeedsRobots, RobotsAt
  <2>4. DOMAIN h \ DOMAIN heap = {n + 1, n + 2} /\ n + 1 # n + 2
    BY <1>1, <2>2
  <2> QED
    BY <1>2, <1>3, <2>2, <2>3, <2>4 DEF NewEntries, h
<1> QED
  BY <1>4, <1>5

(* What is forbidden is not taken, whatever filters say. *)
LEMMA AskDisallowed ==
  ASSUME NEW u, NEW embedded, NEW fs, NEW w, NEW reply, opt.robots = 2,
         Disallowed(u), ~Known(u)
  PROVE  Ask(u, embedded, fs, w, reply).verdict = "no"
BY DEF Ask

(* Positions in the heap are numbers. *)
LEMMA Positions ==
  ASSUME Shape
  PROVE  DOMAIN heap \subseteq Nat
<1>1. heap \in Seq(Entry)
  BY DEF Shape
<1> QED
  BY <1>1

(* What is not behind a number is not behind a greater one. *)
LEMMA NotBehind ==
  ASSUME NEW m \in Nat, NEW n \in Nat, m <= n, NEW a \in Nat, a <= m
  PROVE  a <= n
OBVIOUS

(* A step that records at most one address, which is not forbidden. *)
LEMMA RobotsKept ==
  ASSUME Shape, RobotsInv, opt' = opt, rules' = rules, ptr' \in Nat, ptr <= ptr',
         NEW w \in Urls, Grown(heap', w),
         NEW p \in DOMAIN heap, p <= ptr, heap[p].kind # "robots",
         NewEntries(heap', w, p),
         DOMAIN heap' # DOMAIN heap /\ opt.robots = 2 => ~Disallowed(w)
  PROVE  RobotsInv'
<1>1. /\ heap \in Seq(Entry) /\ ptr \in Nat /\ DOMAIN heap = 1 .. Len(heap)
      /\ DOMAIN heap' = 1 .. Len(heap') /\ Len(heap) \in Nat /\ Len(heap') \in Nat
  <2>1. heap \in Seq(Entry) /\ heap' \in Seq(Entry)
    BY DEF Shape, Grown, WellShaped
  <2> QED
    BY <2>1 DEF Shape
<1>0. \A a \in DOMAIN heap : a <= ptr => a <= ptr'
  BY <1>1, Positions, NotBehind
<1>2. /\ DOMAIN heap \subseteq DOMAIN heap'
      /\ \A i \in DOMAIN heap :
           /\ heap'[i].kind = heap[i].kind /\ heap'[i].host = heap[i].host
           /\ heap'[i].url = heap[i].url /\ heap'[i].precedent = heap[i].precedent
      /\ \A i \in DOMAIN heap' \ DOMAIN heap :
           heap'[i].url = IF heap'[i].kind = "page" THEN w ELSE NoUrl
  BY DEF Grown
<1>3. /\ \A i \in DOMAIN heap' \ DOMAIN heap :
           /\ heap'[i].precedent = p /\ heap'[i].kind # "primary"
           /\ heap'[i].host = w.host
           /\ heap'[i].kind = "robots" => ~RobotsKnown(w.host)
           /\ heap'[i].kind = "page" /\ w.html /\ opt.robots > 0 =>
                \E j \in DOMAIN heap' : j < i /\ RobotsAt(heap', j, w.host)
      /\ \A i, j \in DOMAIN heap' \ DOMAIN heap :
           heap'[i].kind = "robots" /\ heap'[j].kind = "robots" => i = j
  BY DEF NewEntries
<1>4. heap'[1].kind = "primary"
  BY <1>2 DEF RobotsInv
<1>5. \A i \in DOMAIN heap' : heap'[i].kind = "primary" => heap'[i].host = "primary"
  BY <1>2, <1>3 DEF RobotsInv
<1>6. ASSUME NEW i \in Pages'
      PROVE  /\ heap'[i].precedent \in DOMAIN heap
             /\ heap'[i].precedent <= ptr'
             /\ heap'[heap'[i].precedent].kind # "robots"
  <2>1. i \in DOMAIN heap' /\ (i \in DOMAIN heap => i \in Pages)
    BY <1>2 DEF Pages
  <2>2. CASE i \in DOMAIN heap
    <3>1. /\ heap[i].precedent \in DOMAIN heap /\ heap[i].precedent <= ptr
          /\ heap[heap[i].precedent].kind # "robots"
      BY <2>1, <2>2 DEF RobotsInv
    <3>2. heap'[i].precedent = heap[i].precedent
      BY <1>2, <2>2
    <3>3. heap[i].precedent <= ptr'
      BY <1>0, <3>1
    <3> QED
      BY <1>2, <3>1, <3>2, <3>3
  <2>3. CASE i \notin DOMAIN heap
    <3>1. heap'[i].precedent = p /\ heap'[p].kind = heap[p].kind
      BY <1>2, <1>3, <2>1, <2>3
    <3>2. p <= ptr'
      BY <1>0
    <3> QED
      BY <3>1, <3>2
  <2> QED
    BY <2>2, <2>3
<1>7. ASSUME opt.robots = 2, NEW i \in DOMAIN heap', NEW j \in DOMAIN heap',
             NEW host \in Hosts, RobotsAt(heap', i, host), RobotsAt(heap', j, host)
      PROVE  i = j
  <2>1. \A k \in DOMAIN heap : RobotsAt(heap', k, host) = RobotsAt(heap, k, host)
    BY <1>2 DEF RobotsAt
  <2>2. \A k \in DOMAIN heap, l \in DOMAIN heap' \ DOMAIN heap :
          ~(RobotsAt(heap', k, host) /\ RobotsAt(heap', l, host))
    BY <1>3, <2>1 DEF RobotsAt, RobotsKnown
  <2>3. CASE i \in DOMAIN heap /\ j \in DOMAIN heap
    BY <1>7, <2>1, <2>3 DEF RobotsInv
  <2>4. CASE i \notin DOMAIN heap /\ j \notin DOMAIN heap
    BY <1>3, <1>7, <2>4 DEF RobotsAt
  <2> QED
    BY <1>7, <2>2, <2>3, <2>4
<1>8. ASSUME opt.robots = 2, NEW i \in Pages', heap'[i].url.html
      PROVE  \E j \in DOMAIN heap' : j < i /\ RobotsAt(heap', j, heap'[i].host)
  <2>1. i \in DOMAIN heap' /\ heap'[i].kind = "page"
    BY DEF Pages
  <2>2. CASE i \in DOMAIN heap
    <3>1. i \in Pages /\ heap[i].url.html
      BY <1>2, <1>8, <2>1, <2>2 DEF Pages
    <3>2. PICK j \in DOMAIN heap : j < i /\ RobotsAt(heap, j, heap[i].host)
      BY <1>8, <3>1 DEF RobotsInv
    <3> QED
      BY <1>2, <2>2, <3>2 DEF RobotsAt
  <2>3. CASE i \notin DOMAIN heap
    <3>1. heap'[i].url = w /\ heap'[i].host = w.host
      BY <1>2, <1>3, <2>1, <2>3
    <3> QED
      BY <1>3, <1>8, <2>1, <2>3, <3>1
  <2> QED
    BY <2>2, <2>3
<1>9. ASSUME opt.robots = 2, NEW i \in Pages', Disallowed(heap'[i].url)
      PROVE  LET from == heap'[heap'[i].precedent]
             IN from.host # heap'[i].host \/ ~from.url.html
  <2>1. i \in DOMAIN heap' /\ heap'[i].kind = "page"
    BY DEF Pages
  <2>2. i \in DOMAIN heap
    BY <1>2, <1>9, <2>1
  <2>3. i \in Pages /\ heap[i].precedent \in DOMAIN heap
    BY <1>2, <2>1, <2>2 DEF Pages, RobotsInv
  <2>4. LET from == heap[heap[i].precedent]
        IN from.host # heap[i].host \/ ~from.url.html
    BY <1>2, <1>9, <2>2, <2>3 DEF RobotsInv, RobotsFirst
  <2> QED
    BY <1>2, <2>2, <2>3, <2>4
<1> QED
  BY <1>2, <1>4, <1>5, <1>6, <1>7, <1>8, <1>9 DEF RobotsInv, RobotsFirst, Disallowed

(* Nothing new is put behind a heap of the same length. *)
LEMMA NoNewEntries ==
  ASSUME NEW h, DOMAIN h = DOMAIN heap, NEW u, NEW p
  PROVE  NewEntries(h, u, p)
BY DEF NewEntries

(* What a link of a page leaves of the robots rules. *)
LEMMA RobotsOfLink ==
  ASSUME ScopeInv, RobotsInv, NEW u \in Urls, NEW v \in Urls, NEW reply,
         Link(u, v, reply)
  PROVE  RobotsInv'
<1> DEFINE r == Ask(u, todo[u], filters, wizard, reply)
           s == Ask(v, FALSE, r.filters, r.wizard, reply)
<1>1. /\ Shape /\ wizard \in {1, 2} /\ filters \in Seq(Filter)
      /\ opt' = opt /\ rules' = rules /\ ptr' = ptr /\ ptr \in Nat
  BY DEF ScopeInv, Shape, Link
<1>2. ptr \in DOMAIN heap /\ SameHost(u) \in BOOLEAN /\ (SameHost(u) => Cur.kind = "page")
  BY <1>1 DEF Link, Shape, SameHost, Primary
<1>3. heap[ptr].kind # "robots"
  BY <1>1 DEF Link, Shape, RobotsInv, Cur
<1>4. r.prio \in Int
  BY <1>1, AskType
<1>5. opt.robots = 2 => /\ Disallowed(u) /\ ~Known(u) => r.verdict = "no"
                        /\ Disallowed(v) /\ ~Known(v) => s.verdict = "no"
  BY AskDisallowed
<1> HIDE DEF r, s
<1>6. \A w \in Urls :
        /\ Grown(heap, w) /\ NewEntries(heap, w, ptr)
        /\ Grown(Recorded(w, r.prio, SameHost(u)), w)
        /\ NewEntries(Recorded(w, r.prio, SameHost(u)), w, ptr)
        /\ Known(w) => DOMAIN Recorded(w, r.prio, SameHost(u)) = DOMAIN heap
  <2> SUFFICES ASSUME NEW w \in Urls
               PROVE  /\ Grown(heap, w) /\ NewEntries(heap, w, ptr)
                      /\ Grown(Recorded(w, r.prio, SameHost(u)), w)
                      /\ NewEntries(Recorded(w, r.prio, SameHost(u)), w, ptr)
                      /\ Known(w) => DOMAIN Recorded(w, r.prio, SameHost(u)) = DOMAIN heap
    OBVIOUS
  <2>1. Grown(heap, w) /\ NewEntries(heap, w, ptr)
    BY <1>1, GrownByNothing, NoNewEntries
  <2>2. Grown(Recorded(w, r.prio, SameHost(u)), w)
    BY <1>1, <1>2, <1>4, GrownByRecorded
  <2>3. DOMAIN Raised(w) = DOMAIN heap
    BY DEF Raised
  <2>4. NewEntries(Recorded(w, r.prio, SameHost(u)), w, ptr)
    BY <1>1, <2>3, EntriesOfAppended, NoNewEntries DEF Recorded
  <2> QED
    BY <2>1, <2>2, <2>3, <2>4 DEF Recorded
<1>7. IF u = v
      THEN heap' = IF r.verdict = "no" THEN heap
                   ELSE Recorded(u, r.prio, SameHost(u))
      ELSE heap' = IF s.verdict = "no" THEN heap
                   ELSE Recorded(v, r.prio, SameHost(u))
  BY Zenon DEF Link, r, s
<1>8. PICK w \in Urls : /\ Grown(heap', w) /\ NewEntries(heap', w, ptr)
                        /\ DOMAIN heap' # DOMAIN heap /\ opt.robots = 2 => ~Disallowed(w)
  BY <1>5, <1>6, <1>7
<1>9. ptr' \in Nat /\ ptr <= ptr' /\ ptr <= ptr
  BY <1>1
<1> QED
  BY <1>1, <1>2, <1>3, <1>8, <1>9, RobotsKept

(* What a redirection leaves of the robots rules. *)
LEMMA RobotsOfMoved ==
  ASSUME ScopeInv, RobotsInv, NEW v \in Urls, NEW reply, Moved(v, reply)
  PROVE  RobotsInv'
<1> DEFINE r == Ask(v, FALSE, filters, wizard, reply)
           gone == [heap EXCEPT ![ptr].live = FALSE]
           depth == IF r.prio = 0 THEN Cur.depth ELSE Lower(r.prio - 1, Cur.depth)
           d == IF depth < 0 THEN 0 ELSE depth
           e == Page(v, d, Cur.premier, Cur.precedent)
           more == Append(gone, e)
           p == Cur.precedent
<1>1. /\ Shape /\ wizard \in {1, 2} /\ filters \in Seq(Filter) /\ ptr \in Nat
      /\ opt' = opt /\ rules' = rules
  BY DEF ScopeInv, Shape, Moved
<1>2. ptr \in DOMAIN heap /\ Cur.kind = "page"
  BY <1>1 DEF Moved, Here
<1>3. p \in DOMAIN heap /\ p <= ptr /\ heap[p].kind # "robots"
  BY <1>2 DEF RobotsInv, Pages, Cur
<1>4. r.prio \in Int
  BY <1>1, AskType
<1>5. opt.robots = 2 /\ Disallowed(v) /\ ~Known(v) => r.verdict = "no"
  BY AskDisallowed
<1> HIDE DEF r
<1>6. d \in Int
  BY <1>1, <1>2, <1>4, DepthType DEF Lower
<1> HIDE DEF d
<1>7. /\ Grown(gone, v) /\ DOMAIN gone = DOMAIN heap /\ Grown(more, v)
      /\ Grown(heap, v)
  BY <1>1, <1>2, <1>6, GrownByMoved, GrownByNothing
<1>8. ~v.html => NewEntries(more, v, p)
  <2>1. e.kind = "page" /\ e.host = v.host /\ e.precedent = p
    BY DEF Page
  <2>2. gone \in Seq(Entry) /\ Len(gone) \in Nat /\ DOMAIN gone = 1 .. Len(gone)
    BY <1>7 DEF Grown, WellShaped
  <2> HIDE DEF e, gone
  <2>3. DOMAIN more = 1 .. Len(gone) + 1 /\ more[Len(gone) + 1] = e
    BY <2>2
  <2> HIDE DEF more
  <2>4. DOMAIN more \ DOMAIN heap = {Len(gone) + 1}
    BY <1>7, <2>2, <2>3
  <2> QED
    BY <2>1, <2>3, <2>4 DEF NewEntries
<1> HIDE DEF gone, more, p
<1>9. /\ \/ heap' = heap \/ heap' = gone
         \/ heap' = more /\ r.verdict # "no" /\ ~Known(v) /\ ~v.html
      /\ ptr' = ptr \/ ptr' = ptr + 1
  BY Zenon DEF Moved, r, gone, depth, d, e, more
<1>10. /\ Grown(heap', v) /\ NewEntries(heap', v, p)
       /\ DOMAIN heap' # DOMAIN heap /\ opt.robots = 2 => ~Disallowed(v)
  BY <1>5, <1>7, <1>8, <1>9, NoNewEntries
<1>11. ptr' \in Nat /\ ptr <= ptr'
  BY <1>1, <1>9
<1> QED
  BY <1>1, <1>3, <1>10, <1>11, RobotsKept

(* The pages of a host come behind its robots.txt: when it is read, none   *)
(* of them has given a link yet.                                           *)
LEMMA RobotsOfReading ==
  ASSUME ScopeInv, RobotsInv,
         \/ Advance \/ ParsePage \/ PassLink \/ \E set \in Bans : ReadRobots(set)
         \/ UNCHANGED vars
  PROVE  RobotsInv'
<1>1. Shape /\ ptr \in Nat /\ heap \in Seq(Entry)
  BY DEF ScopeInv, Shape
<1>2. /\ UNCHANGED <<opt, heap>> /\ (ptr' = ptr \/ ptr' = ptr + 1)
      /\ \/ rules' = rules
         \/ /\ ptr \in DOMAIN heap /\ Cur.kind = "robots"
            /\ \E set : rules' = [rules EXCEPT ![Cur.host] = set]
  BY DEF Advance, ParsePage, Read, PassLink, ReadRobots, vars, Here
<1>3. \A i \in Pages : heap[i].precedent <= ptr'
  <2>1. ptr' \in Nat /\ ptr <= ptr'
    BY <1>1, <1>2
  <2> QED
    BY <1>1, <2>1, Positions, NotBehind DEF RobotsInv
<1>4. opt.robots = 2 => RobotsFirst'
  <2> SUFFICES ASSUME opt.robots = 2, NEW i \in Pages, Disallowed(heap[i].url)',
                      LET from == heap[heap[i].precedent]
                      IN from.host = heap[i].host /\ from.url.html
               PROVE  FALSE
    BY <1>2 DEF RobotsFirst, Pages
  <2> DEFINE u == heap[i].url
             p == heap[i].precedent
  <2>1. /\ u \in Urls /\ heap[i].host = u.host /\ u.host \in Hosts
    BY <1>1, ScopeAssumption DEF Shape, PageShape, Pages, Address
  <2>2. ~Disallowed(u)
    BY DEF RobotsInv, RobotsFirst
  <2>3. /\ ptr \in DOMAIN heap /\ Cur.kind = "robots" /\ Cur.host = u.host
    <3>1. rules[u.host] # rules'[u.host]
      BY <1>2, <2>2 DEF Disallowed
    <3>2. rules \in [Hosts -> SUBSET Dirs]
      BY <1>1 DEF Shape
    <3> QED
      BY <1>2, <2>1, <3>1, <3>2
  <2>4. p \in DOMAIN heap /\ p <= ptr /\ heap[p].kind # "robots"
    BY DEF RobotsInv
  <2>5. heap[p].kind = "page"
    <3>1. heap[p] \in Entry
      BY <1>1, <2>4
    <3>2. heap[p].kind # "primary"
      BY <2>1, <2>4, ScopeAssumption DEF RobotsInv
    <3> QED
      BY <2>4, <3>1, <3>2 DEF Entry
  <2>6. PICK j \in DOMAIN heap : j < p /\ RobotsAt(heap, j, u.host)
    BY <2>1, <2>4, <2>5 DEF RobotsInv, Pages
  <2>7. j = ptr
    BY <2>1, <2>3, <2>6 DEF RobotsInv, RobotsAt, Cur
  <2>8. j \in Nat /\ p \in Nat
    BY <1>1, <2>4, <2>6, Positions
  <2> HIDE DEF p
  <2> QED
    BY <1>1, <2>4, <2>6, <2>7, <2>8
<1> QED
  BY <1>2, <1>3, <1>4 DEF RobotsInv, Pages

(* With robots rules always followed, no page gives a forbidden link of    *)
(* its own host.                                                           *)
THEOREM RobotsHeeded == Spec => []RobotsFirst
<1>1. Init => ScopeInv /\ RobotsInv
  <2> SUFFICES ASSUME Init PROVE RobotsInv
    BY ScopeAtStart
  <2>1. DOMAIN heap = {1} /\ heap[1].kind = "primary" /\ heap[1].host = "primary"
    BY DEF Init
  <2> QED
    BY <2>1 DEF RobotsInv, RobotsFirst, Pages, RobotsAt
<1>2. ScopeInv /\ RobotsInv /\ [Next]_vars => ScopeInv' /\ RobotsInv'
  BY ScopeOfLink, ScopeOfMoved, ScopeOfReading,
     RobotsOfLink, RobotsOfMoved, RobotsOfReading DEF Next
<1>3. RobotsInv => RobotsFirst
  BY DEF RobotsInv, RobotsFirst
<1> QED
  BY <1>1, <1>2, <1>3, PTL DEF Spec

-----------------------------------------------------------------------------
(* The links are handled level by level.                                   *)
Ranked == {i \in DOMAIN heap : heap[i].kind # "robots"}

(* Depths only fall along the heap, and what is still to be handled is not *)
(* two levels above anything: below the link at ptr there is one level.    *)
Levels ==
  /\ \A i, j \in Ranked : i < j => heap[j].depth <= heap[i].depth
  /\ \A i, j \in Ranked : ptr <= i => heap[i].depth - 1 <= heap[j].depth

LevelInv ==
  /\ ScopeInv
  /\ RobotsInv
  /\ Straight => wizard = 2 /\ (AllLive => Levels)

(* Without a depth for other sites, what lies near or an answer, the wizard*)
(* sets none.                                                              *)
LEMMA AskStraight ==
  ASSUME Straight, NEW u, NEW embedded, NEW fs, NEW reply
  PROVE  /\ Ask(u, embedded, fs, 2, reply).prio = 0
         /\ Ask(u, embedded, fs, 2, reply).wizard = 2
<1>1. opt.ext = 0 /\ ~opt.near
  BY DEF Straight
<1>2. ~Beside(u, embedded)
  BY <1>1 DEF Beside
<1> QED
  BY <1>1, <1>2 DEF Ask, Refusing

(* A link that is met again keeps its depth. *)
LEMMA RaisedStraight ==
  ASSUME Shape, Levels, ptr \in Ranked, NEW u, NEW i \in Ranked
  PROVE  Raised(u)[i] = heap[i]
<1>1. heap \in Seq(Entry) /\ i \in DOMAIN heap /\ ptr \in DOMAIN heap /\ ptr \in Nat
  BY DEF Shape, Ranked
<1>2. heap[i].depth \in Int /\ heap[ptr].depth \in Int
  <2>1. heap[i] \in Entry /\ heap[ptr] \in Entry
    BY <1>1
  <2> QED
    BY <2>1 DEF Entry
<1>3. heap[ptr].depth - 1 <= heap[i].depth
  BY <1>1 DEF Levels
<1>4. ~(heap[i].depth < Cur.depth - 1)
  BY <1>2, <1>3 DEF Cur
<1> QED
  BY <1>1, <1>4 DEF Raised

(* What a step may do to the depths: the links that were there keep theirs,*)
(* and a new one is a level below the link at ptr.                         *)
DepthsKept(h) ==
  /\ DOMAIN heap \subseteq DOMAIN h
  /\ \A i \in DOMAIN heap : h[i].kind = heap[i].kind
  /\ \A i \in Ranked : h[i].depth = heap[i].depth
  /\ \A i \in DOMAIN h \ DOMAIN heap :
       /\ i > Len(heap)
       /\ h[i].kind = "robots" \/ (ptr \in Ranked /\ h[i].depth = Cur.depth - 1)

(* A link that is recorded is a level below the page. *)
LEMMA RecordedStraight ==
  ASSUME Shape, Levels, ptr \in Ranked, NEW u \in Urls, NEW same \in BOOLEAN
  PROVE  DepthsKept(Recorded(u, 0, same))
<1> DEFINE n == Len(heap)
           robot == Robots(u.host, n + 1)
           page(k) == NewPage(u, 0, same, k)
           h == Recorded(u, 0, same)
<1>1. heap \in Seq(Entry) /\ n \in Nat /\ DOMAIN heap = 1 .. n
  BY DEF Shape
<1>2. robot.kind = "robots"
  BY DEF Robots
<1>3. \A k : page(k).depth = Cur.depth - 1
  BY DEF NewPage, Page, DepthOf
<1> HIDE DEF robot, page
<1>4. CASE Known(u)
  <2>1. h = Raised(u)
    BY <1>4 DEF Recorded
  <2>2. DOMAIN h = DOMAIN heap /\ \A i \in DOMAIN heap : h[i].kind = heap[i].kind
    <3>1. \A i \in DOMAIN heap : \/ h[i] = heap[i]
                                 \/ h[i] = [heap[i] EXCEPT !.depth = Cur.depth - 1]
      BY <2>1 DEF Raised
    <3>2. DOMAIN h = DOMAIN heap
      BY <2>1 DEF Raised
    <3>3. \A i \in DOMAIN heap : heap[i] \in Entry
      BY <1>1
    <3> HIDE DEF h
    <3> QED
      BY <3>1, <3>2, <3>3 DEF Entry
  <2>3. \A i \in Ranked : h[i] = heap[i]
    BY <2>1, RaisedStraight
  <2> HIDE DEF h
  <2> QED
    BY <2>2, <2>3 DEF DepthsKept, h
<1>5. CASE ~Known(u) /\ ~NeedsRobots(u)
  <2>1. h = heap \o <<page(n + 1)>>
    BY <1>5 DEF Recorded, Appended, page
  <2> HIDE DEF h
  <2>2. /\ DOMAIN h = 1 .. n + 1 /\ h[n + 1] = page(n + 1)
        /\ \A i \in DOMAIN heap : h[i] = heap[i]
    BY <1>1, <2>1
  <2>3. DOMAIN h \ DOMAIN heap = {n + 1}
    BY <1>1, <2>2
  <2> QED
    BY <1>1, <1>3, <2>2, <2>3 DEF DepthsKept, Ranked, h
<1>6. CASE ~Known(u) /\ NeedsRobots(u)
  <2>1. h = heap \o <<robot, page(n + 2)>>
    BY <1>6 DEF Recorded, Appended, page, robot
  <2> HIDE DEF h
  <2>2. /\ DOMAIN h = 1 .. n + 2 /\ h[n + 1] = robot /\ h[n + 2] = page(n + 2)
        /\ \A i \in DOMAIN heap : h[i] = heap[i]
    BY <1>1, <2>1
  <2>3. DOMAIN h \ DOMAIN heap = {n + 1, n + 2}
    BY <1>1, <2>2
  <2> QED
    BY <1>1, <1>2, <1>3, <2>2, <2>3 DEF DepthsKept, Ranked, h
<1> QED
  BY <1>4, <1>5, <1>6

(* Such a step keeps the levels. *)
LEMMA LevelsKept ==
  ASSUME Shape, Shape', Levels, DepthsKept(heap'), ptr' \in Nat, ptr <= ptr'
  PROVE  Levels'
<1>1. /\ heap \in Seq(Entry) /\ ptr \in Nat /\ DOMAIN heap = 1 .. Len(heap)
      /\ heap' \in Seq(Entry) /\ DOMAIN heap' = 1 .. Len(heap')
      /\ Len(heap) \in Nat /\ Len(heap') \in Nat
  <2>1. heap \in Seq(Entry) /\ heap' \in Seq(Entry) /\ ptr \in Nat
    BY DEF Shape
  <2> QED
    BY <2>1
<1>2. /\ \A i \in DOMAIN heap : heap[i].depth \in Int
      /\ \A i \in DOMAIN heap' : heap'[i].depth \in Int
  <2>1. /\ \A i \in DOMAIN heap : heap[i] \in Entry
        /\ \A i \in DOMAIN heap' : heap'[i] \in Entry
    BY <1>1
  <2> QED
    BY <2>1 DEF Entry
<1>3. /\ Ranked \subseteq DOMAIN heap /\ Ranked' \subseteq DOMAIN heap'
      /\ \A i \in Ranked' : \/ /\ i \in Ranked /\ i <= Len(heap)
                               /\ heap'[i].depth = heap[i].depth
                            \/ /\ i > Len(heap) /\ ptr \in Ranked
                               /\ heap'[i].depth = heap[ptr].depth - 1
  BY <1>1 DEF DepthsKept, Ranked, Cur
<1>4. ASSUME NEW i \in Ranked', NEW j \in Ranked', i < j
      PROVE  heap'[j].depth <= heap'[i].depth
  <2>1. i \in Nat /\ j \in Nat
    BY <1>1, <1>3
  <2>2. CASE j <= Len(heap)
    <3>1. i \in Ranked /\ j \in Ranked
      BY <1>1, <1>3, <1>4, <2>1, <2>2
    <3> QED
      BY <1>1, <1>3, <1>4, <2>1, <2>2, <3>1 DEF Levels
  <2>3. CASE j > Len(heap)
    <3>1. ptr \in Ranked /\ heap'[j].depth = heap[ptr].depth - 1
      BY <1>1, <1>3, <2>1, <2>3
    <3>2. CASE i > Len(heap)
      <4>1. heap'[i].depth = heap[ptr].depth - 1
        BY <1>1, <1>3, <2>1, <3>2
      <4>2. heap[ptr].depth \in Int
        BY <1>2, <1>3, <3>1
      <4> QED
        BY <3>1, <4>1, <4>2
    <3>3. CASE i <= Len(heap)
      <4>1. i \in Ranked /\ heap'[i].depth = heap[i].depth
        BY <1>1, <1>3, <2>1, <3>3
      <4>2. heap[ptr].depth - 1 <= heap[i].depth
        BY <1>1, <3>1, <4>1 DEF Levels
      <4> QED
        BY <3>1, <4>1, <4>2
    <3> QED
      BY <1>1, <2>1, <3>2, <3>3
  <2> QED
    BY <1>1, <2>1, <2>2, <2>3
<1>5. ASSUME NEW i \in Ranked', NEW j \in Ranked', ptr' <= i
      PROVE  heap'[i].depth - 1 <= heap'[j].depth
  <2>1. i \in Nat /\ j \in Nat
    BY <1>1, <1>3
  <2>2. ptr <= i
    BY <1>1, <1>5, <2>1
  <2>3. PICK k \in Ranked : ptr <= k /\ heap'[i].depth <= heap[k].depth
    <3>1. CASE i <= Len(heap)
      BY <1>1, <1>2, <1>3, <2>1, <2>2, <3>1
    <3>2. CASE i > Len(heap)
      <4>1. ptr \in Ranked /\ heap'[i].depth = heap[ptr].depth - 1
        BY <1>1, <1>3, <2>1, <3>2
      <4>2. heap[ptr].depth \in Int
        BY <1>2, <1>3, <4>1
      <4> QED
        BY <1>1, <4>1, <4>2
    <3> QED
      BY <1>1, <2>1, <3>1, <3>2
  <2>4. heap[k].depth \in Int /\ heap'[i].depth \in Int /\ heap'[j].depth \in Int
    BY <1>2, <1>3
  <2>5. CASE j <= Len(heap)
    <3>1. j \in Ranked /\ heap'[j].depth = heap[j].depth
      BY <1>1, <1>3, <2>1, <2>5
    <3>2. heap[k].depth - 1 <= heap[j].depth
      BY <2>3, <3>1 DEF Levels
    <3> QED
      BY <2>3, <2>4, <3>1, <3>2
  <2>6. CASE j > Len(heap)
    <3>1. ptr \in Ranked /\ heap'[j].depth = heap[ptr].depth - 1
      BY <1>1, <1>3, <2>1, <2>6
    <3>2. k \in Nat /\ heap[ptr].depth \in Int
      BY <1>1, <1>2, <1>3, <3>1
    <3>3. heap[k].depth <= heap[ptr].depth
      BY <1>1, <1>2, <1>3, <2>3, <3>1, <3>2 DEF Levels
    <3> QED
      BY <2>3, <2>4, <3>1, <3>2, <3>3
  <2> QED
    BY <1>1, <2>1, <2>5, <2>6
<1> QED
  BY <1>4, <1>5 DEF Levels

(* A link of a page that is recorded, or refused. *)
LEMMA LevelsOfLink ==
  ASSUME LevelInv, Straight, NEW u \in Urls, NEW v \in Urls, NEW reply,
         Link(u, v, reply)
  PROVE  /\ wizard' = 2 /\ (AllLive' => AllLive)
         /\ Levels => DepthsKept(heap')
<1> DEFINE r == Ask(u, todo[u], filters, wizard, reply)
           s == Ask(v, FALSE, r.filters, r.wizard, reply)
<1>1. /\ Shape /\ wizard = 2
  BY DEF LevelInv, ScopeInv
<1>2. r.prio = 0 /\ r.wizard = 2
  BY <1>1, AskStraight
<1>3. s.wizard = 2
  <2> HIDE DEF r
  <2> QED
    BY <1>2, AskStraight
<1>4. ptr \in Ranked
  <2>1. reading /\ ptr \in DOMAIN heap
    BY <1>1 DEF Link, Shape
  <2> QED
    BY <1>1, <2>1 DEF Shape, LevelInv, RobotsInv, Ranked, Cur
<1>5. [s EXCEPT !.refused = @ \cup r.refused].wizard = s.wizard
  <2> HIDE DEF r
  <2> QED
    BY AskRecord
<1> HIDE DEF r, s
<1>6. /\ wizard' \in {r.wizard, s.wizard}
      /\ \/ heap' = heap
         \/ \E w \in {u, v} : heap' = Recorded(w, r.prio, SameHost(u))
  BY <1>5, ZenonT(30) DEF Link, Learn, r, s
<1>7. SameHost(u) \in BOOLEAN
  BY DEF SameHost, Primary
<1>8. SameHost(u) => Cur.kind = "page"
  BY <1>1 DEF SameHost, Primary, Link, Shape
<1>9. ASSUME Levels PROVE DepthsKept(heap')
  <2>1. DepthsKept(heap)
    BY <1>1 DEF DepthsKept
  <2> QED
    BY <1>1, <1>2, <1>4, <1>6, <1>7, <1>9, <2>1, RecordedStraight
<1>10. AllLive' => AllLive
  <2>1. PICK w \in Urls : Grown(heap', w)
    <3>1. \A w \in Urls : Grown(heap, w) /\ Grown(Recorded(w, 0, SameHost(u)), w)
      BY <1>1, <1>4, <1>7, <1>8, GrownByNothing, GrownByRecorded DEF Ranked
    <3> QED
      BY <1>2, <1>6, <3>1
  <2> QED
    BY <2>1 DEF Grown, AllLive, Pages
<1> QED
  BY <1>2, <1>3, <1>6, <1>9, <1>10

(* A redirection: a file that is replaced ends the levels. *)
LEMMA LevelsOfMoved ==
  ASSUME LevelInv, Straight, NEW v \in Urls, NEW reply, Moved(v, reply)
  PROVE  /\ wizard' = 2
         /\ \A i \in Pages : heap'[i].depth = heap[i].depth
         /\ heap' = heap \/ ~AllLive'
<1> DEFINE r == Ask(v, FALSE, filters, wizard, reply)
           gone == [heap EXCEPT ![ptr].live = FALSE]
<1>1. /\ Shape /\ wizard = 2 /\ heap \in Seq(Entry)
  BY DEF LevelInv, ScopeInv, Shape
<1>2. r.wizard = 2
  BY <1>1, AskStraight
<1>3. ptr \in DOMAIN heap /\ Cur.kind = "page"
  BY DEF Moved, Here
<1>4. /\ gone \in Seq(Entry) /\ DOMAIN gone = DOMAIN heap
      /\ \A i \in DOMAIN heap : gone[i].depth = heap[i].depth
      /\ gone[ptr].kind = "page" /\ ~gone[ptr].live
  <2>1. /\ DOMAIN gone = DOMAIN heap
        /\ \A i \in DOMAIN heap :
             gone[i] = IF i = ptr THEN [heap[i] EXCEPT !.live = FALSE] ELSE heap[i]
    OBVIOUS
  <2>2. \A i \in DOMAIN heap : heap[i] \in Entry
    BY <1>1
  <2>3. gone \in Seq(Entry)
    <3>1. 0 \in Int
      OBVIOUS
    <3>2. Grown(gone, v)
      BY <1>1, <1>3, <3>1, GrownByMoved
    <3> QED
      BY <3>2 DEF Grown, WellShaped
  <2> HIDE DEF gone
  <2> QED
    BY <1>3, <2>1, <2>2, <2>3 DEF Entry, Cur
<1> HIDE DEF r, gone
<1>5. /\ wizard' = r.wizard \/ wizard' = wizard
      /\ heap' = heap \/ heap' = gone \/ \E e : heap' = Append(gone, e)
  BY Zenon DEF Moved, Learn, r, gone
<1>6. CASE heap' = heap
  BY <1>1, <1>2, <1>5, <1>6
<1>7. CASE heap' # heap
  <2>1. /\ ptr \in DOMAIN heap' /\ heap'[ptr] = gone[ptr]
        /\ \A i \in DOMAIN heap : heap'[i] = gone[i]
    <3>1. \A e : /\ ptr \in DOMAIN Append(gone, e)
                 /\ \A i \in DOMAIN heap : Append(gone, e)[i] = gone[i]
      <4>1. Len(gone) \in Nat /\ DOMAIN gone = 1 .. Len(gone)
        BY <1>4
      <4> QED
        BY <1>3, <1>4, <4>1 DEF Append
    <3> QED
      BY <1>3, <1>4, <1>5, <1>7, <3>1
  <2>2. ~AllLive'
    BY <1>4, <2>1 DEF AllLive, Pages
  <2>3. \A i \in Pages : heap'[i].depth = heap[i].depth
    BY <1>4, <2>1 DEF Pages
  <2> QED
    BY <1>1, <1>2, <1>5, <2>2, <2>3
<1> QED
  BY <1>6, <1>7

(* Every step keeps the levels, and the depths while they hold. *)
LEMMA LevelStep ==
  ASSUME LevelInv, [Next]_vars
  PROVE  /\ LevelInv'
         /\ Straight /\ AllLive => \A i \in Pages : heap'[i].depth = heap[i].depth
<1>1. ScopeInv' /\ RobotsInv'
  BY ScopeOfLink, ScopeOfMoved, ScopeOfReading,
     RobotsOfLink, RobotsOfMoved, RobotsOfReading DEF LevelInv, Next
<1>2. Shape /\ Shape' /\ ptr \in Nat /\ ptr' \in Nat /\ heap \in Seq(Entry)
  BY <1>1 DEF LevelInv, ScopeInv, Shape
<1>3. opt' = opt
  BY DEF Next, vars, Link, Advance, ParsePage, Read, PassLink, Moved, ReadRobots
<1>4. ptr <= ptr'
  <2>1. ptr' = ptr \/ ptr' = ptr + 1
    BY DEF Next, vars, Link, Advance, ParsePage, Read, PassLink, Moved, ReadRobots
  <2> QED
    BY <1>2, <2>1
<1>5. SUFFICES ASSUME Straight
               PROVE  /\ wizard' = 2
                      /\ AllLive' => Levels'
                      /\ AllLive => \A i \in Pages : heap'[i].depth = heap[i].depth
  BY <1>1, <1>3 DEF LevelInv, Straight
<1>6. wizard = 2 /\ (AllLive => Levels)
  BY <1>5 DEF LevelInv
<1>7. DepthsKept(heap)
  BY <1>2 DEF DepthsKept
<1>8. CASE \E u, v \in Urls, reply \in Answers : Link(u, v, reply)
  <2>1. PICK u \in Urls, v \in Urls, reply \in Answers : Link(u, v, reply)
    BY <1>8
  <2>2. /\ wizard' = 2 /\ (AllLive' => AllLive)
        /\ Levels => DepthsKept(heap')
    BY <1>5, <2>1, LevelsOfLink
  <2> QED
    BY <1>2, <1>4, <1>6, <2>2, LevelsKept DEF DepthsKept, Ranked, Pages
<1>9. CASE \E v \in Urls, reply \in Answers : Moved(v, reply)
  <2>1. PICK v \in Urls, reply \in Answers : Moved(v, reply)
    BY <1>9
  <2>2. /\ wizard' = 2 /\ \A i \in Pages : heap'[i].depth = heap[i].depth
        /\ heap' = heap \/ ~AllLive'
    BY <1>5, <2>1, LevelsOfMoved
  <2>3. AllLive' => Levels'
    BY <1>2, <1>4, <1>6, <1>7, <2>2, LevelsKept DEF AllLive, Pages
  <2> QED
    BY <2>2, <2>3
<1>10. CASE \/ Advance \/ ParsePage \/ PassLink \/ \E set \in Bans : ReadRobots(set)
            \/ UNCHANGED vars
  <2>1. heap' = heap /\ wizard' = wizard
    BY <1>10 DEF vars, Advance, ParsePage, Read, PassLink, ReadRobots
  <2>2. AllLive' => Levels'
    BY <1>2, <1>4, <1>6, <1>7, <2>1, LevelsKept DEF AllLive, Pages
  <2> QED
    BY <1>6, <2>1, <2>2
<1> QED
  BY <1>8, <1>9, <1>10 DEF Next

(* The first way that is found to a page is a shortest one, as long as no  *)
(* file was replaced by what a redirection led to (htsparse.c:3086).       *)
THEOREM LevelByLevel == Spec => FoundAtFullDepth
<1>1. Init => LevelInv
  <2> SUFFICES ASSUME Init PROVE LevelInv
    OBVIOUS
  <2>1. ScopeInv
    BY ScopeAtStart
  <2>2. DOMAIN heap = {1} /\ heap[1].kind = "primary" /\ heap[1].host = "primary"
    BY DEF Init
  <2>3. RobotsInv
    BY <2>2 DEF RobotsInv, RobotsFirst, Pages, RobotsAt
  <2>4. Levels
    <3>1. heap[1] \in Entry
      <4>1. heap \in Seq(Entry)
        BY <2>1 DEF ScopeInv, Shape
      <4>2. 1 \in DOMAIN heap
        BY <2>2
      <4> HIDE DEF Entry
      <4> QED
        BY <4>1, <4>2
    <3>2. heap[1].depth \in Int
      BY <3>1 DEF Entry
    <3> QED
      BY <2>2, <3>2 DEF Levels, Ranked
  <2>5. Straight => wizard = 2
    BY DEF Init, Straight
  <2> QED
    BY <2>1, <2>3, <2>4, <2>5 DEF LevelInv
<1>2. LevelInv /\ [Next]_vars => LevelInv'
  BY LevelStep
<1>3. LevelInv /\ [Next]_vars
      => [Straight /\ AllLive =>
            \A i \in Pages : heap'[i].depth = heap[i].depth]_vars
  BY LevelStep
<1> QED
  BY <1>1, <1>2, <1>3, PTL DEF Spec, FoundAtFullDepth

=============================================================================
