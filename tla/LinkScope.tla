----------------------------- MODULE LinkScope ------------------------------
(***************************************************************************)
(* What a mirror takes: the links of a page, each accepted or refused by   *)
(* the wizard (hts_acceptlink), recorded with its depth and the link it    *)
(* started from ("premier"), with the robots.txt of its host before it.    *)
(*                                                                         *)
(* An address is a record: its host, its directory, whether its name is    *)
(* that of a page (ishtml() # 0) and whether the name has two letters at   *)
(* least.  Directories are only compared: Within has the pairs <<d, e>>    *)
(* where d is e or below it, which is what the "../" of lienrelatif()      *)
(* (htstools.c:289) tells.  A filter is its sign and the addresses that    *)
(* its pattern matches, with or without "http://" before them.             *)
(***************************************************************************)
EXTENDS Integers, Sequences, FiniteSets

CONSTANTS
  Urls,         \* the addresses, records of Address
  Hosts, Dirs,
  Within,       \* directories and the ones above them
  AreaOf,       \* AreaOf[t][h]: the domain (t) of the host h, or NoArea
  NoArea,
  Primaries,    \* the addresses given by the user
  Moves,        \* Moves[u]: where the server may redirect u
  Links,        \* Links[u]: what the page u may have links to
  MaxLinks,     \* bound: links of one page
  MaxHeap,      \* bound: length of the heap
  Options,      \* the settings to choose from
  Bans,         \* what a robots.txt may forbid, sets of directories
  Answers,      \* what the user may answer to a question
  NoUrl

Address == [host : Hosts, dir : Dirs, html : BOOLEAN, named : BOOLEAN]

Filter == [allow : BOOLEAN, covers : SUBSET Urls]

Settings ==
  [depth : Nat, up : BOOLEAN, down : BOOLEAN, near : BOOLEAN, ext : Nat,
   travel : {"address", "domain", "location", "everywhere"},
   robots : 0 .. 2, files : BOOLEAN, first : BOOLEAN, wizard : {1, 2},
   filters : Seq(Filter)]

ASSUME ScopeAssumption ==
  /\ Urls \subseteq Address
  /\ Within \subseteq Dirs \X Dirs
  /\ \A d \in Dirs : <<d, d>> \in Within
  /\ \A d, e, f \in Dirs :
       <<d, e>> \in Within /\ <<e, f>> \in Within => <<d, f>> \in Within
  /\ Primaries \subseteq Urls
  /\ Moves \in [Urls -> SUBSET Urls]
  /\ Links \in [Urls -> SUBSET Urls]
  /\ Bans \subseteq SUBSET Dirs
  /\ Options \subseteq Settings
  /\ NoUrl \notin Urls
  /\ "primary" \notin Hosts

VARIABLES
  opt,        \* the settings of the mirror
  heap, ptr,  \* the links and the one that is handled, primary is heap[1]
  todo,       \* links of the page that are still to be read
  reading,    \* the page at ptr is being parsed
  filters,    \* (*opt->filters.filters)
  wizard,     \* opt->wizard, which an answer may change
  rules,      \* what the robots.txt of a host forbids
  refusals    \* history: the addresses that the user refused

vars == <<opt, heap, ptr, todo, reading, filters, wizard, rules, refusals>>

Cur == heap[ptr]
Primary == ptr = 1
First == heap[Cur.premier].url

Known(u) == \E i \in DOMAIN heap : heap[i].live /\ heap[i].url = u

Disallowed(u) == \E d \in rules[u.host] : <<u.dir, d>> \in Within

-----------------------------------------------------------------------------
(* hts_acceptlink_: phase 1, what is never taken.                          *)
Unwanted(u, embedded) ==
  \/ ~opt.files /\ ~u.html
  \/ /\ ~Primary
     /\ \/ Cur.depth <= 0
        \/ Cur.depth <= 1 /\ ~(opt.near /\ embedded)

(* Phase 2, on the host of the page: the way from the page and the way     *)
(* from the link it started from are compared.                             *)
Above(u, from) == <<u.dir, from.dir>> \notin Within
Deeper(u, from) == ~Above(u, from) /\ u.dir # from.dir
SameLevel(u, from) == u.dir = from.dir /\ u.named

(* Mutant: the limit for going up is not looked at.                        *)
UphillAlways == "yes"

Uphill == IF opt.up THEN "yes" ELSE "no"

Downhill == IF opt.down THEN "yes" ELSE "no"

Inside(u) ==
  LET from == {First, Cur.url}
  IN IF \A f \in from : Above(u, f) THEN Uphill
     ELSE IF \A f \in from : Deeper(u, f) THEN Downhill
     ELSE IF \E f \in from : \/ Above(u, f) /\ opt.up
                             \/ Deeper(u, f) /\ opt.down
                             \/ SameLevel(u, f)
     THEN "yes" ELSE "open"

(* Phase 2, on another host.                                               *)
Outside(u) ==
  IF opt.travel = "everywhere" THEN "yes"
  ELSE IF opt.travel = "address" THEN "open"
  ELSE LET here  == IF Primary THEN NoArea ELSE AreaOf[opt.travel][Cur.host]
           there == AreaOf[opt.travel][u.host]
       IN IF NoArea \in {here, there} THEN "no"
          ELSE IF here = there THEN "yes" ELSE "open"

SameHost(u) == ~Primary /\ u.host = Cur.url.host

Position(u) == IF SameHost(u) THEN Inside(u) ELSE Outside(u)

(* Phase 3: files beside the pages, and what a page embeds.                *)
Beside(u, embedded) ==
  Position(u) # "yes" /\ opt.near /\ (~u.html \/ embedded)

(* Phase 4: the last filter that matches decides.                          *)
Ruling(u, fs) ==
  LET matching == {i \in DOMAIN fs : u \in fs[i].covers}
      last     == CHOOSE i \in matching : \A j \in matching : j <= i
  IN IF matching = {} THEN "none"
     ELSE IF fs[last].allow THEN "allow" ELSE "forbid"

Tree(u) ==
  {v \in Urls : v.host = u.host /\ <<v.dir, u.dir>> \in Within}
Level(u) == {v \in Urls : v.host = u.host /\ v.dir = u.dir}
Site(u) == {v \in Urls : v.host = u.host}

(* The filter an answer puts before the others. *)
Taking == {"tree", "site", "level"}
Filing == Taking \cup {"not this", "not tree", "not site"}

Reach(answer, u) ==
  CASE answer = "not this" -> {u}
    [] answer = "not tree" -> Tree(u)
    [] answer = "tree" -> IF opt.up THEN Site(u) ELSE Tree(u)
    [] answer = "level" -> Level(u)
    [] answer \in {"site", "not site"} -> Site(u)

Inserted(answer, u) ==
  IF answer \in Filing
  THEN <<[allow |-> answer \in Taking, covers |-> Reach(answer, u)]>>
  ELSE <<>>

Refusing == {"skip", "not this", "not tree", "not site", "not now"}
Lasting == {"not this", "not tree", "not site"}

(* Mutant: the filter of an answer is put behind the others.               *)
WithFilterLast(fs, answer, u) == fs \o Inserted(answer, u)

WithFilter(fs, answer, u) == Inserted(answer, u) \o fs

(* The whole of hts_acceptlink_ for an address, with the filters and the   *)
(* wizard it is given, and the answer of the user if he is asked.          *)
Ask(u, embedded, fs, w, reply) ==
  LET position == IF Beside(u, embedded) THEN "yes" ELSE Position(u)
      ruling   == IF Primary THEN "none" ELSE Ruling(u, fs)
      far      == ~Primary /\ opt.ext > 0 /\ Cur.depth > opt.ext
      open     == Primary \/ (position = "open" /\ ruling = "none" /\ ~far)
      forced   == open /\ opt.first /\ Cur.precedent = 1
      settled  == IF \/ Primary \/ forced \/ ruling = "allow"
                     \/ ruling = "none" /\ far THEN "yes"
                  ELSE IF ruling = "forbid" \/ (open /\ w = 2) THEN "no"
                  ELSE position
      question == open /\ (Primary \/ forced \/ w # 2)
      banned   == /\ opt.robots > 0 /\ Disallowed(u)
                  /\ ~(/\ opt.robots = 1 /\ ruling # "none" /\ settled # "no")
      answer   == IF ~question \/ (banned /\ ~Primary) THEN "nothing"
                  ELSE IF forced \/ (Primary /\ opt.down) THEN "tree"
                  ELSE IF Primary THEN "level" ELSE reply
      verdict  == IF banned \/ answer \in Refusing THEN "no" ELSE settled
  IN IF Known(u)
     THEN [verdict |-> "yes", prio |-> 0, filters |-> fs, wizard |-> w,
           refused |-> {}]
     ELSE IF Unwanted(u, embedded)
     THEN [verdict |-> "no", prio |-> 0, filters |-> fs, wizard |-> w,
           refused |-> {}]
     ELSE [verdict |-> verdict,
           prio    |-> IF answer = "single" THEN 1
                       ELSE IF far THEN 1 + opt.ext
                       ELSE IF /\ Beside(u, embedded) /\ ~Primary
                               /\ ruling # "allow" /\ verdict = "yes"
                       THEN 2 ELSE 0,
           filters |-> WithFilter(fs, answer, u),
           wizard  |-> IF answer = "skip" THEN 2 ELSE w,
           refused |-> IF answer \in Lasting THEN {u} ELSE {}]

-----------------------------------------------------------------------------
(* The heap of links.                                                      *)
Page(u, depth, premier, precedent) ==
  [kind |-> "page", host |-> u.host, url |-> u, depth |-> depth,
   premier |-> premier, precedent |-> precedent, live |-> TRUE]

Robots(h, index) ==
  [kind |-> "robots", host |-> h, url |-> NoUrl, depth |-> 0,
   premier |-> index, precedent |-> ptr, live |-> TRUE]

RobotsKnown(h) ==
  \E i \in DOMAIN heap : heap[i].kind = "robots" /\ heap[i].host = h

NeedsRobots(u) == opt.robots > 0 /\ u.html /\ ~RobotsKnown(u.host)

Lower(a, b) == IF a < b THEN a ELSE b

(* One less than the page, or what the wizard has set.                     *)
DepthOf(prio) ==
  IF prio = 0 THEN Cur.depth - 1
  ELSE LET d == Lower(Cur.depth - 1, prio - 1) IN IF d < 0 THEN 0 ELSE d

(* The new link at the given place; on the host of the page it starts from *)
(* where the page does.                                                    *)
NewPage(u, prio, same, index) ==
  Page(u, DepthOf(prio), IF same THEN Cur.premier ELSE index, ptr)

(* Mutant: the robots.txt of a host is recorded behind its first page.     *)
AppendedRobotsLast(u, prio, same) ==
  LET n == Len(heap)
  IN heap \o IF NeedsRobots(u)
             THEN <<NewPage(u, prio, same, n + 1), Robots(u.host, n + 2)>>
             ELSE <<NewPage(u, prio, same, n + 1)>>

Appended(u, prio, same) ==
  LET n == Len(heap)
  IN heap \o IF NeedsRobots(u)
             THEN <<Robots(u.host, n + 1), NewPage(u, prio, same, n + 2)>>
             ELSE <<NewPage(u, prio, same, n + 1)>>

(* Mutant: a known link gets the depth of the page itself.                 *)
RaisedToPage(u) ==
  [i \in DOMAIN heap |->
     IF heap[i].live /\ heap[i].url = u /\ heap[i].depth < Cur.depth
     THEN [heap[i] EXCEPT !.depth = Cur.depth] ELSE heap[i]]

(* A known link gets the greater depth.                                    *)
Raised(u) ==
  [i \in DOMAIN heap |->
     IF heap[i].live /\ heap[i].url = u /\ heap[i].depth < Cur.depth - 1
     THEN [heap[i] EXCEPT !.depth = Cur.depth - 1] ELSE heap[i]]

Recorded(u, prio, same) ==
  IF Known(u) THEN Raised(u) ELSE Appended(u, prio, same)

-----------------------------------------------------------------------------
Init ==
  /\ opt \in Options
  /\ heap = <<[kind |-> "primary", host |-> "primary", url |-> NoUrl,
               depth |-> opt.depth + 1, premier |-> 1, precedent |-> 1,
               live |-> TRUE]>>
  /\ ptr = 1
  /\ todo = [u \in Primaries |-> FALSE]
  /\ reading = TRUE
  /\ filters = opt.filters
  /\ wizard = opt.wizard
  /\ rules = [h \in Hosts |-> {}]
  /\ refusals = {}

Here(kind) == ptr \in DOMAIN heap /\ ~reading /\ Cur.kind = kind

(* What the wizard leaves behind. *)
Learn(r) ==
  /\ filters' = r.filters
  /\ wizard' = r.wizard
  /\ refusals' = refusals \cup r.refused

Room == Len(heap) + 2 <= MaxHeap

(* A link of the page at ptr: it is refused, or its type is waited for and *)
(* it is recorded, or the server redirects it and the wizard is asked again*)
(* for the new address.  Whether it is on the host of the page is not      *)
(* looked at again.                                                        *)
Link(u, v, reply) ==
  /\ reading /\ u \in DOMAIN todo /\ Room
  /\ LET r == Ask(u, todo[u], filters, wizard, reply)
         s == Ask(v, FALSE, r.filters, r.wizard, reply)
     IN IF u = v
        THEN /\ Learn(r)
             /\ heap' = IF r.verdict = "no" THEN heap
                        ELSE Recorded(u, r.prio, SameHost(u))
        ELSE /\ v \in Moves[u] /\ ~Known(u) /\ r.verdict = "yes"
             /\ Learn([s EXCEPT !.refused = @ \cup r.refused])
             /\ heap' = IF s.verdict = "no" THEN heap
                        ELSE Recorded(v, r.prio, SameHost(u))
  /\ todo' = [w \in DOMAIN todo \ {u} |-> todo[w]]
  /\ UNCHANGED <<opt, ptr, reading, rules>>

(* All links of the page are read: the next link of the heap.              *)
Advance ==
  /\ reading /\ todo = <<>>
  /\ ptr' = ptr + 1
  /\ reading' = FALSE
  /\ UNCHANGED <<opt, heap, todo, filters, wizard, rules, refusals>>

Read(links) ==
  /\ todo' = links
  /\ reading' = TRUE
  /\ UNCHANGED <<opt, heap, ptr, filters, wizard, rules, refusals>>

(* A page has arrived; which of its links are embedded is up to it.        *)
ParsePage ==
  /\ Here("page") /\ Cur.url.html
  /\ \E set \in SUBSET Links[Cur.url] :
       /\ Cardinality(set) <= MaxLinks
       /\ \E links \in [set -> BOOLEAN] :
            /\ opt.near \/ \A u \in set : ~links[u]
            /\ Read(links)

(* A file that is stored, or an answer that failed.                        *)
PassLink ==
  /\ Here("page")
  /\ ptr' = ptr + 1
  /\ UNCHANGED <<opt, heap, todo, reading, filters, wizard, rules, refusals>>

(* A redirection: a file that is accepted takes the place and the depth of *)
(* the link; of anything else a page is made, with one link to it.         *)
Moved(v, reply) ==
  LET r == Ask(v, FALSE, filters, wizard, reply)
  IN /\ Here("page") /\ v \in Moves[Cur.url] /\ v # Cur.url /\ Room
     /\ IF v.html \/ r.verdict = "no"
        THEN /\ todo' = [u \in {v} |-> FALSE]
             /\ reading' = TRUE
             /\ UNCHANGED <<heap, ptr>>
             /\ IF v.html THEN UNCHANGED <<filters, wizard, refusals>>
                ELSE Learn(r)
        ELSE /\ Learn(r)
             /\ LET gone  == [heap EXCEPT ![ptr].live = FALSE]
                    depth == IF r.prio = 0 THEN Cur.depth
                             ELSE Lower(r.prio - 1, Cur.depth)
                IN heap' = IF Known(v) THEN gone
                           ELSE Append(gone, Page(v, IF depth < 0 THEN 0 ELSE depth,
                                                  Cur.premier, Cur.precedent))
             /\ ptr' = ptr + 1
             /\ UNCHANGED <<todo, reading>>
     /\ UNCHANGED <<opt, rules>>

(* robots.txt is read: an empty or too long list of rules forbids nothing. *)
ReadRobots(set) ==
  /\ Here("robots")
  /\ rules' = [rules EXCEPT ![Cur.host] = set]
  /\ ptr' = ptr + 1
  /\ UNCHANGED <<opt, heap, todo, reading, filters, wizard, refusals>>

Next ==
  \/ \E u, v \in Urls, reply \in Answers : Link(u, v, reply)
  \/ Advance
  \/ ParsePage
  \/ PassLink
  \/ \E v \in Urls, reply \in Answers : Moved(v, reply)
  \/ \E set \in Bans : ReadRobots(set)

Spec == Init /\ [][Next]_vars

-----------------------------------------------------------------------------
Pages == {i \in DOMAIN heap : heap[i].kind = "page"}

(* The settings of a plain mirror: down only, on the addresses given, no   *)
(* question and no filter that adds something.                             *)
Plain ==
  /\ ~opt.up /\ opt.travel = "address" /\ ~opt.near /\ opt.ext = 0
  /\ ~opt.first /\ opt.wizard = 2
  /\ \A i \in DOMAIN opt.filters : ~opt.filters[i].allow

(* Where the mirror was started, and where the server led it from there.   *)
Roots == Primaries \cup UNION {Moves[p] : p \in Primaries}

Covered(u) == \E r \in Roots : u \in Tree(r)

(* The link every page started from is on its host.                        *)
OwnPremiers ==
  \A i \in Pages : heap[heap[i].premier].host = heap[i].host

(* A plain mirror never leaves the directories it was started in, however  *)
(* links, redirections and positions relative to two pages combine: "can   *)
(* only go down into subdirs" (htshelp.c:637).  This is lost with the first*)
(* link that a redirection has taken to another host while its type was    *)
(* waited for: it is compared with a directory of the host it came from.   *)
StaysBelow ==
  Plain /\ OwnPremiers => \A i \in Pages : Covered(heap[i].url)

(* With robots rules always followed, no page gives a forbidden link of    *)
(* its own host: the robots.txt of a host is read before its first page is *)
(* parsed.  Links found on other hosts before that, and the page made of a *)
(* redirected file, are the exceptions.                                    *)
RobotsFirst ==
  opt.robots = 2 => \A i \in Pages :
    Disallowed(heap[i].url) =>
      LET from == heap[heap[i].precedent]
      IN from.host # heap[i].host \/ ~from.url.html

(* What the user has refused for good is never taken by a later answer.    *)
AnswerStands ==
  \A u \in refusals : ~Known(u)

(* Nothing but the distance from the start sets a depth: no depth of its   *)
(* own for other sites or for what lies near, nobody who answers.          *)
Straight == ~opt.near /\ opt.ext = 0 /\ opt.wizard = 2

(* No file was replaced by what a redirection led to.                      *)
AllLive == \A i \in Pages : heap[i].live

(* The first way that is found to a page is a shortest one: links are      *)
(* handled level by level, a link that is met again (htsparse.c:3086) is   *)
(* never nearer to the start than when it was recorded, so that nothing    *)
(* behind a page was cut by too small a depth when it was parsed.  This is *)
(* not so any more when files were replaced by what a redirection led to:  *)
(* each time the new link has the depth of the old one, but is behind the  *)
(* links of the next level.                                                *)
FoundAtFullDepth ==
  [][Straight /\ AllLive =>
       \A i \in Pages : heap'[i].depth = heap[i].depth]_vars
=============================================================================
