------------------------ MODULE MirrorSessions_proofs ------------------------
(***************************************************************************)
(* For every site, every number of sessions and of crashes: the variables  *)
(* keep their types, the entries that were flushed are never lost between  *)
(* the names the archives go through, what an interrupted session left     *)
(* whole is not downloaded again, and a session that lost nothing leaves   *)
(* its links whole, recent and out of reach of the purge.                  *)
(***************************************************************************)
EXTENDS MirrorSessions, Greatest, TLAPS

(* Where the archives are at each step of the start of a session, and that *)
(* the next session would load what was flushed.                           *)
Placed ==
  /\ pc \in {"rename", "rotate", "list", "loop", "end", "purge", "close"}
       => newzip.there
  /\ pc \in {"open", "repair", "unlink", "swap", "create"} => ~newzip.there
  /\ pc \in {"repair", "unlink"} => oldzip.there
  /\ pc = "unlink" => repairzip.there /\ repairzip.has = oldzip.has
  /\ pc = "swap" => ~oldzip.there

ArchiveInv == TypeOK /\ Placed /\ EntriesSurvive

-----------------------------------------------------------------------------
(* What is served is the last version that changed the link. *)
LEMMA ServedLast ==
  ASSUME NEW l \in Links, NEW v \in 1..MaxVersion
  PROVE  /\ Served(l, v) \in 1..v /\ l \in Changed[Served(l, v)]
         /\ \A w \in 1..v : l \in Changed[w] => w <= Served(l, v)
<1> DEFINE S == {w \in 1..v : l \in Changed[w]}
           last == CHOOSE i \in S : \A j \in S : j <= i
           top == CHOOSE i \in S : \A j \in S : i >= j
<1>1. MaxVersion \in Nat \ {0} /\ v \in Nat /\ v <= MaxVersion /\ 1 \in 1..v
  BY SiteAssumption
<1>2. S \subseteq 1..v /\ 1 \in S
  BY <1>1, SiteAssumption
<1>3. top = last
  OBVIOUS
<1>4. Served(l, v) = top
  BY DEF Served, Max
<1>5. \A w \in 1..v : w \in S <=> l \in Changed[w]
  OBVIOUS
<1> HIDE DEF S
<1>6. last \in S /\ \A j \in S : j <= last
  BY <1>1, <1>2, LastOf
<1> HIDE DEF last, top
<1> QED
  BY <1>2, <1>3, <1>4, <1>5, <1>6

(* What is served is one of the versions the site has had. *)
LEMMA ServedType ==
  ASSUME NEW l \in Links, NEW v \in 1..MaxVersion
  PROVE  Served(l, v) \in Versions \ {0}
<1>1. MaxVersion \in Nat \ {0} /\ v \in Nat /\ v <= MaxVersion
  BY SiteAssumption
<1>2. Served(l, v) \in 1..v
  BY ServedLast
<1> QED
  BY <1>1, <1>2 DEF Versions

(* What is served never gets older, and is never older than the first      *)
(* version.                                                                *)
LEMMA ServedGrows ==
  ASSUME NEW l \in Links, NEW v \in 1..MaxVersion, NEW w \in 1..MaxVersion,
         v <= w
  PROVE  Served(l, v) <= Served(l, w) /\ Served(l, 1) = 1
<1>1. MaxVersion \in Nat \ {0} /\ v \in Nat /\ w \in Nat /\ 1 \in 1..MaxVersion
  BY SiteAssumption
<1>2. Served(l, v) \in 1..v /\ l \in Changed[Served(l, v)]
  BY ServedLast
<1>3. Served(l, v) \in 1..w
  BY <1>1, <1>2
<1>4. Served(l, v) <= Served(l, w)
  BY <1>2, <1>3, ServedLast
<1>5. Served(l, 1) \in 1..1
  BY <1>1, ServedLast
<1> QED
  BY <1>4, <1>5

(* An archive with one more entry is one. *)
LEMMA EntryType ==
  ASSUME NEW zip \in Zip, NEW l \in Links, NEW v \in Versions
  PROVE  LET z == [zip EXCEPT !.has[l] = v]
         IN z \in Zip /\ z.there = zip.there /\ z.has = [zip.has EXCEPT ![l] = v]
BY DEF Zip

(* What one step of the loop may change. *)
LoopFrame ==
  /\ \/ UNCHANGED <<newzip, flushed>>
     \/ \E l \in Links, v \in Versions :
          /\ newzip' = [newzip EXCEPT !.has[l] = v]
          /\ flushed' = [flushed EXCEPT ![l] = v]
  /\ newlst' \in SUBSET Links
  /\ file' \in [Links -> Versions] /\ whole' \in [Links -> BOOLEAN]
  /\ st' \in [Links -> Stages]
  /\ stop' \in BOOLEAN /\ good' \in BOOLEAN
  /\ lost' \in SUBSET Links /\ cut' \in SUBSET Files
  /\ asof' \in 1..MaxVersion

(* Every answer to a link keeps the types. *)
LEMMA AnswerType ==
  ASSUME TypeOK, NEW l \in Links, Answer(l), UNCHANGED <<cut, asof>>
  PROVE  LoopFrame
<1>1. /\ newlst \in SUBSET Links
      /\ file \in [Links -> Versions] /\ whole \in [Links -> BOOLEAN]
      /\ st \in [Links -> Stages] /\ stop \in BOOLEAN /\ good \in BOOLEAN
      /\ lost \in SUBSET Links /\ cut \in SUBSET Files
      /\ asof \in 1..MaxVersion /\ index \in [Links -> Versions]
      /\ site \in 1..MaxVersion /\ newzip \in Zip
  BY DEF TypeOK
<1>2. Served(l, site) \in Versions /\ 0 \in Versions
  BY <1>1, ServedType, SiteAssumption DEF Versions
<1>3. index[l] \in Versions /\ file[l] \in Versions /\ newzip.has \in [Links -> Versions]
  BY <1>1 DEF Zip
<1>4. {"todo", "open", "stored", "done"} \subseteq Stages
  BY DEF Stages
<1>5. Stage(l, "open") \/ Stage(l, "stored") \/ Stage(l, "done")
        => st' \in [Links -> Stages]
  BY <1>1, <1>4 DEF Stage
<1>6. Noted(l) => newlst' \in SUBSET Links
  BY <1>1 DEF Noted
<1>7. \A v \in Versions : Stored(l, v) =>
        /\ \E k \in Links, w \in Versions :
             /\ newzip' = [newzip EXCEPT !.has[k] = w]
             /\ flushed' = [flushed EXCEPT ![k] = w]
        /\ good' \in BOOLEAN
  BY DEF Stored
<1>8. TakeFromCache(l) => LoopFrame
  BY <1>1, <1>3, <1>4, <1>5, <1>6, <1>7 DEF TakeFromCache, LoopFrame, disk
<1>9. CASE ReadAtOnce(l) \/ NotModified(l)
  BY <1>8, <1>9 DEF ReadAtOnce, NotModified
<1>10. CASE Guessed(l)
  BY <1>1, <1>4, <1>5, <1>10 DEF Guessed, LoopFrame, disk
<1>11. CASE AlreadyComplete(l)
  BY <1>1, <1>4, <1>5, <1>6, <1>11 DEF AlreadyComplete, LoopFrame, disk
<1>12. CASE Resume(l)
  BY <1>1, <1>4, <1>5, <1>6, <1>12 DEF Resume, LoopFrame, disk
<1>13. CASE Reget(l)
  BY <1>1, <1>2, <1>13 DEF Reget, LoopFrame, disk
<1>14. CASE FetchPage(l)
  BY <1>1, <1>2, <1>4, <1>5, <1>7, <1>14 DEF FetchPage, LoopFrame, disk
<1>15. CASE Arrived(l)
  BY <1>1, <1>3, <1>4, <1>5, <1>7, <1>15 DEF Arrived, LoopFrame, disk
<1>16. CASE Flush(l)
  BY <1>1, <1>4, <1>5, <1>16 DEF Flush, LoopFrame, disk
<1>17. CASE Save(l)
  <2>1. st' \in [Links -> Stages]
    BY <1>1, <1>4, <1>17 DEF Save
  <2>2. file' \in [Links -> Versions] /\ whole' \in [Links -> BOOLEAN]
    BY <1>1, <1>3, <1>17 DEF Save
  <2> QED
    BY <1>1, <1>6, <1>17, <2>1, <2>2 DEF Save, LoopFrame, disk
<1>18. CASE Refused(l)
  BY <1>1, <1>4, <1>5, <1>18 DEF Refused, LoopFrame, disk
<1>19. CASE Fails(l)
  BY <1>1, <1>4, <1>5, <1>19 DEF Fails, LoopFrame, disk
<1> QED
  BY <1>9, <1>10, <1>11, <1>12, <1>13, <1>14, <1>15, <1>16, <1>17, <1>18, <1>19
  DEF Answer

(* Every step of the loop keeps the types. *)
LEMMA LoopType ==
  ASSUME TypeOK, LinkStep
  PROVE  LoopFrame
<1>1. /\ newlst \in SUBSET Links
      /\ file \in [Links -> Versions] /\ whole \in [Links -> BOOLEAN]
      /\ st \in [Links -> Stages] /\ stop \in BOOLEAN /\ good \in BOOLEAN
      /\ lost \in SUBSET Links /\ cut \in SUBSET Files
      /\ asof \in 1..MaxVersion /\ site \in 1..MaxVersion
  BY DEF TypeOK
<1>2. 1 \in 1..MaxVersion
  BY SiteAssumption
<1>3. CASE RequestStop
  BY <1>1, <1>2, <1>3 DEF RequestStop, LoopFrame, disk
<1>4. ASSUME NEW l \in Links, UNCHANGED asof, FetchFile(l) PROVE LoopFrame
  <2>1. Served(l, site) \in Versions
    BY <1>1, ServedType
  <2>2. st' \in [Links -> Stages]
    BY <1>1, <1>4 DEF FetchFile, Stage, Stages
  <2> QED
    BY <1>1, <1>4, <2>1, <2>2 DEF FetchFile, Noted, LoopFrame
<1>5. ASSUME NEW l \in Links, UNCHANGED asof, FlushCut(l) PROVE LoopFrame
  <2>1. st' \in [Links -> Stages]
    BY <1>1, <1>5 DEF FlushCut, Stage, Stages
  <2> QED
    BY <1>1, <1>5, <2>1 DEF FlushCut, LoopFrame, disk
<1> QED
  BY <1>3, <1>4, <1>5, AnswerType DEF LinkStep

(* A step of the loop keeps the archives in place, and both the archive    *)
(* and what is known of it get the same entry.                             *)
LEMMA ArchiveOfLoop ==
  ASSUME ArchiveInv, LinkStep
  PROVE  ArchiveInv'
<1>1. TypeOK /\ Placed /\ EntriesSurvive
  BY DEF ArchiveInv
<1>2. LoopFrame /\ pc = "loop" /\ newzip.there
  BY <1>1, LoopType DEF LinkStep, Placed
<1>3. UNCHANGED <<oldzip, repairzip, oldlst, lock, site, pc, mode,
                  index, sessions, before, end, resumed>>
  BY DEF LinkStep, LinkFrame
<1>4. /\ newzip' \in Zip /\ newzip'.there
      /\ flushed' \in [Links -> Versions] /\ newzip'.has = flushed'
  <2>1. /\ newzip \in Zip /\ flushed \in [Links -> Versions] /\ newzip.has = flushed
    BY <1>1, <1>2 DEF TypeOK, EntriesSurvive, NextLoaded
  <2>2. CASE UNCHANGED <<newzip, flushed>>
    BY <1>2, <2>1, <2>2
  <2>3. ASSUME NEW l \in Links, NEW v \in Versions,
               newzip' = [newzip EXCEPT !.has[l] = v],
               flushed' = [flushed EXCEPT ![l] = v]
        PROVE  /\ newzip' \in Zip /\ newzip'.there
               /\ flushed' \in [Links -> Versions] /\ newzip'.has = flushed'
    BY <1>2, <2>1, <2>3, EntryType
  <2> QED
    BY <1>2, <2>2, <2>3 DEF LoopFrame
<1>5. TypeOK'
  BY <1>1, <1>2, <1>3, <1>4 DEF TypeOK, LoopFrame
<1>6. Placed'
  BY <1>2, <1>3, <1>4 DEF Placed
<1>7. EntriesSurvive'
  BY <1>4 DEF EntriesSurvive, NextLoaded
<1> QED
  BY <1>5, <1>6, <1>7 DEF ArchiveInv

(* Every rename, removal and repair of an archive leaves one of the names  *)
(* with what was flushed.                                                  *)
LEMMA ArchiveOfStart ==
  ASSUME ArchiveInv,
         \/ Start \/ Keep \/ Lock \/ RemoveOld \/ RenameNew \/ Open \/ Repair
         \/ Unlink \/ Swap \/ Create \/ Rotate \/ List
  PROVE  ArchiveInv'
<1>1. TypeOK /\ Placed /\ EntriesSurvive
  BY DEF ArchiveInv
<1>2. /\ Nothing \in [Links -> Versions]
      /\ NoZip \in Zip /\ ~NoZip.there /\ NoZip.has = Nothing
      /\ {"todo", "none"} \subseteq Stages
  BY SiteAssumption DEF Nothing, Versions, NoZip, Zip, Stages
<1>3. CASE Start
  <2>1. /\ newzip' = (IF ~newzip.there /\ oldzip.there THEN oldzip ELSE newzip)
        /\ oldzip' = (IF ~newzip.there THEN NoZip ELSE oldzip)
        /\ repairzip' = repairzip /\ flushed' = flushed
    BY <1>3 DEF Start, Recovered
  <2>2. EntriesSurvive'
    BY <1>1, <1>2, <2>1 DEF EntriesSurvive, NextLoaded, TypeOK
  <2>3. before' \in SUBSET Links /\ sessions' \in 0..MaxSessions
    BY <1>1, <1>3, SiteAssumption DEF Start, TypeOK
  <2>4. /\ pc' = "keep" /\ mode' \in {1, 2} /\ index' = Nothing
        /\ st' \in [Links -> Stages] /\ stop' = FALSE /\ good' = FALSE
        /\ lost' = {} /\ end' = "running" /\ resumed' \in BOOLEAN
    BY <1>2, <1>3 DEF Start
  <2>5. UNCHANGED <<repairzip, newlst, oldlst, lock, file, whole, site, flushed, cut, asof>>
    BY <1>3 DEF Start, lists, disk
  <2>6. TypeOK'
    BY <1>1, <1>2, <2>1, <2>3, <2>4, <2>5 DEF TypeOK, Steps
  <2>7. Placed'
    BY <2>4 DEF Placed
  <2> QED
    BY <2>2, <2>6, <2>7 DEF ArchiveInv
<1>4. CASE Keep \/ Lock
  BY <1>1, <1>4 DEF Keep, Lock, DatPresent, ArchiveInv, TypeOK, Placed, Steps,
     EntriesSurvive, NextLoaded, archives, lists, disk, session, history
<1>5. CASE RemoveOld
  BY <1>1, <1>2, <1>5 DEF RemoveOld, ArchiveInv, TypeOK, Placed, Steps,
     EntriesSurvive, NextLoaded, lists, disk, session, history
<1>6. CASE RenameNew
  BY <1>1, <1>2, <1>6 DEF RenameNew, ArchiveInv, TypeOK, Placed, Steps,
     EntriesSurvive, NextLoaded, lists, disk, session, history
<1>7. CASE Open
  BY <1>1, <1>2, <1>7 DEF Open, ArchiveInv, TypeOK, Placed, Steps, Zip, Sized,
     EntriesSurvive, NextLoaded, archives, lists, disk, history
<1>8. CASE Repair
  BY <1>1, <1>2, <1>8 DEF Repair, ArchiveInv, TypeOK, Placed, Steps, Zip,
     EntriesSurvive, NextLoaded, lists, disk, session, history
<1>9. CASE Unlink
  BY <1>1, <1>2, <1>9 DEF Unlink, ArchiveInv, TypeOK, Placed, Steps,
     EntriesSurvive, NextLoaded, lists, disk, session, history
<1>10. CASE Swap
  BY <1>1, <1>2, <1>10 DEF Swap, ArchiveInv, TypeOK, Placed, Steps, Zip,
     EntriesSurvive, NextLoaded, lists, disk, history
<1>11. CASE Create
  BY <1>1, <1>2, <1>11 DEF Create, ArchiveInv, TypeOK, Placed, Steps, Zip,
     EntriesSurvive, NextLoaded, lists, disk, session
<1>12. CASE Rotate \/ List
  BY <1>1, <1>2, <1>12, SiteAssumption DEF Rotate, List, ArchiveInv, TypeOK, Placed, Steps,
     EntriesSurvive, NextLoaded, archives, disk, session, history
<1> QED
  BY <1>3, <1>4, <1>5, <1>6, <1>7, <1>8, <1>9, <1>10, <1>11, <1>12

(* The end of a session, a crash and the site itself lose no entry. *)
LEMMA ArchiveOfEnd ==
  ASSUME ArchiveInv,
         \/ LoopDone \/ Abort \/ NothingTransferred \/ ToPurge
         \/ (\E l \in Links : Purge(l)) \/ PurgeDone \/ Close \/ Unlock
         \/ Crash \/ Publish \/ UNCHANGED vars
  PROVE  ArchiveInv'
<1>1. TypeOK /\ Placed /\ EntriesSurvive
  BY DEF ArchiveInv
<1>2. 0 \in Versions
  BY SiteAssumption DEF Versions
<1>3. CASE LoopDone \/ PurgeDone \/ Unlock \/ Crash \/ Publish \/ UNCHANGED vars
  <2>1. UNCHANGED <<archives, lists, disk, session, sessions, history>>
    BY <1>3 DEF LoopDone, PurgeDone, Unlock, Crash, Publish, EndFrame, vars,
       archives, lists, disk, session, history
  <2>2. /\ lock' \in BOOLEAN /\ site' \in 1..MaxVersion
        /\ \/ pc' = pc \/ pc' = "idle"
           \/ pc \in {"loop", "purge"} /\ pc' \in {"end", "close"}
    <3>1. lock \in BOOLEAN /\ site \in 1..MaxVersion /\ MaxVersion \in Nat
      BY <1>1, SiteAssumption DEF TypeOK
    <3>2. CASE LoopDone \/ PurgeDone
      BY <3>1, <3>2 DEF LoopDone, PurgeDone, EndFrame
    <3>3. CASE Unlock
      BY <3>1, <3>3 DEF Unlock, EndFrame
    <3>4. CASE Crash
      BY <3>1, <3>4 DEF Crash
    <3>5. CASE Publish
      BY <3>1, <3>5 DEF Publish
    <3>6. CASE UNCHANGED vars
      BY <3>1, <3>6 DEF vars
    <3> QED
      BY <1>3, <3>2, <3>3, <3>4, <3>5, <3>6
  <2>3. pc' \in Steps
    BY <1>1, <2>2 DEF TypeOK, Steps
  <2> QED
    BY <1>1, <2>1, <2>2, <2>3 DEF ArchiveInv, TypeOK, Placed, EntriesSurvive, NextLoaded,
       archives, lists, disk, session, history
<1>4. CASE Abort
  <2>1. whole' \in [Links -> BOOLEAN]
    BY <1>1, <1>4 DEF Abort, TypeOK
  <2> QED
    BY <1>1, <1>4, <2>1 DEF Abort, ArchiveInv, TypeOK, Placed, Steps, EntriesSurvive,
       NextLoaded, archives, lists, session
<1>5. CASE NothingTransferred \/ Close
  <2>1. newzip.there /\ newzip \in Zip
    BY <1>1, <1>5 DEF NothingTransferred, Close, Placed, TypeOK
  <2>2. /\ newzip' \in Zip /\ newzip'.there /\ newzip'.has = newzip.has
    BY <1>5, <2>1 DEF NothingTransferred, Close, Zip
  <2>3. EntriesSurvive'
    BY <1>1, <1>5, <2>1, <2>2 DEF EntriesSurvive, NextLoaded, NothingTransferred,
       Close, history
  <2>4. TypeOK'
    BY <1>1, <1>5, <2>2 DEF NothingTransferred, Close, TypeOK, Steps, lists, disk,
       session, history
  <2>5. Placed'
    BY <1>5 DEF NothingTransferred, Close, Placed
  <2> QED
    BY <2>3, <2>4, <2>5 DEF ArchiveInv
<1>6. CASE ToPurge
  BY <1>1, <1>6 DEF ToPurge, EndFrame, ArchiveInv, TypeOK, Placed, Steps,
     EntriesSurvive, NextLoaded, archives, lists, disk
<1>7. ASSUME NEW l \in Links, Purge(l) PROVE ArchiveInv'
  BY <1>1, <1>2, <1>7 DEF Purge, ArchiveInv, TypeOK, Placed, Steps,
     EntriesSurvive, NextLoaded, archives, lists, session, history
<1> QED
  BY <1>3, <1>4, <1>5, <1>6, <1>7

(* Nothing is stored when the mirror is created. *)
LEMMA ArchiveAtStart ==
  ASSUME Init
  PROVE  ArchiveInv
<1>1. /\ 1 \in 1..MaxVersion /\ 0 \in Versions /\ 0 \in 0..MaxSessions
  BY SiteAssumption DEF Versions
<1>2. /\ Nothing \in [Links -> Versions]
      /\ NoZip \in Zip /\ ~NoZip.there /\ NoZip.has = Nothing
  BY <1>1 DEF Nothing, NoZip, Zip
<1>3. TypeOK
  BY <1>1, <1>2 DEF Init, TypeOK, Steps, Stages
<1> QED
  BY <1>2, <1>3 DEF Init, ArchiveInv, Placed, EntriesSurvive, NextLoaded

(* The invariant holds of every session. *)
LEMMA Archived == Spec => []ArchiveInv
<1>1. Init => ArchiveInv
  BY ArchiveAtStart
<1>2. ArchiveInv /\ [Next]_vars => ArchiveInv'
  BY ArchiveOfStart, ArchiveOfLoop, ArchiveOfEnd DEF Next
<1> QED
  BY <1>1, <1>2, PTL DEF Spec

(* The variables keep their types: an archive that is not there is empty,  *)
(* and the one of a session in progress is there.                          *)
THEOREM TypeCorrect == Spec => []TypeOK
<1>1. ArchiveInv => TypeOK
  BY DEF ArchiveInv
<1> QED
  BY <1>1, Archived, PTL

(* Whatever crashes, the archive that the next session will load, or the   *)
(* one being repaired, holds exactly the entries that were flushed.        *)
THEOREM EntriesKept == Spec => []EntriesSurvive
<1>1. ArchiveInv => EntriesSurvive
  BY DEF ArchiveInv
<1> QED
  BY <1>1, Archived, PTL

-----------------------------------------------------------------------------
(* What an interrupted session left whole is not downloaded again.         *)
KeptInv ==
  /\ pc \in {"keep", "lock", "remove", "rename", "open", "repair", "unlink", "swap"}
       => \A l \in before : Complete(l, flushed)
  /\ pc \in {"keep", "lock", "remove"} /\ before # {}
       => newzip.there \/ oldzip.there
  /\ pc = "open" /\ before # {} => oldzip.there
  /\ pc \in {"create", "rotate", "list"} => \A l \in before : Complete(l, index)
  /\ pc = "loop"
       => \A l \in before : st[l] \in {"none", "todo"} => Complete(l, index)

(* A link that is still to be done has its file as it was, but for the one *)
(* that the previous archive does not know.                                *)
LEMMA LoopKeeps ==
  ASSUME TypeOK, LinkStep, NEW l \in Links, st'[l] \in {"none", "todo"}
  PROVE  /\ st[l] \in {"none", "todo"}
         /\ index[l] # 0 => file'[l] = file[l] /\ whole'[l] = whole[l]
<1>1. /\ file \in [Links -> Versions] /\ whole \in [Links -> BOOLEAN]
      /\ st \in [Links -> Stages]
  BY DEF TypeOK
<1> DEFINE Goal == /\ st[l] \in {"none", "todo"}
                   /\ index[l] # 0 => file'[l] = file[l] /\ whole'[l] = whole[l]
<1>2. \A k \in Links :
        Stage(k, "open") \/ Stage(k, "stored") \/ Stage(k, "done")
          => k # l /\ st'[l] = st[l]
  BY <1>1 DEF Stage
<1>3. CASE RequestStop
  BY <1>3 DEF RequestStop, disk
<1>4. ASSUME NEW k \in Links, FetchFile(k) PROVE Goal
  BY <1>1, <1>2, <1>4 DEF FetchFile
<1>5. ASSUME NEW k \in Links, FlushCut(k) PROVE Goal
  BY <1>1, <1>2, <1>5 DEF FlushCut, disk
<1>6. ASSUME NEW k \in Links, Answer(k) PROVE Goal
  <2>1. TakeFromCache(k) => Goal
    BY <1>1, <1>2 DEF TakeFromCache, disk
  <2>2. CASE ReadAtOnce(k) \/ NotModified(k)
    BY <2>1, <2>2 DEF ReadAtOnce, NotModified
  <2>3. CASE Guessed(k) \/ AlreadyComplete(k) \/ Resume(k)
    BY <1>2, <2>3 DEF Guessed, AlreadyComplete, Resume, disk
  <2>4. CASE Reget(k)
    BY <1>1, <2>4 DEF Reget, OnDiskOnly
  <2>5. CASE FetchPage(k) \/ Arrived(k) \/ Refused(k) \/ Fails(k)
    BY <1>2, <2>5 DEF FetchPage, Arrived, Refused, Fails, disk
  <2>6. CASE Flush(k)
    BY <1>1, <1>2, <2>6 DEF Flush
  <2>7. CASE Save(k)
    <3>1. k # l /\ st[l] \in {"none", "todo"}
      BY <1>1, <2>7 DEF Save
    <3> QED
      BY <1>1, <2>7, <3>1 DEF Save
  <2> QED
    BY <1>6, <2>2, <2>3, <2>4, <2>5, <2>6, <2>7 DEF Answer
<1> QED
  BY <1>3, <1>4, <1>5, <1>6 DEF LinkStep

(* What was left whole stays known until the loop has read it. *)
LEMMA KeptOfStep ==
  ASSUME ArchiveInv, KeptInv, [Next]_vars
  PROVE  KeptInv'
<1>1. TypeOK /\ Placed /\ EntriesSurvive
  BY DEF ArchiveInv
<1>2. CASE Start
  <2>1. /\ pc' = "keep" /\ UNCHANGED <<file, whole, flushed>>
        /\ newzip.there \/ oldzip.there => newzip'.there
        /\ before' = IF newzip.there \/ oldzip.there
                     THEN {l \in Links : Complete(l, flushed)} ELSE {}
    BY <1>2 DEF Start, Recovered, disk
  <2> QED
    BY <2>1 DEF KeptInv, Complete
<1>3. CASE Keep \/ Lock
  BY <1>3 DEF Keep, Lock, DatPresent, KeptInv, Complete, archives, disk, history
<1>4. CASE RemoveOld
  BY <1>1, <1>4 DEF RemoveOld, KeptInv, Complete, disk, history
<1>5. CASE RenameNew
  BY <1>1, <1>5 DEF RenameNew, KeptInv, Complete, disk, history, Placed
<1>6. CASE Open
  <2>1. pc = "open" /\ ~newzip.there /\ UNCHANGED <<file, whole, flushed, before>>
    BY <1>1, <1>6 DEF Open, disk, history, Placed
  <2>2. before # {} => oldzip.there /\ oldzip.has = flushed
    BY <1>1, <2>1 DEF KeptInv, EntriesSurvive, NextLoaded
  <2>3. \A l \in before : Complete(l, flushed)
    BY <2>1 DEF KeptInv
  <2>4. CASE ~Sized(oldzip)
    <3>1. ASSUME NEW l \in before PROVE FALSE
      <4>1. flushed = Nothing /\ flushed[l] # 0 /\ l \in Links
        BY <1>1, <2>2, <2>3, <2>4 DEF Sized, Complete, TypeOK
      <4> QED
        BY <4>1 DEF Nothing
    <3> QED
      BY <1>6, <2>1, <2>4, <3>1 DEF Open, KeptInv
  <2>5. CASE Sized(oldzip) /\ oldzip.closed
    <3>1. pc' = "create" /\ index' = oldzip.has
      BY <1>6, <2>5 DEF Open
    <3> QED
      BY <2>1, <2>2, <2>3, <3>1 DEF KeptInv, Complete
  <2>6. CASE Sized(oldzip) /\ ~oldzip.closed
    <3>1. pc' = "repair"
      BY <1>6, <2>6 DEF Open
    <3> QED
      BY <2>1, <2>3, <3>1 DEF KeptInv, Complete
  <2> QED
    BY <2>4, <2>5, <2>6
<1>7. CASE Repair \/ Unlink
  BY <1>7 DEF Repair, Unlink, KeptInv, Complete, disk, history
<1>8. CASE Swap
  <2>1. repairzip.has = flushed
    BY <1>1, <1>8 DEF Swap, Placed, EntriesSurvive, NextLoaded
  <2> QED
    BY <1>8, <2>1 DEF Swap, KeptInv, Complete, disk, history
<1>9. CASE Create \/ Rotate
  BY <1>9 DEF Create, Rotate, KeptInv, Complete, disk, history, session
<1>10. CASE List
  BY <1>10 DEF List, KeptInv, Complete, disk, history
<1>11. CASE LinkStep
  <2>1. pc = "loop" /\ pc' = pc /\ before' = before /\ index' = index
    BY <1>11 DEF LinkStep, LinkFrame
  <2>2. \A l \in before : st'[l] \in {"none", "todo"} =>
          /\ st[l] \in {"none", "todo"}
          /\ index[l] # 0 => file'[l] = file[l] /\ whole'[l] = whole[l]
    BY <1>1, <1>11, LoopKeeps DEF TypeOK
  <2> QED
    BY <2>1, <2>2 DEF KeptInv, Complete
<1>12. CASE \/ LoopDone \/ Abort \/ NothingTransferred \/ ToPurge
            \/ (\E l \in Links : Purge(l)) \/ PurgeDone \/ Close \/ Unlock
            \/ Crash
  <2>1. pc' \in {"idle", "end", "close", "unlock", "purge"}
    BY <1>12 DEF LoopDone, Abort, NothingTransferred, ToPurge, Purge, PurgeDone,
       Close, Unlock, Crash
  <2> QED
    BY <2>1 DEF KeptInv
<1>13. CASE Publish \/ UNCHANGED vars
  BY <1>13 DEF Publish, vars, KeptInv, Complete, archives, disk, session, history
<1> QED
  BY <1>2, <1>3, <1>4, <1>5, <1>6, <1>7, <1>8, <1>9, <1>10, <1>11, <1>12, <1>13
  DEF Next

(* A link that can be read from the prioritary archive is. *)
LEMMA ReadNotFetched ==
  ASSUME ArchiveInv, KeptInv, [Next]_vars, NEW l \in before, Downloads(l)
  PROVE  mode = 2
<1>1. TypeOK /\ l \in Links /\ mode \in {1, 2} /\ st \in [Links -> Stages]
      /\ newzip \in Zip
  BY DEF ArchiveInv, TypeOK
<1>2. /\ st[l] = "todo" /\ st'[l] \in {"open", "stored"}
      /\ ~(index[l] # 0 /\ newzip'.has[l] = index[l])
  BY DEF Downloads
<1>3. LinkStep
  <2>1. CASE Start
    BY <1>1, <1>2, <2>1 DEF Start
  <2>2. CASE List
    BY <1>1, <1>2, <2>2 DEF List
  <2>3. CASE Abort
    BY <1>2, <2>3 DEF Abort, session
  <2>4. CASE \/ Keep \/ Lock \/ RemoveOld \/ RenameNew \/ Open \/ Repair
             \/ Unlink \/ Swap \/ Create \/ Rotate
             \/ LoopDone \/ NothingTransferred \/ ToPurge
             \/ (\E k \in Links : Purge(k)) \/ PurgeDone \/ Close \/ Unlock
             \/ Crash \/ Publish \/ UNCHANGED vars
    <3>1. st' = st
      BY <2>4 DEF Keep, Lock, RemoveOld, RenameNew, Open, Repair, Unlink, Swap,
         Create, Rotate, LoopDone, NothingTransferred, ToPurge, Purge, PurgeDone,
         Close, Unlock, Crash, Publish, EndFrame, vars, session
    <3> QED
      BY <1>2, <3>1
  <2> QED
    BY <2>1, <2>2, <2>3, <2>4 DEF Next
<1>4. Complete(l, index)
  BY <1>2, <1>3 DEF KeptInv, LinkStep
<1>5. SUFFICES ASSUME mode = 1 PROVE FALSE
  BY <1>1
<1>6. Prioritary /\ ReadsFromCache(l) /\ index[l] # 0
  BY <1>4, <1>5 DEF Prioritary, ReadsFromCache, Complete
<1>7. \A k \in Links : \A s :
        Stage(k, s) => (IF k = l THEN s \in {"open", "stored"} ELSE FALSE)
  BY <1>1, <1>2 DEF Stage
<1>8. CASE RequestStop
  BY <1>2, <1>8 DEF RequestStop
<1>9. ASSUME NEW k \in Links, FetchFile(k) PROVE FALSE
  <2>1. k = l
    BY <1>7, <1>9 DEF FetchFile
  <2> QED
    BY <1>6, <1>9, <2>1 DEF FetchFile, Transfers
<1>10. ASSUME NEW k \in Links, FlushCut(k) PROVE FALSE
  BY <1>7, <1>10 DEF FlushCut
<1>11. ASSUME NEW k \in Links, Answer(k) PROVE FALSE
  <2>1. CASE ReadAtOnce(k)
    <3>1. k = l /\ newzip' = [newzip EXCEPT !.has[l] = index[l]]
      BY <1>7, <2>1 DEF ReadAtOnce, TakeFromCache, Stored
    <3>2. newzip'.has[l] = index[l]
      BY <1>1, <3>1 DEF Zip
    <3> QED
      BY <1>2, <1>6, <3>2
  <2>2. CASE NotModified(k)
    BY <1>6, <2>2 DEF NotModified, Conditional
  <2>3. CASE Guessed(k) \/ AlreadyComplete(k) \/ Flush(k) \/ Refused(k) \/ Fails(k)
    BY <1>7, <2>3 DEF Guessed, AlreadyComplete, Flush, Refused, Fails
  <2>4. CASE Resume(k)
    <3>1. k = l
      BY <1>7, <2>4 DEF Resume
    <3> QED
      BY <1>6, <2>4, <3>1 DEF Resume, OnDiskOnly
  <2>5. CASE Reget(k)
    BY <1>2, <2>5 DEF Reget
  <2>6. CASE FetchPage(k)
    <3>1. k = l
      BY <1>7, <2>6 DEF FetchPage
    <3> QED
      BY <1>6, <2>6, <3>1 DEF FetchPage, Transfers
  <2>7. CASE Arrived(k)
    <3>1. k = l /\ st[k] = "open"
      BY <1>7, <2>7 DEF Arrived
    <3> QED
      BY <1>2, <3>1
  <2>8. CASE Save(k)
    BY <1>1, <1>2, <2>8 DEF Save
  <2> QED
    BY <1>11, <2>1, <2>2, <2>3, <2>4, <2>5, <2>6, <2>7, <2>8 DEF Answer
<1> QED
  BY <1>3, <1>8, <1>9, <1>10, <1>11 DEF LinkStep

(* What a session left whole before it was interrupted is not downloaded   *)
(* again by the one that continues it.                                     *)
THEOREM NothingTwice == Spec => NotFetchedAgain
<1>1. Init => KeptInv
  BY DEF Init, KeptInv
<1>2. ArchiveInv /\ KeptInv /\ [Next]_vars => KeptInv'
  BY KeptOfStep
<1>3. ArchiveInv /\ KeptInv /\ [Next]_vars
        => [\A l \in before : Downloads(l) => mode = 2]_vars
  BY ReadNotFetched
<1> QED
  BY <1>1, <1>2, <1>3, Archived, PTL DEF Spec, NotFetchedAgain

-----------------------------------------------------------------------------
(* What a session that lost nothing leaves, and what the purge removes.    *)
Before == {"keep", "lock", "remove", "rename", "open", "repair", "unlink", "swap"}
Opened == {"create", "rotate", "list"}
Over == {"end", "purge", "close", "unlock"}

(* How the steps of a session follow each other, and which mode of the     *)
(* cache goes with an interrupted session.                                 *)
Order ==
  /\ asof <= site
  /\ pc # "idle" => (mode = 1 <=> resumed)
  /\ pc \in Before \cup Opened => ~stop /\ end = "running"
  /\ pc \notin {"idle", "keep", "lock"} => lock
  /\ pc \in {"rotate", "list"} => flushed = Nothing
  /\ pc = "loop" => end = "running"
  /\ pc = "end" => end \in {"running", "aborted"}
  /\ pc = "purge" => end \in {"finished", "aborted"}

(* v is a version of l that the session may leave on disk. *)
Recent(l, v) == v # 0 /\ v >= Served(l, asof)

(* The file of an entry, if it is there, is the one the entry tells of.    *)
Sound(l, entries) ==
  l \in Files /\ entries[l] # 0 /\ file[l] # 0 => Complete(l, entries) \/ l \in cut

(* A link that is done was lost, or is noted, whole and recent. *)
Left(l) ==
  st[l] = "done" /\ l \notin lost /\ l \notin cut
    => l \in newlst /\ whole[l] /\ Recent(l, file[l])

(* How far link l is, and what is flushed and on disk of it by then. *)
InLoop(l) ==
  /\ Left(l)
  /\ st[l] \in {"none", "todo", "open"} => flushed[l] = 0
  /\ st[l] = "open" => l \in Files /\ l \in newlst /\ Recent(l, file[l])
  /\ st[l] = "stored" => flushed[l] # 0
  /\ st[l] = "stored" /\ l \in Files => l \in newlst /\ file[l] = flushed[l]
  /\ st[l] = "done" => Sound(l, flushed)
  /\ mode = 2 /\ st[l] \in {"none", "todo"} => Sound(l, index)

LinkInv(l) ==
  /\ flushed[l] # 0 => Recent(l, flushed[l])
  /\ pc \in Opened \cup {"loop"} /\ (mode = 1 \/ stop) /\ index[l] # 0
       => Recent(l, index[l])
  /\ ~lock \/ (mode = 2 /\ pc \in Before) \/ pc \in Over => Sound(l, flushed)
  /\ mode = 2 /\ pc \in Opened => Sound(l, index)
  /\ pc \in Before \cup Opened => st[l] = "none"
  /\ pc = "loop" => InLoop(l)
  /\ pc \in Over /\ end \in {"running", "finished"}
       => Left(l) /\ st[l] \in {"none", "done"}

(* A step of the loop that is about another link. *)
Apart(l) ==
  /\ file'[l] = file[l] /\ whole'[l] = whole[l] /\ flushed'[l] = flushed[l]
  /\ l \in cut' <=> l \in cut
  /\ l \in lost' <=> l \in lost
  /\ l \in newlst => l \in newlst'
  /\ st'[l] = st[l] \/ (st[l] = "none" /\ st'[l] = "todo")

(* A step of the loop is about one link. *)
LEMMA OneLink ==
  ASSUME TypeOK, LinkStep, NEW l \in Links
  PROVE  \/ RequestStop
         \/ /\ asof' = asof /\ stop' = stop
            /\ \/ Apart(l)
               \/ FetchFile(l) \/ FlushCut(l) \/ (UNCHANGED cut /\ Answer(l))
<1>1. /\ file \in [Links -> Versions] /\ whole \in [Links -> BOOLEAN]
      /\ st \in [Links -> Stages] /\ flushed \in [Links -> Versions]
  BY DEF TypeOK
<1> SUFFICES ASSUME ~RequestStop,
                    NEW k \in Links, asof' = asof,
                    FetchFile(k) \/ FlushCut(k) \/ (UNCHANGED cut /\ Answer(k))
             PROVE  stop' = stop /\ (k # l => Apart(l))
  BY DEF LinkStep
<1>2. \A s : Stage(k, s) /\ k # l => st'[l] = st[l]
  BY <1>1 DEF Stage
<1>3. Noted(k) => (l \in newlst => l \in newlst')
  BY DEF Noted
<1>4. \A v : Stored(k, v) /\ k # l => flushed'[l] = flushed[l]
  BY <1>1 DEF Stored
<1>5. CASE FetchFile(k)
  BY <1>1, <1>2, <1>3, <1>5 DEF FetchFile, Apart
<1>6. CASE FlushCut(k)
  BY <1>2, <1>6 DEF FlushCut, Apart, disk
<1>7. CASE UNCHANGED cut /\ Answer(k)
  <2>1. TakeFromCache(k) => stop' = stop /\ (k # l => Apart(l))
    BY <1>2, <1>3, <1>4, <1>7 DEF TakeFromCache, Apart, disk
  <2>2. CASE ReadAtOnce(k) \/ NotModified(k)
    BY <2>1, <2>2 DEF ReadAtOnce, NotModified
  <2>3. CASE Guessed(k) \/ AlreadyComplete(k) \/ Resume(k)
    BY <1>2, <1>3, <1>7, <2>3 DEF Guessed, AlreadyComplete, Resume, Apart, disk
  <2>4. CASE Reget(k)
    BY <1>1, <1>7, <2>4 DEF Reget, Apart
  <2>5. CASE FetchPage(k) \/ Arrived(k)
    BY <1>2, <1>4, <1>7, <2>5 DEF FetchPage, Arrived, Apart, disk
  <2>6. CASE Refused(k) \/ Fails(k)
    BY <1>2, <1>7, <2>6 DEF Refused, Fails, Apart, disk
  <2>7. CASE Flush(k)
    BY <1>1, <1>2, <1>7, <2>7 DEF Flush, Apart
  <2>8. CASE Save(k)
    <3>1. k # l => st'[l] = st[l] \/ (st[l] = "none" /\ st'[l] = "todo")
      BY <1>1, <2>8 DEF Save
    <3>2. k # l => file'[l] = file[l] /\ whole'[l] = whole[l]
      BY <1>1, <2>8 DEF Save
    <3> QED
      BY <1>3, <1>7, <2>8, <3>1, <3>2 DEF Save, Apart
  <2> QED
    BY <1>7, <2>2, <2>3, <2>4, <2>5, <2>6, <2>7, <2>8 DEF Answer
<1> QED
  BY <1>5, <1>6, <1>7

(* What is being served is recent, and so is all of it once a stop was     *)
(* requested.                                                              *)
LEMMA ServedRecent ==
  ASSUME TypeOK, Order, NEW l \in Links
  PROVE  /\ Recent(l, Served(l, site))
         /\ \A v \in Versions : v # 0 => v >= Served(l, 1)
         /\ Served(l, 1) \in Nat /\ Served(l, asof) \in Nat /\ Served(l, site) \in Nat
<1>1. /\ MaxVersion \in Nat \ {0} /\ asof \in 1..MaxVersion /\ site \in 1..MaxVersion
      /\ 1 \in 1..MaxVersion /\ asof <= site
  BY SiteAssumption DEF TypeOK, Order
<1>2. /\ Served(l, site) \in Versions \ {0} /\ Served(l, asof) \in Versions \ {0}
      /\ Served(l, 1) \in Versions \ {0}
  BY <1>1, ServedType
<1>3. Served(l, asof) <= Served(l, site) /\ Served(l, 1) = 1
  BY <1>1, ServedGrows
<1> QED
  BY <1>1, <1>2, <1>3 DEF Recent, Versions

(* A file is created, or the tail of one is lost. *)
LEMMA FileStep ==
  ASSUME TypeOK, Order, LinkStep, NEW l \in Links, InLoop(l), asof' = asof,
         FetchFile(l) \/ FlushCut(l)
  PROVE  InLoop(l)' /\ flushed' = flushed
<1>1. /\ file \in [Links -> Versions] /\ whole \in [Links -> BOOLEAN]
      /\ st \in [Links -> Stages] /\ flushed \in [Links -> Versions]
      /\ mode' = mode /\ index' = index
  BY DEF TypeOK, LinkStep, LinkFrame
<1>2. flushed' = flushed
  BY DEF FetchFile, FlushCut
<1>3. CASE FetchFile(l)
  <2>1. /\ st[l] = "todo" /\ st'[l] = "open" /\ l \in Files /\ l \in newlst'
        /\ file'[l] = Served(l, site) /\ flushed[l] = 0
    BY <1>1, <1>3 DEF FetchFile, Stage, Noted, InLoop
  <2>2. Recent(l, file[l])'
    BY <2>1, ServedRecent DEF Recent
  <2> QED
    BY <1>2, <2>1, <2>2 DEF InLoop, Left
<1>4. CASE FlushCut(l)
  <2>1. st'[l] = "done" /\ l \in cut'
    BY <1>1, <1>4 DEF FlushCut, Stage
  <2> QED
    BY <1>2, <2>1 DEF InLoop, Left, Sound, Recent
<1> QED
  BY <1>3, <1>4

(* An answer taken from the previous archive leaves the link as recorded.  *)
LEMMA TakenStep ==
  ASSUME TypeOK, Order, LinkStep, NEW l \in Links, InLoop(l), UNCHANGED <<cut, asof>>,
         TakeFromCache(l), Recent(l, index[l])
  PROVE  InLoop(l)' /\ (flushed[l] # 0 => Recent(l, flushed[l]))'
<1>1. /\ file \in [Links -> Versions] /\ whole \in [Links -> BOOLEAN]
      /\ st \in [Links -> Stages] /\ flushed \in [Links -> Versions]
      /\ mode' = mode /\ index' = index
  BY DEF TypeOK, LinkStep, LinkFrame
<1>2. /\ index[l] # 0 /\ flushed'[l] = index[l] /\ UNCHANGED <<file, whole, lost>>
      /\ l \in Files => whole[l] /\ file[l] = index[l]
  BY <1>1 DEF TakeFromCache, ReadsFromCache, Complete, Stored, disk
<1>3. Recent(l, index[l])'
  BY <1>1 DEF Recent
<1>4. CASE l \in Files
  <2>1. st'[l] = "done" /\ l \in newlst'
    BY <1>1, <1>4 DEF TakeFromCache, Stage, Noted
  <2> QED
    BY <1>1, <1>2, <1>3, <1>4, <2>1 DEF InLoop, Left, Sound, Complete, Recent
<1>5. CASE l \notin Files
  <2>1. st'[l] = "stored"
    BY <1>1, <1>5 DEF TakeFromCache, Stage
  <2> QED
    BY <1>1, <1>2, <1>3, <1>5, <2>1 DEF InLoop, Left, Sound, Recent
<1> QED
  BY <1>4, <1>5

(* Every other answer. *)
LEMMA AnswerStep ==
  ASSUME TypeOK, Order, LinkStep, NEW l \in Links, InLoop(l), UNCHANGED <<cut, asof>>,
         Answer(l), newzip.has = flushed,
         flushed[l] # 0 => Recent(l, flushed[l]),
         (mode = 1 \/ stop) /\ index[l] # 0 => Recent(l, index[l])
  PROVE  InLoop(l)' /\ (flushed[l] # 0 => Recent(l, flushed[l]))'
<1>1. /\ file \in [Links -> Versions] /\ whole \in [Links -> BOOLEAN]
      /\ st \in [Links -> Stages] /\ flushed \in [Links -> Versions]
      /\ mode' = mode /\ index' = index /\ mode \in {1, 2}
  BY DEF TypeOK, LinkStep, LinkFrame
<1>2. Recent(l, Served(l, site))
  BY ServedRecent
<1>3. \A v : Recent(l, v)' <=> Recent(l, v)
  BY DEF Recent
<1>4. \A s \in Stages : Stage(l, s) => st'[l] = s
  BY <1>1 DEF Stage
<1>5. Noted(l) => l \in newlst'
  BY DEF Noted
<1>6. \A v : Stored(l, v) => flushed'[l] = v
  BY <1>1 DEF Stored
<1>7. {"todo", "open", "stored", "done"} \subseteq Stages
  BY DEF Stages
<1>8. flushed' = flushed => (flushed[l] # 0 => Recent(l, flushed[l]))'
  BY <1>3
<1>9. CASE ReadAtOnce(l)
  <2>1. TakeFromCache(l) /\ Recent(l, index[l])
    BY <1>9 DEF ReadAtOnce, Prioritary, TakeFromCache, ReadsFromCache, Complete
  <2> QED
    BY <2>1, TakenStep
<1>10. CASE NotModified(l)
  <2>1. TakeFromCache(l) /\ Recent(l, index[l])
    BY <1>2, <1>10 DEF NotModified
  <2> QED
    BY <2>1, TakenStep
<1>11. CASE Guessed(l)
  <2>1. /\ st[l] = "todo" /\ st'[l] = "done" /\ mode = 2 /\ ~Complete(l, index)
        /\ index[l] # 0 /\ (l \in Files => file[l] # 0)
        /\ UNCHANGED <<file, whole, flushed>>
    BY <1>1, <1>4, <1>7, <1>11 DEF Guessed, Conditional, Prioritary, ReadsFromCache, disk
  <2>2. l \in cut /\ flushed[l] = 0
    BY <2>1 DEF InLoop, Sound, Complete
  <2> QED
    BY <1>8, <2>1, <2>2 DEF InLoop, Left, Sound
<1>12. CASE AlreadyComplete(l)
  <2>1. /\ st[l] = "todo" /\ st'[l] = "done" /\ l \in newlst' /\ whole[l]
        /\ file[l] = Served(l, site) /\ UNCHANGED <<file, whole, flushed, lost>>
    BY <1>4, <1>5, <1>7, <1>12 DEF AlreadyComplete, disk
  <2>2. flushed[l] = 0 /\ Recent(l, file[l])'
    BY <1>2, <1>3, <2>1 DEF InLoop
  <2> QED
    BY <1>8, <2>1, <2>2 DEF InLoop, Left, Sound, Recent
<1>13. CASE Resume(l)
  <2>1. /\ st[l] = "todo" /\ st'[l] = "open" /\ l \in newlst' /\ l \in Files
        /\ file[l] = Served(l, site) /\ UNCHANGED <<file, flushed>>
    BY <1>4, <1>5, <1>7, <1>13 DEF Resume, OnDiskOnly, disk
  <2>2. flushed[l] = 0 /\ Recent(l, file[l])'
    BY <1>2, <1>3, <2>1 DEF InLoop
  <2> QED
    BY <1>8, <2>1, <2>2 DEF InLoop, Left, Recent
<1>14. CASE Reget(l)
  <2>1. /\ st[l] = "todo" /\ st' = st /\ index[l] = 0 /\ flushed' = flushed
    BY <1>14 DEF Reget, OnDiskOnly
  <2> QED
    BY <1>1, <1>8, <2>1 DEF InLoop, Left, Sound
<1>15. CASE FetchPage(l)
  <2>1. st'[l] = "stored" /\ l \notin Files /\ flushed'[l] = Served(l, site)
    BY <1>4, <1>6, <1>7, <1>15 DEF FetchPage
  <2> QED
    BY <1>2, <1>3, <2>1 DEF InLoop, Left, Recent
<1>16. CASE Arrived(l)
  <2>1. /\ st[l] = "open" /\ st'[l] = "stored" /\ flushed'[l] = file[l]
        /\ UNCHANGED <<newlst, file>>
    BY <1>4, <1>6, <1>7, <1>16 DEF Arrived, disk
  <2>2. l \in newlst /\ Recent(l, file[l])
    BY <2>1 DEF InLoop
  <2> QED
    BY <1>3, <2>1, <2>2 DEF InLoop, Left, Recent
<1>17. CASE Flush(l)
  <2>1. /\ st[l] = "stored" /\ l \in Files /\ st'[l] = "done" /\ whole'[l]
        /\ UNCHANGED <<newlst, file, flushed, lost>>
    BY <1>1, <1>4, <1>7, <1>17 DEF Flush
  <2>2. flushed[l] # 0 /\ l \in newlst /\ file[l] = flushed[l] /\ Recent(l, flushed[l])'
    BY <1>3, <2>1 DEF InLoop
  <2> QED
    BY <1>8, <2>1, <2>2 DEF InLoop, Left, Sound, Complete, Recent
<1>18. CASE Save(l)
  <2>1. /\ st[l] = "stored" /\ l \notin Files /\ st'[l] = "done" /\ whole'[l]
        /\ file'[l] = flushed[l] /\ l \in newlst' /\ flushed' = flushed
    BY <1>1, <1>5, <1>18 DEF Save
  <2>2. Recent(l, flushed[l])'
    BY <1>3, <2>1 DEF InLoop
  <2> QED
    BY <1>8, <2>1, <2>2 DEF InLoop, Left, Sound, Recent
<1>19. CASE Refused(l) \/ Fails(l)
  <2>1. /\ st[l] \in {"todo", "open"} /\ st'[l] = "done" /\ l \in lost'
        /\ flushed' = flushed
    BY <1>4, <1>7, <1>19 DEF Refused, Fails
  <2>2. flushed[l] = 0
    BY <2>1 DEF InLoop
  <2> QED
    BY <1>8, <2>1, <2>2 DEF InLoop, Left, Sound
<1> QED
  BY <1>9, <1>10, <1>11, <1>12, <1>13, <1>14, <1>15, <1>16, <1>17, <1>18, <1>19
  DEF Answer

(* Every step of the loop keeps what is known of each link. *)
LEMMA LoopLink ==
  ASSUME ArchiveInv, Order, LinkStep, NEW l \in Links, LinkInv(l)
  PROVE  LinkInv(l)'
<1>1. /\ TypeOK /\ newzip.there /\ newzip.has = flushed
  BY DEF ArchiveInv, LinkStep, Placed, EntriesSurvive, NextLoaded
<1>2. /\ pc = "loop" /\ lock /\ UNCHANGED <<pc, lock, mode, index, end>>
  BY DEF LinkStep, LinkFrame, Order
<1>3. /\ InLoop(l)
      /\ flushed[l] # 0 => Recent(l, flushed[l])
      /\ (mode = 1 \/ stop) /\ index[l] # 0 => Recent(l, index[l])
  BY <1>2 DEF LinkInv
<1>4. /\ index \in [Links -> Versions] /\ flushed \in [Links -> Versions]
      /\ file \in [Links -> Versions]
  BY <1>1 DEF TypeOK
<1>5. CASE RequestStop
  <2>1. /\ UNCHANGED <<st, flushed, newlst, lost, cut, file, whole>> /\ asof' = 1
    BY <1>5 DEF RequestStop, disk
  <2>2. \A v \in Versions : v # 0 => Recent(l, v)'
    BY <1>1, <2>1, ServedRecent DEF Recent
  <2> QED
    BY <1>2, <1>3, <1>4, <2>1, <2>2 DEF LinkInv, InLoop, Left, Sound, Complete, Recent,
       Opened, Before, Over
<1>6. CASE asof' = asof /\ stop' = stop /\ Apart(l)
  <2>1. Recent(l, index[l])' <=> Recent(l, index[l])
    BY <1>2, <1>6 DEF Recent
  <2>2. Recent(l, flushed[l])' <=> Recent(l, flushed[l])
    BY <1>6 DEF Recent, Apart
  <2>3. Recent(l, file[l])' <=> Recent(l, file[l])
    BY <1>6 DEF Recent, Apart
  <2>4. InLoop(l)'
    BY <1>2, <1>3, <1>6, <2>2, <2>3 DEF InLoop, Left, Sound, Complete, Apart
  <2>5. flushed'[l] = flushed[l]
    BY <1>6 DEF Apart
  <2> QED
    BY <1>2, <1>3, <1>6, <2>1, <2>2, <2>4, <2>5 DEF LinkInv, Before, Opened, Over
<1>7. CASE asof' = asof /\ stop' = stop
           /\ (FetchFile(l) \/ FlushCut(l) \/ (UNCHANGED cut /\ Answer(l)))
  <2>1. InLoop(l)' /\ (flushed[l] # 0 => Recent(l, flushed[l]))'
    <3>1. CASE FetchFile(l) \/ FlushCut(l)
      BY <1>1, <1>3, <1>7, <3>1, FileStep DEF Recent
    <3>2. CASE UNCHANGED cut /\ Answer(l)
      BY <1>1, <1>3, <1>7, <3>2, AnswerStep
    <3> QED
      BY <1>7, <3>1, <3>2
  <2>2. Recent(l, index[l])' <=> Recent(l, index[l])
    BY <1>2, <1>7 DEF Recent
  <2> QED
    BY <1>2, <1>3, <1>7, <2>1, <2>2 DEF LinkInv, Before, Opened, Over
<1> QED
  BY <1>1, <1>5, <1>6, <1>7, OneLink

(* The steps of the start of a session. *)
LEMMA StartLink ==
  ASSUME ArchiveInv, Order, NEW l \in Links, LinkInv(l),
         \/ Start \/ Keep \/ Lock \/ RemoveOld \/ RenameNew \/ Open \/ Repair
         \/ Unlink \/ Swap \/ Create \/ Rotate \/ List
  PROVE  LinkInv(l)'
<1>1. TypeOK /\ Placed /\ EntriesSurvive
  BY DEF ArchiveInv
<1>2. /\ st \in [Links -> Stages] /\ flushed \in [Links -> Versions]
      /\ index \in [Links -> Versions] /\ mode \in {1, 2}
  BY <1>1 DEF TypeOK
<1>3. /\ flushed[l] # 0 => Recent(l, flushed[l])
  BY DEF LinkInv
<1>4. CASE Start
  <2>1. /\ pc' = "keep" /\ st'[l] = "none" /\ (mode' = 2 => ~lock)
        /\ UNCHANGED <<lock, flushed, file, whole, cut, asof>>
    BY <1>4 DEF Start, disk
  <2> QED
    BY <2>1 DEF LinkInv, Recent, Sound, Complete, Before, Opened, Over
<1>5. CASE Keep \/ Lock \/ RemoveOld \/ RenameNew \/ Repair \/ Unlink
  <2>1. /\ pc \in Before /\ pc' \in Before /\ (lock => lock')
        /\ UNCHANGED <<flushed, file, whole, cut, asof, mode, st>>
    BY <1>5 DEF Keep, Lock, RemoveOld, RenameNew, Repair, Unlink, Before, disk,
       session, history
  <2> QED
    BY <1>2, <2>1 DEF LinkInv, Recent, Sound, Complete, Before, Opened, Over
<1>6. CASE Open \/ Swap
  <2>1. /\ pc \in {"open", "swap"} /\ ~newzip.there
        /\ UNCHANGED <<flushed, file, whole, cut, asof, mode, st, lock, stop>>
    BY <1>1, <1>6 DEF Open, Swap, Placed, disk, history
  <2>2. \/ pc' \in Before
        \/ pc' = "create" /\ (index'[l] = 0 \/ index' = flushed)
    <3>1. CASE Open
      BY <1>1, <2>1, <3>1 DEF Open, Before, Nothing, EntriesSurvive, NextLoaded, Sized
    <3>2. CASE Swap
      BY <1>1, <2>1, <3>2 DEF Swap, Placed, EntriesSurvive, NextLoaded
    <3> QED
      BY <1>6, <3>1, <3>2
  <2> QED
    BY <1>2, <1>3, <2>1, <2>2 DEF LinkInv, Recent, Sound, Complete, Before, Opened, Over
<1>7. CASE Create
  <2>1. /\ pc = "create" /\ pc' = "rotate" /\ flushed'[l] = 0 /\ ~stop /\ lock
        /\ mode = 1 => asof' = asof
        /\ UNCHANGED <<file, whole, cut, mode, st, lock, stop, index>>
    BY <1>7 DEF Create, Order, Nothing, Opened, disk, session
  <2> QED
    BY <1>2, <2>1 DEF LinkInv, Recent, Sound, Complete, Before, Opened, Over
<1>8. CASE Rotate
  <2>1. /\ pc = "rotate" /\ pc' = "list"
        /\ UNCHANGED <<flushed, file, whole, cut, asof, mode, st, lock, stop, index>>
    BY <1>8 DEF Rotate, disk, session, history
  <2> QED
    BY <1>2, <2>1 DEF LinkInv, Recent, Sound, Complete, Before, Opened, Over
<1>9. CASE List
  <2>1. /\ pc = "list" /\ pc' = "loop" /\ flushed[l] = 0 /\ lock
        /\ UNCHANGED <<flushed, file, whole, cut, asof, mode, lock, stop, index>>
    BY <1>9 DEF List, Order, Nothing, disk, history
  <2>2. st'[l] \in {"none", "todo"}
    BY <1>2, <1>9 DEF List, LinkInv, Opened
  <2>3. InLoop(l)'
    BY <1>2, <2>1, <2>2 DEF LinkInv, InLoop, Left, Sound, Complete, Opened
  <2> QED
    BY <1>2, <2>1, <2>3 DEF LinkInv, Recent, Before, Opened, Over
<1> QED
  BY <1>4, <1>5, <1>6, <1>7, <1>8, <1>9

(* The steps of the end of a session, a crash, and the site itself. *)
LEMMA EndLink ==
  ASSUME ArchiveInv, Order, NEW l \in Links, LinkInv(l),
         \/ LoopDone \/ Abort \/ NothingTransferred \/ ToPurge
         \/ (\E k \in Links : Purge(k)) \/ PurgeDone \/ Close \/ Unlock
         \/ Crash \/ Publish \/ UNCHANGED vars
  PROVE  LinkInv(l)'
<1>1. /\ st \in [Links -> Stages] /\ flushed \in [Links -> Versions]
      /\ file \in [Links -> Versions] /\ whole \in [Links -> BOOLEAN]
      /\ mode \in {1, 2}
  BY DEF ArchiveInv, TypeOK
<1>2. flushed[l] # 0 => Recent(l, flushed[l])
  BY DEF LinkInv
<1>3. CASE LoopDone
  <2>1. /\ pc = "loop" /\ pc' = "end" /\ st[l] \in {"none", "done"} /\ lock
        /\ UNCHANGED <<flushed, file, whole, cut, asof, mode, st, lock, lost, newlst>>
    BY <1>3 DEF LoopDone, EndFrame, Order, disk, lists
  <2> QED
    BY <1>1, <1>2, <2>1 DEF LinkInv, InLoop, Left, Recent, Sound, Complete, Before,
       Opened, Over
<1>4. CASE Abort
  <2>1. /\ pc = "loop" /\ pc' \in {"end", "close"} /\ lock /\ end' = "aborted"
        /\ UNCHANGED <<flushed, file, cut, asof, lock>>
        /\ whole'[l] = (whole[l] \/ (l \in Files /\ st[l] = "stored"))
    BY <1>4 DEF Abort, Order, session
  <2>2. Sound(l, flushed)'
    <3>1. st[l] \in {"none", "todo", "open", "stored", "done"}
      BY <1>1 DEF Stages
    <3>2. CASE st[l] \in {"none", "todo", "open"}
      BY <2>1, <3>2 DEF LinkInv, InLoop, Sound
    <3>3. CASE st[l] = "stored"
      BY <2>1, <3>3 DEF LinkInv, InLoop, Sound, Complete
    <3>4. CASE st[l] = "done"
      BY <2>1, <3>4 DEF LinkInv, InLoop, Sound, Complete
    <3> QED
      BY <3>1, <3>2, <3>3, <3>4
  <2>3. Recent(l, flushed[l])' <=> Recent(l, flushed[l])
    BY <2>1 DEF Recent
  <2> QED
    BY <1>2, <2>1, <2>2, <2>3 DEF LinkInv, Before, Opened, Over
<1>5. CASE NothingTransferred \/ ToPurge \/ PurgeDone \/ Close
  <2>1. /\ pc \in Over /\ pc' \in Over /\ pc # "unlock"
        /\ end' \in {"running", "finished"} => end \in {"running", "finished"}
        /\ UNCHANGED <<flushed, file, whole, cut, asof, mode, st, lock, lost, newlst>>
    BY <1>5 DEF NothingTransferred, ToPurge, PurgeDone, Close, EndFrame, Over, Order,
       disk, lists, session, history
  <2> QED
    BY <1>1, <1>2, <2>1 DEF LinkInv, Left, Recent, Sound, Complete, Before, Opened, Over
<1>6. ASSUME NEW k \in Links, Purge(k) PROVE LinkInv(l)'
  <2>1. /\ pc = "purge" /\ pc' = "purge" /\ k \notin newlst
        /\ file' = [file EXCEPT ![k] = 0]
        /\ UNCHANGED <<flushed, whole, cut, asof, mode, st, lock, lost, newlst, end>>
    BY <1>6 DEF Purge, Purgeable, lists, session, history
  <2>2. Recent(l, flushed[l])' <=> Recent(l, flushed[l])
    BY <2>1 DEF Recent
  <2>3. Sound(l, flushed)'
    BY <1>1, <2>1 DEF LinkInv, Sound, Complete, Over
  <2>4. Left(l) => Left(l)'
    BY <1>1, <2>1 DEF Left, Recent
  <2> QED
    BY <1>2, <2>1, <2>2, <2>3, <2>4 DEF LinkInv, Before, Opened, Over
<1>7. CASE Unlock
  <2>1. /\ pc = "unlock" /\ pc' = "idle"
        /\ UNCHANGED <<flushed, file, whole, cut, asof>>
    BY <1>7 DEF Unlock, EndFrame, disk
  <2> QED
    BY <1>1, <1>2, <2>1 DEF LinkInv, Recent, Sound, Complete, Before, Opened, Over
<1>8. CASE Crash
  <2>1. /\ pc' = "idle" /\ UNCHANGED <<flushed, file, whole, cut, asof, lock>>
    BY <1>8 DEF Crash, disk, history
  <2> QED
    BY <1>1, <1>2, <2>1 DEF LinkInv, Recent, Sound, Complete, Before, Opened, Over
<1>9. CASE Publish \/ UNCHANGED vars
  <2>1. UNCHANGED <<pc, flushed, file, whole, cut, asof, lock, mode, index, stop, st,
                    lost, newlst, end>>
    BY <1>9 DEF Publish, vars, disk, lists, session, history
  <2>2. Recent(l, flushed[l])' <=> Recent(l, flushed[l])
    BY <2>1 DEF Recent
  <2>3. Recent(l, index[l])' <=> Recent(l, index[l])
    BY <2>1 DEF Recent
  <2>4. Recent(l, file[l])' <=> Recent(l, file[l])
    BY <2>1 DEF Recent
  <2> QED
    BY <2>1, <2>2, <2>3, <2>4 DEF LinkInv, InLoop, Left, Sound, Complete
<1> QED
  BY <1>3, <1>4, <1>5, <1>6, <1>7, <1>8, <1>9

(* The steps of a session keep their order. *)
LEMMA OrderKept ==
  ASSUME ArchiveInv, Order, [Next]_vars
  PROVE  Order'
<1>1. /\ asof \in 1..MaxVersion /\ site \in 1..MaxVersion /\ mode \in {1, 2}
      /\ resumed \in BOOLEAN /\ lock \in BOOLEAN /\ stop \in BOOLEAN
      /\ MaxVersion \in Nat
  BY SiteAssumption DEF ArchiveInv, TypeOK
<1>2. CASE Start
  <2>1. mode' = 1 <=> resumed'
    <3>1. mode' = (IF ~lock /\ file[Root] # 0 THEN 2 ELSE 1)
      BY <1>2 DEF Start
    <3>2. resumed' = (lock \/ file[Root] = 0)
      BY <1>2 DEF Start
    <3>3. CASE ~lock /\ file[Root] # 0
      <4>1. mode' = 2 /\ resumed' = FALSE
        BY <3>1, <3>2, <3>3
      <4> QED
        BY <4>1
    <3>4. CASE ~(~lock /\ file[Root] # 0)
      <4>1. mode' = 1 /\ resumed' = TRUE
        BY <3>1, <3>2, <3>4
      <4> QED
        BY <4>1
    <3> QED
      BY <3>3, <3>4
  <2>2. /\ pc' = "keep" /\ stop' = FALSE /\ end' = "running"
        /\ UNCHANGED <<asof, site>>
    BY <1>2 DEF Start
  <2> QED
    BY <2>1, <2>2 DEF Order
<1>3. CASE Keep \/ Lock \/ RemoveOld \/ RenameNew \/ Repair \/ Unlink
  BY <1>3 DEF Keep, Lock, RemoveOld, RenameNew, Repair, Unlink, Order, Before, Opened,
     session, history
<1>4. CASE Open \/ Swap
  BY <1>4 DEF Open, Swap, Order, Before, Opened, history
<1>5. CASE Create
  BY <1>1, <1>5 DEF Create, Order, Before, Opened, session
<1>6. CASE Rotate
  BY <1>6 DEF Rotate, Order, Before, Opened, session, history
<1>7. CASE List
  <2>1. end = "running" /\ end' = end
    BY <1>7 DEF List, Order, Opened, history
  <2> QED
    BY <1>7, <2>1 DEF List, Order, Before, Opened, history
<1>8. CASE LinkStep
  <2>1. asof' <= site'
    <3>1. asof' = asof \/ asof' = 1
      BY <1>8 DEF LinkStep, RequestStop
    <3> QED
      BY <1>1, <1>8, <3>1 DEF LinkStep, LinkFrame, Order
  <2> QED
    BY <1>8, <2>1 DEF LinkStep, LinkFrame, Order, Before, Opened
<1>9. CASE LoopDone \/ PurgeDone \/ Unlock
  BY <1>9 DEF LoopDone, PurgeDone, Unlock, EndFrame, Order, Before, Opened
<1>10. CASE Abort \/ NothingTransferred \/ Close
  BY <1>10 DEF Abort, NothingTransferred, Close, Order, Before, Opened, session, history
<1>11. CASE ToPurge
  BY <1>11 DEF ToPurge, EndFrame, Order, Before, Opened
<1>12. ASSUME NEW l \in Links, Purge(l) PROVE Order'
  BY <1>12 DEF Purge, Order, Before, Opened, session, history
<1>13. CASE Crash
  BY <1>13 DEF Crash, Order, Before, Opened, session, history
<1>14. CASE Publish \/ UNCHANGED vars
  BY <1>1, <1>14 DEF Publish, vars, Order, Before, Opened, session, history
<1> QED
  BY <1>2, <1>3, <1>4, <1>5, <1>6, <1>7, <1>8, <1>9, <1>10, <1>11, <1>12, <1>13, <1>14
  DEF Next

(* What is known of the links holds of every session. *)
LEMMA LinksKept == Spec => [](ArchiveInv /\ Order /\ \A l \in Links : LinkInv(l))
<1> DEFINE Inv == Order /\ \A l \in Links : LinkInv(l)
<1>1. Init => Inv
  <2> SUFFICES ASSUME Init PROVE Inv
    OBVIOUS
  <2>1. Order
    BY DEF Init, Order, Before, Opened
  <2>2. ASSUME NEW l \in Links PROVE LinkInv(l)
    BY DEF Init, LinkInv, Sound, Nothing, Before, Opened, Over
  <2> QED
    BY <2>1, <2>2
<1>2. ArchiveInv /\ Inv /\ [Next]_vars => Inv'
  <2> SUFFICES ASSUME ArchiveInv, Inv, [Next]_vars PROVE Inv'
    OBVIOUS
  <2>1. Order'
    BY OrderKept
  <2>2. ASSUME NEW l \in Links PROVE LinkInv(l)'
    BY LoopLink, StartLink, EndLink DEF Next
  <2> QED
    BY <2>1, <2>2
<1> QED
  BY <1>1, <1>2, Archived, PTL DEF Spec

(* A session that was neither aborted nor stopped and lost no link leaves  *)
(* every link it found whole on disk, in a version at least as recent as   *)
(* the site was when it created its archive.                               *)
THEOREM LeftUpToDate == Spec => []UpToDate
<1>1. (ArchiveInv /\ Order /\ \A l \in Links : LinkInv(l)) => UpToDate
  BY DEF UpToDate, Finished, LinkInv, Left, Recent, Over
<1> QED
  BY <1>1, LinksKept, PTL

(* The purge removes the file of a link this session found only if the     *)
(* link was lost, never got to before an abort, or cut short by the disk.  *)
THEOREM FoundNotPurged == Spec => PurgeKeepsFound
<1> DEFINE Inv == ArchiveInv /\ Order /\ \A l \in Links : LinkInv(l)
           Kept == \A l \in Links : pc = "purge" /\ file[l] # 0 /\ file'[l] = 0 =>
                     \/ st[l] = "none" \/ end = "aborted" \/ l \in lost \/ l \in cut
<1>1. Inv /\ [Next]_vars => [Kept]_vars
  <2> SUFFICES ASSUME Inv, [Next]_vars, NEW l \in Links, pc = "purge",
                      file[l] # 0, file'[l] = 0
               PROVE  \/ st[l] = "none" \/ end = "aborted" \/ l \in lost \/ l \in cut
    OBVIOUS
  <2>1. PICK k \in Links : Purge(k)
    BY DEF Next, Start, Keep, Lock, RemoveOld, RenameNew, Open, Repair, Unlink, Swap,
       Create, Rotate, List, LinkStep, LoopDone, Abort, NothingTransferred, ToPurge,
       PurgeDone, Close, Unlock, Crash, Publish, EndFrame, vars, disk
  <2>2. k = l
    BY <2>1 DEF Purge, ArchiveInv, TypeOK
  <2>3. l \notin newlst
    BY <2>1, <2>2 DEF Purge, Purgeable
  <2>4. end \in {"finished", "aborted"}
    BY DEF Order
  <2> QED
    BY <2>3, <2>4 DEF LinkInv, Left, Over
<1> HIDE DEF Inv
<1>2. Spec => []Inv
  BY LinksKept DEF Inv
<1> QED
  BY <1>1, <1>2, PTL DEF Spec, PurgeKeepsFound

=============================================================================
