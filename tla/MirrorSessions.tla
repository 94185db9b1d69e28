--------------------------- MODULE MirrorSessions ---------------------------
(***************************************************************************)
(* The persistent state of one mirror over its successive sessions: the    *)
(* archives hts-cache/new.zip, old.zip and repair.zip, the lists new.lst   *)
(* and old.lst of the files written, hts-in_progress.lock and the files    *)
(* themselves, while the site changes and a session may crash between any  *)
(* two steps, be stopped, be aborted or lose links.                        *)
(*                                                                         *)
(* A session is hts_main2 (htscoremain.c), cache_init (htscache.c) and     *)
(* httpmirror (htscore.c).  What a link is worth is a version of the site: *)
(* 0 stands for nothing.  Two versions of a file differ in length, which   *)
(* is what cache_readex_new compares.                                      *)
(***************************************************************************)
EXTENDS Naturals, FiniteSetsExt

CONSTANTS
  Links,        \* the addresses of the site
  Root,         \* the address given by the user, an HTML page
  Files,        \* the links that are not HTML: saved straight to disk
  Changed,      \* Changed[v]: the links that version v of the site changes
  Outlinks,     \* Outlinks[v]: the links the root page names since version v
  MaxVersion,   \* bound on the versions of the site
  MaxSessions,  \* bound on the sessions
  Faults        \* what may go wrong: a subset of AllFaults

AllFaults == {"crash", "abort", "stop", "error", "full"}

ASSUME SiteAssumption ==
  /\ Root \in Links \ Files
  /\ Files \subseteq Links
  /\ MaxVersion \in Nat \ {0}
  /\ MaxSessions \in Nat
  /\ Changed \in [1..MaxVersion -> SUBSET Links]
  /\ Changed[1] = Links
  /\ Outlinks \in [1..MaxVersion -> SUBSET (Links \ {Root})]
  /\ Faults \subseteq AllFaults

Versions == 0..MaxVersion
Nothing == [l \in Links |-> 0]

(* The version of link l served while the site is at version v.            *)
Served(l, v) == Max({w \in 1..v : l \in Changed[w]})

(* An archive: the entries flushed to it, and whether its central          *)
(* directory has been written.                                             *)
Zip == [there : BOOLEAN, has : [Links -> Versions], closed : BOOLEAN]
NoZip == [there |-> FALSE, has |-> Nothing, closed |-> FALSE]

(* fsize(...) > 0: zipOpen creates an empty file, which the entries and    *)
(* the central directory fill.                                             *)
Sized(zip) == zip.there /\ (zip.closed \/ zip.has # Nothing)

VARIABLES
  newzip, oldzip, repairzip,  \* the archives of hts-cache/
  newlst, oldlst,             \* the names in new.lst and in old.lst
  lock,                       \* hts-in_progress.lock exists
  file,                       \* file[l]: the version of l on disk
  whole,                      \* whole[l]: its last bytes have been written
  site,                       \* the version of the site
  pc,                         \* the step the session is at
  mode,                       \* opt->cache: 1 prioritary, 2 to be validated
  index,                      \* cache.hashtable: the entries of old.zip
  st,                         \* st[l]: how far the session is with link l
  stop,                       \* opt->state.stop
  good,                       \* HTS_STAT.stat_files > 0
  sessions,                   \* the sessions started
  flushed,  \* history: the entries of the last session that opened an archive
  before,   \* history: what that session left whole when this one started
  lost,     \* history: links of this session that failed or were refused
  end,      \* history: how the loop was left
  cut,      \* history: files whose tail the disk refused
  resumed,  \* history: an interrupted session is being continued
  asof      \* history: the version of the site the archives may date from

archives == <<newzip, oldzip, repairzip>>
lists == <<newlst, oldlst>>
disk == <<file, whole>>
session == <<mode, index, st, stop, good>>
history == <<flushed, before, lost, end, cut, resumed, asof>>
vars == <<archives, lists, lock, disk, site, pc, session, sessions, history>>

Steps == {"idle", "keep", "lock", "remove", "rename", "open", "repair",
          "unlink", "swap", "create", "rotate", "list", "loop", "end",
          "purge", "close", "unlock"}
Stages == {"none", "todo", "open", "stored", "done"}

TypeOK ==
  /\ newzip \in Zip /\ oldzip \in Zip /\ repairzip \in Zip
  /\ newlst \in SUBSET Links /\ oldlst \in SUBSET Links
  /\ \A zip \in {newzip, oldzip, repairzip} : ~zip.there => zip = NoZip
  /\ pc \in {"loop", "end", "purge", "close"} => newzip.there
  /\ lock \in BOOLEAN
  /\ file \in [Links -> Versions] /\ whole \in [Links -> BOOLEAN]
  /\ site \in 1..MaxVersion
  /\ pc \in Steps /\ mode \in {1, 2}
  /\ index \in [Links -> Versions] /\ st \in [Links -> Stages]
  /\ stop \in BOOLEAN /\ good \in BOOLEAN
  /\ sessions \in 0..MaxSessions
  /\ flushed \in [Links -> Versions] /\ before \in SUBSET Links
  /\ lost \in SUBSET Links /\ cut \in SUBSET Files
  /\ end \in {"running", "finished", "nothing", "aborted"}
  /\ resumed \in BOOLEAN /\ asof \in 1..MaxVersion

Init ==
  /\ newzip = NoZip /\ oldzip = NoZip /\ repairzip = NoZip
  /\ newlst = {} /\ oldlst = {}
  /\ lock = FALSE
  /\ file = Nothing /\ whole = [l \in Links |-> FALSE]
  /\ site = 1
  /\ pc = "idle" /\ mode = 1 /\ index = Nothing
  /\ st = [l \in Links |-> "none"]
  /\ stop = FALSE /\ good = FALSE
  /\ sessions = 0
  /\ flushed = Nothing /\ before = {} /\ lost = {} /\ end = "running"
  /\ cut = {} /\ resumed = FALSE /\ asof = 1

-----------------------------------------------------------------------------
(* The start of a session: hts_main2.                                      *)

(* Mutant: nothing takes the place of a missing new.zip.                   *)
RecoveredNever == newzip

(* Without new.zip, old.zip takes its place.                               *)
Recovered == IF ~newzip.there /\ oldzip.there THEN oldzip ELSE newzip

(* Complete(l): the entry of l can be used without asking the server.      *)
Complete(l, entries) ==
  entries[l] # 0 /\ (l \in Files => whole[l] /\ file[l] = entries[l])

(* The recovery of new.zip, then the mode of the cache: prioritary after   *)
(* an interrupted session, to be validated once index.html has been made,  *)
(* the default otherwise.                                                  *)
Start ==
  /\ pc = "idle" /\ sessions < MaxSessions
  /\ newzip' = Recovered
  /\ oldzip' = IF ~newzip.there THEN NoZip ELSE oldzip
  /\ mode' = IF ~lock /\ file[Root] # 0 THEN 2 ELSE 1
  /\ pc' = "keep"
  /\ index' = Nothing /\ st' = [l \in Links |-> "none"]
  /\ stop' = FALSE /\ good' = FALSE
  /\ sessions' = sessions + 1
  /\ before' = IF newzip.there \/ oldzip.there
                 THEN {l \in Links : Complete(l, flushed)} ELSE {}
  /\ lost' = {} /\ end' = "running"
  /\ resumed' = (lock \/ file[Root] = 0)
  /\ UNCHANGED <<repairzip, lists, lock, disk, site, flushed, cut, asof>>

(* The caches of both generations after an interrupted session: sizes far  *)
(* apart stand for an empty new archive and an old one of several entries. *)
(* No code of this version creates new.dat.                                *)
DatPresent == FALSE
FarBehind(new, old) ==
  /\ new.there /\ old.there /\ new.has = Nothing
  /\ \E k, l \in Links : k # l /\ old.has[k] # 0 /\ old.has[l] # 0

Keep ==
  /\ pc = "keep" /\ pc' = "lock"
  /\ IF lock /\ DatPresent /\ FarBehind(newzip, oldzip)
       THEN newzip' = oldzip /\ oldzip' = NoZip
       ELSE UNCHANGED <<newzip, oldzip>>
  /\ UNCHANGED <<repairzip, lists, lock, disk, site, session, sessions,
                 history>>

Lock ==
  /\ pc = "lock" /\ pc' = "remove"
  /\ lock' = TRUE
  /\ UNCHANGED <<archives, lists, disk, site, session, sessions, history>>

-----------------------------------------------------------------------------
(* cache_init.                                                             *)

(* Remove old.zip when there is a new.zip to take its name.                *)
RemoveOld ==
  /\ pc = "remove"
  /\ IF newzip.there
       THEN oldzip' = NoZip /\ pc' = "rename"
       ELSE UNCHANGED oldzip /\ pc' = "open"
  /\ UNCHANGED <<newzip, repairzip, lists, lock, disk, site, session,
                 sessions, history>>

RenameNew ==
  /\ pc = "rename" /\ pc' = "open"
  /\ oldzip' = newzip /\ newzip' = NoZip
  /\ UNCHANGED <<repairzip, lists, lock, disk, site, session, sessions,
                 history>>

(* Mutant: old.zip is removed before it is repaired.                       *)
OpenUnlinking ==
  /\ pc = "open"
  /\ IF ~Sized(oldzip) THEN index' = Nothing /\ pc' = "create"
     ELSE IF oldzip.closed THEN index' = oldzip.has /\ pc' = "create"
     ELSE UNCHANGED index /\ pc' = "unlink"
  /\ UNCHANGED <<archives, lists, lock, disk, site, mode, st, stop, good,
                 sessions, history>>

(* unzOpen needs the central directory; an archive of a crashed session    *)
(* has none.                                                               *)
Open ==
  /\ pc = "open"
  /\ IF ~Sized(oldzip) THEN index' = Nothing /\ pc' = "create"
     ELSE IF oldzip.closed THEN index' = oldzip.has /\ pc' = "create"
     ELSE UNCHANGED index /\ pc' = "repair"
  /\ UNCHANGED <<archives, lists, lock, disk, site, mode, st, stop, good,
                 sessions, history>>

(* unzRepair: every entry of old.zip that was flushed, with a new central  *)
(* directory.                                                              *)
Repair ==
  /\ pc = "repair" /\ pc' = "unlink"
  /\ repairzip' = [oldzip EXCEPT !.closed = TRUE]
  /\ UNCHANGED <<newzip, oldzip, lists, lock, disk, site, session, sessions,
                 history>>

Unlink ==
  /\ pc = "unlink" /\ pc' = "swap"
  /\ oldzip' = NoZip
  /\ UNCHANGED <<newzip, repairzip, lists, lock, disk, site, session,
                 sessions, history>>

Swap ==
  /\ pc = "swap" /\ pc' = "create"
  /\ oldzip' = repairzip /\ repairzip' = NoZip /\ index' = repairzip.has
  /\ UNCHANGED <<newzip, lists, lock, disk, site, mode, st, stop, good,
                 sessions, history>>

(* Mutant: zipOpen fails, and its result is not tested.                    *)
CreateUnchecked ==
  /\ pc = "create" /\ pc' = "rotate"
  /\ flushed' = Nothing /\ asof' = IF resumed THEN asof ELSE site
  /\ UNCHANGED <<archives, lists, lock, disk, site, session, sessions, before,
                 lost, end, cut, resumed>>

(* zipOpen creates new.zip.                                                *)
Create ==
  /\ pc = "create" /\ pc' = "rotate"
  /\ newzip' = [there |-> TRUE, has |-> Nothing, closed |-> FALSE]
  /\ flushed' = Nothing
  /\ asof' = IF resumed THEN asof ELSE site
  /\ UNCHANGED <<oldzip, repairzip, lists, lock, disk, site, session,
                 sessions, before, lost, end, cut, resumed>>

(* Remove old.lst, rename new.lst.                                         *)
Rotate ==
  /\ pc = "rotate" /\ pc' = "list"
  /\ oldlst' = newlst /\ newlst' = {}
  /\ UNCHANGED <<archives, lock, disk, site, session, sessions, history>>

(* Open new.lst, and record the address given by the user.                 *)
List ==
  /\ pc = "list" /\ pc' = "loop"
  /\ newlst' = {}
  /\ st' = [st EXCEPT ![Root] = "todo"]
  /\ UNCHANGED <<archives, oldlst, lock, disk, site, mode, index, stop, good,
                 sessions, history>>

-----------------------------------------------------------------------------
(* The links of the session: back_add, back_wait, back_finalize and        *)
(* httpmirror, any number of links at a time.                              *)

(* Mutant: only a stop makes the previous archive prioritary.              *)
PrioritaryWhenStopped == stop

Prioritary == mode = 1 \/ stop
IsUpdate == index # Nothing

(* back_finalize stores the entry of a good answer and flushes new.zip     *)
(* (cache_add); the session now counts a file.                             *)
Stored(l, v) ==
  /\ newzip' = [newzip EXCEPT !.has[l] = v]
  /\ flushed' = [flushed EXCEPT ![l] = v]
  /\ good' = TRUE

Noted(l) == newlst' = newlst \cup {l}
Stage(l, s) == st' = [st EXCEPT ![l] = s]

LinkFrame == UNCHANGED <<oldzip, repairzip, oldlst, lock, site, pc, mode,
                         index, sessions, before, end, resumed>>

(* Mutant: the length of the file on disk is not compared.                 *)
ReadsEntryOnly(l) == index[l] # 0 /\ (l \in Files => file[l] # 0)

(* The file that cache_readex_new finds on disk is the one it recorded.    *)
ReadsFromCache(l) == Complete(l, index)

(* The answer is taken from the previous archive: at once, or after the    *)
(* server said 304.  A file already on disk is noted again.                *)
TakeFromCache(l) ==
  /\ ReadsFromCache(l)
  /\ Stored(l, index[l])
  /\ IF l \in Files THEN Noted(l) /\ Stage(l, "done")
                    ELSE Stage(l, "stored") /\ UNCHANGED newlst
  /\ UNCHANGED <<disk, lost, stop>>

ReadAtOnce(l) ==
  /\ st[l] = "todo" /\ Prioritary
  /\ TakeFromCache(l)

(* A conditional request needs a readable entry and, for a file, a file on *)
(* disk whatever its length.                                               *)
Conditional(l) ==
  /\ ~Prioritary /\ index[l] # 0 /\ (l \in Files => file[l] # 0)

NotModified(l) ==
  /\ st[l] = "todo" /\ Conditional(l) /\ index[l] = Served(l, site)
  /\ TakeFromCache(l)

(* 304, but the file has not the length recorded: its presence is enough.  *)
(* It is neither stored (is_file) nor noted.                               *)
Guessed(l) ==
  /\ st[l] = "todo" /\ Conditional(l) /\ index[l] = Served(l, site)
  /\ ~ReadsFromCache(l)
  /\ good' = TRUE /\ Stage(l, "done")
  /\ UNCHANGED <<newzip, newlst, disk, flushed, lost, stop>>

(* A file on disk that the archive does not know: If-Unmodified-Since and  *)
(* Range.                                                                  *)
OnDiskOnly(l) == l \in Files /\ index[l] = 0 /\ file[l] # 0 /\ ~stop

(* Mutant: a complete file is not noted.                                   *)
AlreadyCompleteUnnoted(l) ==
  /\ st[l] = "todo" /\ OnDiskOnly(l)
  /\ file[l] = Served(l, site) /\ whole[l]
  /\ good' = TRUE /\ Stage(l, "done")
  /\ UNCHANGED <<newzip, newlst, disk, flushed, lost, stop>>

(* 416 with the length of the file: it was complete; noted, not stored.    *)
AlreadyComplete(l) ==
  /\ st[l] = "todo" /\ OnDiskOnly(l)
  /\ file[l] = Served(l, site) /\ whole[l]
  /\ Noted(l) /\ good' = TRUE /\ Stage(l, "done")
  /\ UNCHANGED <<newzip, disk, flushed, lost, stop>>

(* 206: the rest is appended.                                              *)
Resume(l) ==
  /\ st[l] = "todo" /\ OnDiskOnly(l)
  /\ file[l] = Served(l, site) /\ ~whole[l]
  /\ Noted(l) /\ Stage(l, "open")
  /\ UNCHANGED <<newzip, disk, flushed, lost, good, stop>>

(* 412: the partial file is removed and the same link recorded again.      *)
Reget(l) ==
  /\ st[l] = "todo" /\ OnDiskOnly(l) /\ file[l] # Served(l, site)
  /\ file' = [file EXCEPT ![l] = 0]
  /\ UNCHANGED <<newzip, newlst, whole, flushed, lost, good, st, stop>>

(* The link is sent whole: nothing usable is known of it, or the server    *)
(* has a newer version.                                                    *)
Transfers(l) ==
  /\ ~stop /\ ~OnDiskOnly(l)
  /\ ~(Prioritary /\ ReadsFromCache(l))
  /\ Conditional(l) => index[l] # Served(l, site)

(* A file is created, truncated, noted and written as it comes.            *)
FetchFile(l) ==
  /\ st[l] = "todo" /\ l \in Files /\ Transfers(l)
  /\ file' = [file EXCEPT ![l] = Served(l, site)]
  /\ whole' = [whole EXCEPT ![l] = FALSE]
  /\ cut' = cut \ {l}
  /\ Noted(l) /\ Stage(l, "open")
  /\ UNCHANGED <<newzip, flushed, lost, good, stop>>

(* A page stays in memory until it is stored.                              *)
FetchPage(l) ==
  /\ st[l] = "todo" /\ l \notin Files /\ Transfers(l)
  /\ Stored(l, Served(l, site)) /\ Stage(l, "stored")
  /\ UNCHANGED <<newlst, disk, lost, stop>>

(* The body of a file ended: the entry is stored while the tail of the     *)
(* file is still in the buffer of its stream.                              *)
Arrived(l) ==
  /\ st[l] = "open"
  /\ Stored(l, file[l]) /\ Stage(l, "stored")
  /\ UNCHANGED <<newlst, disk, lost, stop>>

(* back_flush_output closes the stream.                                    *)
Flush(l) ==
  /\ st[l] = "stored" /\ l \in Files
  /\ whole' = [whole EXCEPT ![l] = TRUE] /\ Stage(l, "done")
  /\ UNCHANGED <<newzip, newlst, file, flushed, lost, good, stop>>

(* The result of its fclose is ignored: the tail may not fit on the disk.  *)
FlushCut(l) ==
  /\ "full" \in Faults /\ st[l] = "stored" /\ l \in Files
  /\ cut' = cut \cup {l} /\ Stage(l, "done")
  /\ UNCHANGED <<newzip, newlst, disk, flushed, lost, good, stop>>

(* The links of a page are recorded, then the page is saved.               *)
Save(l) ==
  /\ st[l] = "stored" /\ l \notin Files
  /\ file' = [file EXCEPT ![l] = newzip.has[l]]
  /\ whole' = [whole EXCEPT ![l] = TRUE]
  /\ Noted(l)
  /\ st' = [m \in Links |->
              IF m = l THEN "done"
              ELSE IF l = Root /\ st[m] = "none"
                        /\ m \in Outlinks[newzip.has[l]]
                THEN "todo" ELSE st[m]]
  /\ UNCHANGED <<newzip, flushed, lost, good, stop>>

(* A stop request refuses what the archive cannot give.                    *)
Refused(l) ==
  /\ st[l] = "todo" /\ stop /\ ~(IsUpdate /\ ReadsFromCache(l))
  /\ Stage(l, "done") /\ lost' = lost \cup {l}
  /\ UNCHANGED <<newzip, newlst, disk, flushed, good, stop>>

(* No answer, or not its end: nothing is stored.                           *)
Fails(l) ==
  /\ "error" \in Faults
  /\ \/ st[l] = "todo" /\ ~stop /\ ~(Prioritary /\ ReadsFromCache(l))
     \/ st[l] = "open"
  /\ Stage(l, "done") /\ lost' = lost \cup {l}
  /\ UNCHANGED <<newzip, newlst, disk, flushed, good, stop>>

(* From now on the archive is prioritary: what it gives is of any age.     *)
RequestStop ==
  /\ "stop" \in Faults /\ ~stop /\ stop' = TRUE /\ asof' = 1
  /\ UNCHANGED <<cut, newzip, newlst, disk, flushed, lost, good, st>>

Answer(l) ==
  \/ ReadAtOnce(l) \/ NotModified(l) \/ Guessed(l)
  \/ AlreadyComplete(l) \/ Resume(l) \/ Reget(l)
  \/ FetchPage(l) \/ Arrived(l) \/ Flush(l) \/ Save(l)
  \/ Refused(l) \/ Fails(l)

LinkStep ==
  /\ pc = "loop" /\ LinkFrame
  /\ \/ RequestStop
     \/ /\ UNCHANGED asof
        /\ \E l \in Links :
          \/ FetchFile(l)
          \/ FlushCut(l)
          \/ UNCHANGED cut /\ Answer(l)

-----------------------------------------------------------------------------
(* The end of a session: httpmirror, then hts_main2.                       *)

EndFrame == UNCHANGED <<archives, lists, disk, site, mode, index, stop, good,
                        sessions, flushed, before, lost, cut, resumed, asof>>

LoopDone ==
  /\ pc = "loop" /\ pc' = "end"
  /\ \A l \in Links : st[l] \in {"none", "done"}
  /\ UNCHANGED <<lock, st, end>> /\ EndFrame

(* An abort seen while waiting for a link leaves the loop as if it were    *)
(* over; seen while parsing, it leaves httpmirror.  The slots still open   *)
(* are closed by back_delete_all.                                          *)
Abort ==
  /\ "abort" \in Faults /\ pc = "loop"
  /\ pc' \in {"end", "close"} /\ end' = "aborted"
  /\ whole' = [l \in Links |-> whole[l] \/ (l \in Files /\ st[l] = "stored")]
  /\ UNCHANGED <<archives, lists, lock, file, site, session, sessions,
                 flushed, before, lost, cut, resumed, asof>>

(* "No data seems to have been transferred during this session! :          *)
(* restoring previous one!" restores only caches of the former format.     *)
NothingTransferred ==
  /\ pc = "end" /\ ~good
  /\ pc' = "unlock" /\ end' = "nothing"
  /\ newzip' = [newzip EXCEPT !.closed = TRUE]
  /\ UNCHANGED <<oldzip, repairzip, lists, lock, disk, site, session,
                 sessions, flushed, before, lost, cut, resumed, asof>>

(* Some data was received, were it only error pages.                       *)
ToPurge ==
  /\ pc = "end" /\ pc' = "purge"
  /\ end' = IF end = "running" THEN "finished" ELSE end
  /\ UNCHANGED <<lock, st>> /\ EndFrame

(* Each name of old.lst that new.lst does not hold.                        *)
Purgeable(l) == l \in oldlst \ newlst /\ file[l] # 0

Purge(l) ==
  /\ pc = "purge" /\ Purgeable(l)
  /\ file' = [file EXCEPT ![l] = 0]
  /\ UNCHANGED <<archives, lists, lock, whole, site, pc, session, sessions,
                 history>>

(* The names are searched in a buffer that nothing terminates: a name may  *)
(* be found past its end and its file kept.                                *)
PurgeDone ==
  /\ pc = "purge" /\ pc' = "close"
  /\ UNCHANGED <<lock, st, end>> /\ EndFrame

(* zipClose writes the central directory.                                  *)
Close ==
  /\ pc = "close" /\ pc' = "unlock"
  /\ newzip' = [newzip EXCEPT !.closed = TRUE]
  /\ UNCHANGED <<oldzip, repairzip, lists, lock, disk, site, session,
                 sessions, history>>

Unlock ==
  /\ pc = "unlock" /\ pc' = "idle"
  /\ lock' = FALSE
  /\ UNCHANGED <<st, end>> /\ EndFrame

(* The process dies: the tails of the open files are lost.                 *)
Crash ==
  /\ "crash" \in Faults /\ pc # "idle" /\ pc' = "idle"
  /\ UNCHANGED <<archives, lists, lock, disk, site, session, sessions,
                 history>>

(* External: the owner of the site publishes another version.              *)
Publish ==
  /\ site < MaxVersion /\ site' = site + 1
  /\ UNCHANGED <<archives, lists, lock, disk, pc, session, sessions, history>>

Next ==
  \/ Start \/ Keep \/ Lock \/ RemoveOld \/ RenameNew \/ Open \/ Repair
  \/ Unlink \/ Swap \/ Create \/ Rotate \/ List
  \/ LinkStep
  \/ LoopDone \/ Abort \/ NothingTransferred \/ ToPurge
  \/ (\E l \in Links : Purge(l)) \/ PurgeDone \/ Close \/ Unlock
  \/ Crash \/ Publish

Spec == Init /\ [][Next]_vars

-----------------------------------------------------------------------------
(* Properties.                                                             *)

(* Whatever crashes, the archive the next session will load, or the one    *)
(* being repaired, holds exactly the entries flushed by the last session   *)
(* that opened an archive (htscache.c, cache_init and the comment of       *)
(* cache_add: "we'll be able to recover the whole ZIP file").              *)
NextLoaded == IF newzip.there THEN newzip
              ELSE IF oldzip.there THEN oldzip ELSE repairzip
EntriesSurvive == NextLoaded.has = flushed

(* What a session left whole before it was interrupted is not downloaded   *)
(* again by the one that continues it (cache prioritary, htscoremain.c).   *)
Downloads(l) == st[l] = "todo" /\ st'[l] \in {"open", "stored"}
                  /\ ~(index[l] # 0 /\ newzip'.has[l] = index[l])
NotFetchedAgain ==
  [][\A l \in before : Downloads(l) => mode = 2]_vars

(* A session that was neither aborted nor stopped and lost no link leaves  *)
(* every link it found whole on disk (but for what the disk refused), in a *)
(* version at least as recent as the site was when it, or the interrupted  *)
(* session it continues, created its archive.                              *)
Finished == pc = "unlock" /\ end = "finished" /\ ~stop /\ lost = {}
UpToDate ==
  Finished => \A l \in Links :
    st[l] = "done" /\ l \notin cut => whole[l] /\ file[l] >= Served(l, asof)

(* The purge (htscore.c) removes the file of a link this session found     *)
(* only if the link was lost to an error, or never got to before an abort; *)
(* a stop alone removes nothing the previous archive can give.  The one    *)
(* exception: a file cut short by the disk, accepted after a 304 without   *)
(* being noted.                                                            *)
PurgeKeepsFound ==
  [][\A l \in Links :
       pc = "purge" /\ file[l] # 0 /\ file'[l] = 0 =>
         \/ st[l] = "none" \/ end = "aborted" \/ l \in lost \/ l \in cut]_vars

(* The code says of a session that transferred nothing: "just backup old   *)
(* cache and restore everything" (htscore.c).                              *)
PreviousRestored ==
  pc = "unlock" /\ end = "nothing" => newzip.has = index

=============================================================================
