# HTTrack in TLA+

This directory models HTTrack as it is kept in ToolSuite
(`src/httrack_x64/httrack/src`), model-checks it with TLC on small instances and
proves its main invariants with TLAPS for every instance. Paths below are
relative to that directory unless they begin with `src/`.

## 1. The system

ToolSuite bundles tools for Windows. The only program in it with source code of
its own weight is HTTrack, a website copier: a library (the *engine*), a
command line (`httrack.c`), a web interface (`htsserver.c`, `htsweb.c`), a
Windows interface (`src_win`, MFC), a proxy over finished mirrors (`proxy/`).
The rest are batch files that start tools, and prebuilt binaries.

| Component | Code | State it keeps | Operations | Modelled in |
|---|---|---|---|---|
| Background download pool | `htsback.c` | slots (`struct_back.lnk`), answers swapped to disk (`struct_back.ready`), the connections in them | `back_add`, `back_wait`, `back_clean`, `back_finalize`, `back_delete`, `back_maydelete`, `back_trylive` | `BackSlots`, `HttpReceive` |
| Waiting for a link, or for its type | `htsparse.c` | the index of the slot in hand, the link in hand | `hts_mirror_wait_for_next_file`, `hts_wait_delayed`, `hts_mirror_check_moved` | `BackSlots`, `MirrorLoop`, `LinkScope` |
| Mirror engine | `htscore.c` | the heap of links (`pass2`, `retry`, `depth`, `premier`), the position `ptr`, the pass, `cache.ptr_ant` | `httpmirror`, `back_fill`, `host_ban`, `hts_request_stop`, the purge | `MirrorLoop`, `LinkScope`, `MirrorSessions`, `BackSlots` |
| FTP transfers | `htsftp.c` | one thread per transfer, the slot it was given | `launch_ftp`, `run_launch_ftp` | `BackSlots` |
| Threads and mutexes | `htsthread.c` | `process_chain`, mutexes created on first use | `hts_newthread`, `htsthread_wait_n`, `hts_mutexlock` | `WebServer` |
| Cache of a previous mirror | `htscache.c`, `minizip/mztools.c` | the archives `new.zip`, `old.zip`, `repair.zip` | `cache_init`, `cache_add`, `cache_readex`, `unzRepair` | `MirrorSessions` |
| Options and sessions | `htscoremain.c` | `hts-in_progress.lock`, the mode of the cache | recovery, lock, unlock | `MirrorSessions` |
| Robots, filters, wizard | `htsrobots.c`, `htsfilters.c`, `htswizard.c` | rules per host, filters of the user and of his answers | `checkrobots`, `fa_strjoker`, `hts_acceptlink_` | `LinkScope` |
| Cuckoo hash table | `coucal/coucal.c` | positions, stash, pool of strings | `coucal_write`, `coucal_read`, `coucal_inc`, `coucal_remove`, enumeration | `Coucal` |
| HTTP and string library | `htslib.c`, `htstools.c` | sockets | `http_xfread1`, `treathead`, `lienrelatif` | `HttpReceive`, `LinkScope` (what these need) |
| Web interface | `htsserver.c`, `htsweb.c` | `commandRunning`, `commandEnd`, `commandEndRequested`, `global_opt`, `refreshMutex` | `smallserver`, `back_launch_cmd`, `client_ping` | `WebServer` |
| Save names, hash of the links | `htsname.c`, `htshash.c` | the names given | `url_savename`, `hash_write` | as "the last link with that name", in `MirrorLoop` |
| ProxyTrack | `proxy/` | an index over archived mirrors, loaded lazily | `proxytrack_process_HTTP` | no |
| Others | content handlers, character sets, vendored code, batch files | none that lasts | pure functions and I/O | no |

**How they interact.** The engine is one thread that goes through the heap of
links. For each link it makes sure that the pool has an entry (`back_add`), runs
the pool (`back_wait`) until the entry is finished, takes the answer, frees the
slot, parses it, asks the wizard about each link it finds and records those it
accepts. While it waits it fills the pool ahead (`back_fill`). For a link whose
file name depends on the content type it first fetches the headers under a
temporary ("delayed") name (`hts_wait_delayed`), then renames the slot. Every
finished answer goes to the archive of the session, and may come from the
archive of the previous one. Beside the engine run an FTP thread per FTP
transfer, which writes its result into the slot it was given; the user
interface, which sets flags (stop, cancel, pause) from its own thread or from a
callback; and, for the web interface, the server thread that starts mirrors and
the thread that watches the browser.

**What is hard.** Every call of the pool starts with `back_clean`, which
finalizes, frees, parks and swaps out slots *other* than the caller's, so that
any slot index held across a call may be stale. Connections move between slots
(keep-alive), so that they can be leaked, shared or closed twice, and one that
is parked must not hold bytes of the previous answer. The final name of a file
is known after its transfer has begun. A thread writes into a slot at a moment
of its own choice. Sessions crash between any two of the renames that turn the
archive of one into the cache of the next. Servers cut, lie about or change
what is being continued. The user stops, cancels, answers or pauses at any time.

**What makes each part correct.** *Pool:* every connection belongs to one slot;
a slot in hand stays that of its link; a link has one entry; nothing is lost
between the arrival of an answer and its delivery. *Reception:* only what is
whole is stored as complete; what is on disk can be continued; every transfer
ends. *Heap and passes:* each link is handled once, in the right pass. *Scope:*
a mirror stays where it was told to stay, whatever redirections and answers
combine. *Sessions:* no entry is lost, a finished session leaves the mirror up
to date, and the purge removes only what is gone. *Table:* it is a map. *Web
interface:* one mirror at a time, and its end is announced after it.
`PROJECT.json` lists the hazards one by one, each at the line where it bites,
with the properties that cover it.

## 2. Modules

| Module | Models | Kind |
|---|---|---|
| `Downloads` | what the pool promises the engine, per link | abstract specification |
| `BackSlots` | `htsback.c` under its callers in `htscore.c` and `htsparse.c` and beside the FTP threads | detailed specification, implements `Downloads` |
| `HttpReceive` | one slot while it receives one answer, byte by byte | detailed specification |
| `MirrorLoop` | the main loop of `httpmirror`: the heap, its two passes, the links fetched ahead (`back_fill`) | detailed specification, over what the pool promises |
| `LinkScope` | which links are recorded: wizard, filters, robots, redirections, depths | detailed specification |
| `MirrorSessions` | what survives a session: archives, lists of files, lock, files | detailed specification, with crashes |
| `KeyMap` | what a table promises: a map and the answers of its calls | abstract specification |
| `Coucal` | `coucal.c`: cuckoo hashing, stash, growth, pool of strings, enumeration | detailed specification, implements `KeyMap` |
| `WebServer` | the threads of the web interface and the flags they share | detailed specification |
| `Greatest` | the greatest and the least of some numbers exist | lemmas |
| `..._proofs` | theorems about the module named | proofs |
| `MC...` | the constants TLC uses | model checking |

Definitions with a comment "Fault:" or "Mutant:" are ways the code could
plausibly be wrong; no specification uses them.

The modules are views of one engine at different grains. `BackSlots` has every
step of the pool but no order among the links: its `BeginFetch` takes any link
that is recorded, so that it covers every order; an answer arrives there in one
step, which `HttpReceive` opens. `MirrorLoop` has the order, and of the pool only
what `Downloads` promises. `LinkScope` says which links the parsing of a page
appends, and `MirrorSessions` leaves both out and follows, per link, what
reaches the disk.

### 2.1 `BackSlots`: state and code

| Variable | Code |
|---|---|
| `slot` | `sback->lnk[]`, type `lien_back` (`htsopt.h:557`) |
| `slot[q].st` | `status`: the values above 0 are the steps of a transfer, `ready` is `STATUS_READY`, `alive` is `STATUS_ALIVE` (an idle connection), `free` is `STATUS_FREE` |
| `.kind` | the class of `url_sav`: delayed, guessed from the URL, or final |
| `.code` | the class of `r.statuscode` |
| `.soc`, `.ka`, `.host` | `r.soc`, `r.keep_alive`, `url_adr` |
| `.out` | `r.out`/`r.is_write`: the class of the name under which the output file was created |
| `.final`, `.locked`, `.early` | `finalized`, `locked`, `early_add` |
| `open` | the descriptors of the process |
| `stored`, `ghost` | `sback->ready`: keys with their file, and keys whose file was lost on reading |
| `ftp` | FTP threads, each with the slot and link it was given |
| `lk` | the heap: `pass2`, and what became of the link |
| `tries` | `heap(i)->retry` |
| `cached` | the links whose body `back_finalize` gave to the cache |
| `call` | which function of the pool is running and how far its loops are |
| `eng` | what the engine does, for which link and slot |
| `budget` | `n` in `back_fill` |
| `stop` | `opt->state.stop` |

The engine is sequential: while `call.at # "idle"` only the call goes on (and
the threads and the user's flags). The four loops of `back_clean` are four
places (`sweep`, `park`, `trim`, `store`) with one step per slot, so that a
thread may step between any two slots. `back_wait` then handles any number of
events of the sockets (`net`) before it returns; `back_add` fills a slot
(`fill`). The callers are the modes of `eng`: `main`, `begin`, `fetch` (waiting
for the current link), `type`, `retype`, `hold`, `record` (waiting for a type),
`panic`, `end`. When no slot is left for the type of a link, the mirror gives up
(`panic`); this needs a disk that refuses to take an answer out of the pool.

What is abstracted: bytes (an answer is its class), time (a time out may happen
to any transfer under way, a kept connection may always be too old), the order
of the heap, the options that only change what is written.

### 2.2 `Downloads`: the promise

Per link, `xfer` (nothing, a transfer, an answer kept) and `fate` (wanted, or
how it was settled). The promise: an answer that has arrived stays until the
engine takes it or its file is written, and a settled link is never fetched
again (within one pass). `BackSlots` implements it under the mapping at its end
(`D`): the entry of a link, in a slot or swapped to disk, is its transfer, and
`lk` gives its fate. Retries map to `Take` with the fate still open; the ban of a
host to `Drop`. The mapping is checked, and proved, where the disk does not fail:
an entry that cannot be read back breaks the promise (the link is then skipped as
if it had been downloaded, `htsparse.c:4240`), and nothing else does
(`OnlyThawBreaks`).

### 2.3 `HttpReceive`: state and code

`x` is the exchange: what is asked (`get`, a conditional request, the rest of a
file, `HEAD`, a test by `GET`), what is on disk, and what the server sends, a
sequence of tokens (`wire`) for bytes and whole lines. `peer` and `cut` say how
the server behaves, `file` is the file on disk, `slot` the fields of `lien_back`
and `htsblk` that the reception uses: `status` 99 (`headers`), 1 (`body`), 98
(`size`) and 97 (`crlf`), `r.size`, `r.totalsize`, `chunk_blocksize`,
`r.is_write`, `r.adr`, `finalized`, and what was given to the cache (`entry`,
`kept`). What an honest server sends is said of the exchange alone (`Honest`): the
headers, and behind them the bytes it has to send, all at once or chunk by chunk
(`AreChunks`), as many as its headers announce.

`HeadStep` is the end of the headers in `back_wait` (`htsback.c:3480-3860`): 100,
304, 416, 412, 206, tests, limits of size, empty bodies. `BodyStep` is one call
of `http_xfread1` and what `back_wait` does with its result; `Ends` is the end of
a reception with the order the code has: the connection is given back first, the
answer finalized second, its length compared last. A negative length passed to
`http_xfread1` by a chunked 206 stands for "reserve" or "read a line" there
(`Reserve`, `ReadLineInstead`): that is the second finding. Not modelled: compressed bodies,
pages continued by 206 (`ExchangesAssumption`), the tolerance for wrong lengths
(`opt->tolerant`), the removal of the old file, proxies.

### 2.4 `MirrorLoop`: state and code

| Variable | Code |
|---|---|
| `heap` | `opt->liens`: of each link the file it is saved under (`sav`), `pass2`, `retry` |
| `ptr`, `pass` | `ptr` and `numero_passe` of `httpmirror` |
| `imagesLast` | `opt->getmode & 4` |
| `ant`, `last` | `cache->ptr_ant`, `cache->ptr_last` |
| `entry` | per file: no entry in the pool, a transfer, an answer, or a file complete on the disk |
| `got` | the links whose answer the engine has taken |
| `at` | where the loop is: its head, the call that adds the link, the wait, the parsing, `jump_if_done`, the end |

`Skip` is the loop over done links at the head, `Advance` the three loops at
`jump_if_done`, both in one step: nothing else runs meanwhile. `Fill` is the
whole of `back_fill`; how many links it may add is left open between one and
what `maxsoc` leaves. `Retry`, `Again`, `Moved` and `Ban` are the error paths of
`hts_mirror_check_moved`. `Record` may give a new link an entry at once, since
its type may have been awaited. Several links may have the same file: a link
recorded again keeps its name, and `back_clean` marks the last one (`Leads`),
as `hash_write` replaces the older. The robots files, which have no name and are
never fetched ahead, and the statistics are left out. `MaxLinks` is
`opt->maxlink`: where it is reached, parsing ends the mirror.

### 2.5 `LinkScope`: state and code

| Variable | Code |
|---|---|
| `opt` | `seeker`, `travel`, `robots`, `nearlink`, `extdepth`, `getmode`, `wizard`, the filters of the user |
| `heap`, `ptr` | `opt->liens` with `depth`, `premier`, `precedent`; the current link |
| `todo`, `reading` | the links `htsparse` has still to read in the page at `ptr` |
| `filters`, `wizard` | what the answers of the user change |
| `rules` | `robots`: what the robots.txt of a host forbids, once it is read |
| `refusals` | history: what the user refused for good |

`Ask` is the whole of `hts_acceptlink_` (`htswizard.c:121-864`) as one operator:
what is never taken (`Unwanted`), the position of the link (`Inside`, `Outside`),
the exception for files near a page (`Beside`), the filters (`Ruling`: the last
that matches decides), the question, the robots rules, and the effects of the
answer. `Link` asks it for a link of the page, and once more if the server
redirects the link while its type is awaited (`hts_wait_delayed`,
`htsparse.c:4590-4668`); `Recorded` is `htsparse.c:3040-3190`: a known link may be
raised, a new one gets its depth, the link it started from, and the robots.txt of
its host before it. `Moved` is the redirection of a link that is handled
(`htsparse.c:3395-3570`). Directories are compared only; a filter is the set of
addresses it matches.

Not modelled: the syntax of patterns, the mime filters, the test mode
(`travel & 256`), the `check_link` callback, collisions of save names, retries,
the second pass, the addresses a plugin adds (`hts_acceptlink` from
`htscore.c:3841` and `htsname.c:558`).

### 2.6 `MirrorSessions`: state and code

| Variable | Code |
|---|---|
| `newzip`, `oldzip`, `repairzip` | the archives of `hts-cache/`: their entries, and whether the central directory is written |
| `newlst`, `oldlst` | the names in `new.lst` and `old.lst` |
| `lock` | `hts-in_progress.lock` |
| `file`, `whole` | the version of a file on disk, and whether its tail was written |
| `site` | the version of the site (external) |
| `pc` | how far the session is: each rename, removal or creation is a step |
| `mode` | `opt->cache`: 1 prioritary, 2 to be validated |
| `index` | `cache.hashtable`: what can be read from `old.zip` |
| `st` | how far the session is with each link |
| `flushed`, `before`, `lost`, `end`, `cut`, `resumed`, `asof` | history, for the properties |

`Start` to `Lock` are `hts_main2`, `RemoveOld` to `Create` are `cache_init` with
the repair of an archive that lost its end, `Rotate` and `List` open the lists,
`LinkStep` is the life of a link (read from the cache at once, after a 304,
guessed, continued by 206, found complete by 416, fetched again after 412,
fetched whole; stored, flushed, saved; refused after a stop, failed), and the
rest is the end of `httpmirror` and of `hts_main2`. A crash may come before any
step; the entries that `cache_add` flushed are then in the archive, its central
directory is not, and the tails of open files are lost. The former cache formats
(`.dat`, `.ndx`) are not modelled, since nothing in this version writes them.

### 2.7 `Coucal`, `KeyMap`

A call runs alone, so that only the placement of a new entry takes several steps
(`Place`, `Move`, `ToStash`, `Added`, `Merge`), one per entry moved, and the
refinement shows that none of them is visible. The strings of the keys are places
in the pool (`at`), which is enlarged, compacted and shrunk (`Expanded`,
`FreeName`). A relocation goes through the table and then the stash (`Walked`); where
it puts a string is the number of the bytes it has copied before (`Copied`). An enumeration (`EnumNew`, `EnumNext`) goes on while entries are read,
written over and removed; an addition ends it, because its effect is undefined
there. `Fail` stands for the assertions that end the program. Not modelled: the
handlers of a caller, the statistics, `coucal_delete`.

### 2.8 `WebServer`

Every access to `commandRunning`, `commandEnd`, `commandEndRequested` and
`global_opt`, which no lock protects, is a step of its own. The server accepts one
client at a time, takes `refreshMutex`, runs the command, chooses the page and
waits for the client to close. The thread of a mirror counts itself
(`process_chain`), runs the engine, which takes `refreshMutex` at each turn
(`ShowLoop`), waits for the threads it was told not to count, frees its options,
clears one flag and sets the other. Each mirror may have an FTP thread. The Unix
build is modelled, where `hts_newthread` creates a detached thread.

## 3. Runs

| Run | Instance | States | What it shows |
|---|---|---|---|
| `pool_promise` | 2 links on 3 slots, one untyped, one written in the background; one retry, bans | 1.9 M | `Downloads` is implemented; the held slot stays; names come from headers |
| `pool_mix` | 3 links: http known to the cache, https on disk, ftp on another host; 3 slots; bans, cancels, stops | 3.6 M | ownership of connections, limits, FTP threads, what "skipped", "cached" and "written" mean |
| `pool_live` | 2 links, one untyped, on a single slot, one retry, a disk that may fail, fair | 0.27 M | a link never has two entries; every link is settled |
| `mirror_loop` | up to 5 links of 2 hosts, 2 fetched ahead, one retry, one pass or two | 2.8 M | no link is forgotten; with one pass none is fetched twice and the scan ahead leaves none behind; images come last |
| `link_scope` | 8 addresses on 2 hosts, 10 sets of options, 3 robots.txt, 8 answers, a heap of 9 | 0.5 M | a plain mirror stays below; robots come first; answers stand; the first way found to a page is a shortest one |
| `mirror_sessions` | 4 sessions over 2 versions of a site of 3 links, crashes, aborts, stops, errors, a full disk | 2.3 M | no entry is lost; a finished session is up to date; nothing whole is fetched again; the purge spares what was found |
| `http_receive` | a body of 3 bytes in every framing, asked in every way, honest and lying servers, 9 faults | 25 k | only whole bodies are stored; kept connections are in step; what is on disk can be continued; every transfer ends |
| `coucal` | 6 keys that collide, tables of 4 to 16 positions, a stash of 2, a pool of 4 to 8 bytes | 49 k | the table implements `KeyMap`; every entry is where it is looked for; strings and enumerations are sound |
| `web_server` | 2 mirrors, an FTP thread each, the pinger | 0.44 M | one mirror at a time; its end is shown after it; requests are served; mirrors end |

Runs that expect a violation, one per finding: `thread_outlives_slot`,
`nothing_restored`, `range_chunked`.

`coucal` uses symmetry between the four keys that have the same hashes; its
properties are safety only. The runs whose cfg says `CHECK_DEADLOCK FALSE` are those of programs that
stop: a mirror ends, a session is the last one, a slot is given back, an
assertion ends the process, the server exits.

**Bounds.** *Pool:* `BackMax` slots (the code has `maxsoc * 32 + 1024`,
`htscore.c:847`; from `MaxSoc + 2` on, which is 3 here, the theorems of section 4 need no more),
`MaxSoc` = 1 connection, `Retries` 0 or 1. With three slots the engine's slot, a
transfer ahead and an idle connection exist together, and the pool can be full;
with one, two links compete for it. `FillReserve` is the reserve of 8 slots that
`back_pluggable_sockets` keeps. `OneMore` is 0: the additional connection only
loosens a limit. *Loop:* five links are the primary one, a link of each pass, one
recorded again, and one more ahead of it. *Scope:* a page has at most two links
and the heap at most nine entries; the addresses are a start page, a page and a
file below it, a page above, and four on another host, so that every position,
every redirection between them and every exception to the rules occurs.
*Sessions:* four sessions are one that is interrupted, one that continues it and
is itself interrupted, one that finishes and one that updates; two versions are
enough for a file to be stale. *Reception:* three bytes are a chunk of one and a
chunk of two, or one on disk and two to come. *Table:* the hashes are chosen so
that all keys share their first position and four of them both, which fills the
stash and makes it overflow; 16 positions are two doublings.
*Web server:* two mirrors are one that ends while the next starts. No counter
grows: every bound is a constant of the code or one named in the module.

**Fairness.** `pool_live`: `WF(CallStep)`, a call of the pool is sequential code
whose loops end; `SF(EngineTurn)`, the loops of the engine are sequential too,
strong because a pause or a fill may come between two turns; `SF(TransferEnds)`,
every socket that is polled is in the end readable, in error or timed out
(`back_wait` compares each with `timeout` and `rateout`), strong because it is
polled only in `back_wait`; `WF(FtpThreadEnds)`, the FTP dialogue has time outs of
its own. `http_receive`: `WF(Turn)`, the engine calls `back_wait` again and again,
and the time outs are part of the turn; nothing is asked of the server.
`web_server`: threads are scheduled (weak), a client closes its connection in the
end (weak: the server reads until then, without a time out), the engine of a
mirror ends (strong: it shares the mutex). The user is never fair.

**What the liveness properties say.** `EveryLinkSettles`: a link on the heap is
in the end taken, written, skipped, failed or banned, unless the mirror gave up.
It is checked with one slot and two links; three links on two slots exceed what
TLC can do in minutes. `EveryTransferEnds`: the slot is given back whatever the
server does. `RequestServed`: the server always gets `refreshMutex`. `MirrorOver`
holds for a mirror that waits *after* it was counted: one that ends before
`background_threads++` (`htsweb.c:377`) waits for itself, see below.

## 4. What is proved

Each theorem holds for every value of the constants allowed by the assumptions
named in the module: `PoolAssumption`, `LinkAssumption`, `ExchangesAssumption`, `LoopAssumption`,
`ScopeAssumption`, `SiteAssumption`, `WebServerAssumption`, and for the table
`HashesAreNumbers`, `BytesArePositive`, `SizesArePositive`, `ValuesAreNumbers`,
`NoneIsNothing`. A hypothesis a theorem needs beyond them is in its row.

| Theorem | Statement |
|---|---|
| `BackSlots_proofs!TypeCorrect` | `Spec => []TypeOK` |
| `BackSlots_proofs!Owned` | `Spec => []SocketOwnership` |
| `BackSlots_proofs!HeldStays` | `Spec => []HeldSlotStays` |
| `BackSlots_proofs!ThreadsOwn` | until the mirror ends, the slot an FTP thread writes into is its own (`FtpOwnsSlot` fails after the end: a finding) |
| `BackSlots_proofs!OneEntryEach` | `Spec => []OneEntry` |
| `BackSlots_proofs!AnswersAreCached`, `AllAnswersCached` | a good answer that settled its link went to the cache, unless the link awaited its type; `Spec => []AnswerCached` where `UntypedLinks = {}` |
| `BackSlots_proofs!WrittenComplete`, `AllWrittenUnderNames` | what is written in the background is whole and under its final name, unless the link awaited its type; `Spec => WrittenUnderItsName` where `UntypedLinks = {}` |
| `BackSlots_proofs!NamesFromHeaders` | `Spec => NamedFromHeaders` where `UntypedLinks \cap SecureLinks = {}` |
| `BackSlots_proofs!WithinLimits` | `Spec => []LimitsKept` |
| `BackSlots_proofs!OnlyThawBreaks` | every step of the pool is one of `Downloads`, or the loss of a stored answer that cannot be read back |
| `BackSlots_proofs!NothingSkipped`, `NeverFull`, `PromiseKept` | where `Roomy`: `Spec => []SkippedMeansDone`, the mirror is never given up for want of a slot, and `Spec => Promise` |
| `BackSlots_proofs!Settled` | where `Roomy`: a link the pool has settled stays settled and is never fetched again |
| `Coucal_proofs!TypeCorrect` | `Spec => []TypeOK` |
| `Coucal_proofs!EntriesAtHome`, `StashOnlyIfTaken` | `Spec => []AtHome`, `Spec => []Placed` |
| `Coucal_proofs!EnumerationSound` | `Spec => []EnumSound` |
| `Coucal_proofs!MapKept` | `Spec => MapPromise`: the table implements `KeyMap` |
| `Coucal_proofs!StringsSound` | `Spec => []PoolSound` |
| `HttpReceive_proofs!TypeCorrect` | `Spec => []TypeOK` |
| `HttpReceive_proofs!Whole` | `Spec => []StoredWhole` |
| `HttpReceive_proofs!InSync` | `Spec => []ParkedInSync` |
| `HttpReceive_proofs!Continues206` | `Spec => []Continuable` |
| `HttpReceive_proofs!GoodStored` | `Spec => []GoodMeansStored` |
| `MirrorLoop_proofs!TypeCorrect`, `NothingLost`, `OnlyOnce`, `NotBeforePages`, `NoneSkippedAhead` | all the properties of the run `mirror_loop` |
| `LinkScope_proofs!InScope` | `Spec => []StaysBelow` |
| `LinkScope_proofs!AnswersStand` | `Spec => []AnswerStands` |
| `LinkScope_proofs!RobotsHeeded` | `Spec => []RobotsFirst` |
| `LinkScope_proofs!LevelByLevel` | `Spec => FoundAtFullDepth` |
| `MirrorSessions_proofs!TypeCorrect`, `EntriesKept`, `NothingTwice`, `LeftUpToDate`, `FoundNotPurged` | all the properties of the run `mirror_sessions` |
| `WebServer_proofs!OneAtATime`, `FinishedIsOver` | `Spec => []OneMirror`, `Spec => []FinishedWhenOver` |

**The pool.** None of the invariants is inductive. `IInv` adds to the types:
`SlotsSound` (connections and slots match, a slot in use has a link, a finished
slot that still has its connection did not fail), `StoredSound` (what was swapped
out is finished and has no connection), `Control` (which modes go with which
places of the call, and that a link whose type is awaited is not on the heap),
`Unplugged` (behind the position of the second loop of `back_clean` finished slots
have no connection; without it the swap to disk would close a descriptor that a
stored answer still names), `Held` (the slot in hand is locked, which keeps the
fourth loop from swapping it out, and early, which keeps the first from freeing
it) and `Threads` (time outs and cancels spare the slots of threads; a ban spares
them because their address begins with `ftp://` and is compared with a bare host
name). `Invariance` has one lemma per action; the lemmas before it say what the
moves of the pool do to the connections.

*One entry.* `OneEntry` says nothing of what is under way. `EntryInv` adds that an
addition is only in progress for a link without an entry (`AddsNew`), that a link
in the hands of `hts_wait_delayed` is known by its delayed name and one on the heap
by its final one (`FinalNames`), which is why a look-up by name finds the entry of
the link, that the engine locks no slot but that of its own link (`LocksOwn`), and
that a link written in the background has no entry left (`DoneGone`). Most steps
only rearrange what is there; the lemmas before `EntryInvariance` say once what a
step that does so keeps.

*Answers.* `AnswerInv` says of each entry that a good answer which is finalized went
to the cache. The links that await their type are excepted: an answer that is in
before its name is patched is finalized under the delayed name (section 5), and
`AllAnswersCached` is about a mirror that has none. `NamesFromHeaders` excepts the
links that await their type over TLS for the reason given there, too (102 is not
among the states that are waited for).

*Limits.* `back_wait` counts the transfers it sees, while `back_fill` plans several
additions from one count. `LimitInv` counts those under way and those planned
(`Due`) together, and separately the transfers for other links, since
`hts_wait_delayed` and the wait for the current link add theirs without asking.
`Trimmed` follows the third loop of `back_clean`, which closes idle connections
until the limit is kept.

*Room.* `Roomy` is `~DiskMayFail /\ BackMax >= MaxSoc + 2`; the code asks for
32 * `maxsoc` + 1024 slots. Then `back_clean` leaves no finished slot that is not
locked (`Cleaned`), so that between two calls the slots in use for other links are
transfers, hence at most `MaxSoc`, or one more while the engine is about a link on
the heap (`Sparse`): a slot is free when one is needed. Idle connections take none
away, since `back_add` may close one. From this the awaited link keeps its entry
until it is settled (`KeepsEntry`), so that "no entry" means "written in the
background", as `htsparse.c:4240` takes it to mean.

*Promise.* `StepPromise` takes `Next` apart: with `EntryInv` the entry of a link
changes as `Downloads` allows, by every step but `ThawFails`. Where `Roomy` holds
that step is never taken. `Settled` is what this promise means for one link
(`PromiseStays`), stated of the pool itself.

**The reception.** The theorems are about any set of exchanges: any request, any
file on disk, any resource, honest or lying servers, every fault. The invariant has
two parts. `Basic` holds with any server: what the fields may be in each status
(`Going`, `Taking`), that nothing is stored before the end (`Ended`), that a file
begun keeps its reference. `Honestly` is about a server that sends what its headers
say. It is needed because the properties compare what is stored with the resource,
of which the slot knows nothing: there is a position in what the server sends such
that what comes after it is what is still to come (`Part`, but for what was cut),
and what comes before it is on disk or in memory. In a plain body that is the
number of the bytes read (`Plainly`). In chunks (`Chunkly`) the position is before
the size of a chunk, within its data or after the last size, and `off`, which `Honest`
asks to exist, says how many bytes come before each size; since `chunk_blocksize`
and the total are what the size line made of them, the bytes read are always those
of one more chunk or of a part of it. What is over is whole (`Outcome`), and its
connection has nothing left (`OutOfBody`). The lemmas go step by step: first what a
step of `back_wait` does to the slot (`...Is`), then that each part is kept
(`...Basic`, then `...Follows` for bodies and chunks). Of the rest of a file in chunks
only `Basic` holds, as its lengths go wrong (section 5).

**The table.** `PlaceInv` says that an entry in the table is at one of the two
positions of its key, and that no key has two entries among the table, the stash,
the entry in hand and those waiting to be merged. A move, a doubling or a return
from the stash changes places and keeps the set of the entries (`SameEntries`), a
call changes the entry of one key (`Becomes`). A doubling keeps entries at home
because a hash that is taken modulo `2 * size` is, modulo `size`, what it was: the
entry either stays or moves up by `size` (`NewPlace`). With one entry for each key
the count is right (`Counted`), and what an enumeration has passed is apart from
what is ahead of it (`CursorInv`): an entry only ever moves from the stash back
into the table when another is removed, and what this may skip is why `EnumSound`
asks for all the keys only if nothing was removed. The refinement follows, as each
call ends with the effect and the answer of `KeyMap` and all other steps keep the
entries.

*The stash.* That a stashed entry could stand nowhere depends on how far the moves
go: they stop after as many as the table has positions. `Walk` says in which of
four ways they are under way. Going out they meet no position twice (`Outward`),
and each entry met has come from the position before. Where they meet one again
they go back the way they came (`Backward`) until the first entry leaves for its
other position; what is behind it is then closed, no entry there has a position
elsewhere (`Beyond`); if the moves come back into it, all that can be reached is
taken (`Enclosed`), and it is right to give up. In the other three cases the moves
made are at most twice the positions met, and those are less than half of the
table, since it grows before it is half full (`HalfFull`): the moves are not used
up. So `size` moves are enough because the table is never half full, which neither
number says alone.

*The strings.* `Sound` says of the strings in the pool, whatever keys they belong
to, that they lie apart below its mark and that `used` is the number of bytes they
take. An addition puts a string above the mark (`SoundAdded`), a removal takes one
out (`SoundLess`); in both the keys that have a string are those that have an entry
(`NamedKeys`), which is known from `PlaceInv`. A relocation is where the two sides
have to agree: it goes by places, the pool by keys. `PassOf` says that a walk meets
each key once; after a removal it does so of the table without the entry and before
one of the stash has taken its position (`PassFreed`), which is when the code frees
the name. Then the bytes copied are as many as the strings take, by a bijection
(`Copying`), so that `used` is right, the new pool is large enough, and each string
ends before the next begins (`CopiedStep`). No sum over the entries is needed, since
lengths are added up as sets of bytes (`Copied`).

**The loop.** Behind the position everything is covered or waits for the second
pass (`Behind`); a link that was recorded again was handled first (`Firsts`), and
only links up to the position are handled in the first pass (`GotBehind`), so that
the last link of a file is the only one not handled; an awaited entry vanishes
only when its link is done (`Waited`). `HeapStep` says what any step within a turn
may do to the heap; `WithinTurn` proves from it, once, that the invariant is kept.
`Skip` and `Advance`, which move the position, are proved on their own.

**The scope.** Every page started from a page on its host, if all did so far, and
lies in the tree of a root; what is compared with it in `Inside` is thus below the
roots already, and `Within` is transitive. For robots, the robots.txt of the host
of a page lies before the page in the heap, hence was read before the page is
parsed. For answers, the filter an answer inserts comes before the others while
the last that matches decides: a later answer cannot turn what an earlier filter
already forbids (`RulingKept`), and a link is refused for good only while no filter
rules on it, so that its own filter does. The greatest matching filter exists by
`Greatest!LastOf`. For depths, two facts are kept together (`Levels`): they only
fall along the heap, and no link has a depth more than one below that of a link
that is still to be handled. A link recorded from the page at `ptr` is one below
it, hence not above any other, and a known one is never raised. Neither fact is
inductive alone.

**The sessions.** `ArchiveInv` says at each step of the rotation and of the repair
which archives are there (`Placed`) and that the one opened next holds what was
flushed. `KeptInv` follows the links an interrupted session left whole until the
loop has read them. `LinkInv` follows one link: what is flushed is recent; unless
a session was interrupted, the file of an entry is the one it tells of (`Sound`);
a link that is done is lost, or noted, whole and recent (`Left`). `OneLink` shows
that a step of the loop is about one link, so that the invariant is proved per
link. That what is served never gets older (`ServedGrows`) rests on `LastOf`.

**The web interface.** A mirror is active from its creation until it clears
`commandRunning`; at most one is, since `commandRunning` is set by the server
before the thread exists and read by the same server. A page that says "finished"
was chosen while nothing was active, and nothing starts before the server has
sent it.

**Only model-checked:** the liveness properties (`EveryLinkSettles`,
`EveryTransferEnds`, `RequestServed`, `MirrorOver`), since fairness and `ENABLED` are
out of the prover's reach. Every invariant, action property and refinement of the
passing runs is stated by a theorem, for some under the conditions given above.

## 5. Findings

1. `thread_outlives_slot`: the engine frees the slots while an FTP thread of a
   banned host still runs; the wait for pending threads comes afterwards.
2. `nothing_restored`: a session that transferred nothing says that it restores
   the previous cache. Only the former format is restored: an empty `new.zip`
   stays in its place, and the next session removes `old.zip`.
3. `range_chunked`: the rest of a file that comes in chunks is stored short as
   complete, then reported as an error: the total counts the chunks, the size
   counts what was on disk as well. Where the first chunk is shorter than what is on
disk, its bytes are lost and those of the next are appended: 1, 2 on disk, then 3
and 4 in chunks of one leave 1, 2, 4. `Continuable` excepts this case, too.

Restrictions stated in properties are real limits of the code, too:

* `StaysBelow` assumes that each link started from a link on its own host.
  `meme_adresse` is computed before `hts_wait_delayed` (`htsparse.c:2414`) and not
  after its redirection, so that `premier` may lie on another host, with whose
  directory the links are then compared.
* `RobotsFirst` does not speak of links found on other hosts before the
  robots.txt of theirs was read, nor of the page made of a redirected file.
* `FoundAtFullDepth` needs `ext = 0`: a known link is raised without regard to
  the limit set for other sites (`htsparse.c:3086`), and then a page may be raised
  after it was parsed. It also needs that no file was replaced by what a
  redirection led to: the new link has the depth of the old one but comes behind
  the next level. Two such redirections in a row, then one to a known page, raise
  that page above one that was parsed before it: A links to B, B to C, C to X and E,
  E to X, and the file f beside A moves to g, then to k, then to E. A link that is
  retried, which this model leaves out, is recorded anew in the same way.
* `PurgeKeepsFound` excepts a file cut short by a full disk: a 304 for it is
  "guessed" good, it is not noted, and the purge removes it.
* `StoredWhole` does not speak of a chunked body, or of one without length, that
  the server cut between two chunks: it is stored as complete.
* `FetchedOnce` is about one pass: in a second one `back_fill` takes links that are
  done (-1) for links of that pass (`htscore.c:3365`).

Seen while modelling, without a run:

* *Pool.* A finished slot whose name is patched is finalized under its delayed
  name and never cached (`htsparse.c:4703`); an output file opened before the patch
  keeps its old name (`htsparse.c:4708`); the wait for headers enumerates 99 to 101
  while the TLS handshake is 102 (`htsparse.c:4558`); a slot that took over an idle
  connection looks like a failed cache read (`TypeRestart`).
* *Loop.* Where the heap is full, `hts_mirror_check_moved` returns 0 for a link it
  could not record again, as for success, and the error page is parsed (`Moved`).
* *Scope.* `import_done` is never set, so that the protection of imported links is
  dead; "this link only" (depth 0) is undone when the link is met again; a list
  of rules longer than the buffer forbids nothing (`htsrobots.c:86`); an answer the
  wizard does not know takes the link; a primary link is fetched though forbidden.
* *Reception.* A `GET` test keeps a connection with an unread body
  (`htsback.c:3538`; `ParkedInSync` excepts it); trailers end a stored answer in an
  error; an output file that cannot be created ends with code 200.
* *Sessions.* The choice of the most advanced cache asks for `new.dat`, which
  nothing creates (`htscoremain.c:2798`); between the unlink and the rename of a
  repair (`htscache.c:1578`) only `repair.zip` has the entries, and nothing opens
  it; a crash after the lock makes the next session trust the whole previous cache;
  the buffer of the purge is not terminated for `strstr` (`htscore.c:2203`).
* *Table.* The pool is not compacted when it becomes empty (`coucal.c:719`), so that
  a table emptied and filled again doubles it for ever; an entry moved from the
  stash into a position already passed is missed by an enumeration, which
  `coucal.h:483` calls safe; the moves stop when hashes, not positions, repeat.
* *Web interface.* `n_wait` is passed by value: a mirror that ends before it is
  counted waits for itself (`htsweb.c:377`); quitting waits for the pinger
  (`htsweb.c:293`) but not for an FTP thread that has not counted itself
  (`htsthread.c:103`); commands use `global_opt` while the thread frees it
  (`htsserver.c:650-681`); `commandEndRequested` is never reset.

## 6. Not modelled, and what could follow

Not modelled because they keep no state that a property could be about: parsers
of formats, character sets, display, options, cookies, wrappers (`htsjava.c`,
`htscharset.c`, `htsalias.c`, ...); vendored code; the MFC dialogs, whose calls
(stop, cancel) are actions of `BackSlots` and `LinkScope`; batch files and
prebuilt binaries. The data race of the lazy mutexes (`htsthread.c:195`) is left
out: the mutexes of the models exist from the start. A failure of `hts_newthread`
(`htsftp.c:107`), which leaves a slot busy for ever, is excluded by the fairness of
the FTP threads. The loop of a pause (`htsparse.c:3928`) waits for the user, of
whom nothing can be asked. The share of the code that is mapped is small because
most of it is parsing, formatting and I/O; the part that keeps state between
calls is what the modules cover.

Modelled: the core of the pool, the main loop, the reception, the sessions, the
scope of a mirror, the table and the web interface. What could follow, in this
order:

1. Save names (`url_savename`): one name per address, collisions, with the three
   tables of `htshash.c`.
2. ProxyTrack: the index that is loaded lazily under several locks.
3. `strjoker`, `fil_simplifie`, UTF-8 and punycode as functions against reference
   definitions.
