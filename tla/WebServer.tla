------------------------------ MODULE WebServer ------------------------------
(***************************************************************************)
(* The web interface: the server of pages and commands (smallserver of     *)
(* htsserver.c), the threads it creates for the mirrors and for the watch  *)
(* on the browser (htsweb.c), and the count of the threads, by which they  *)
(* are waited for (htsthread.c).                                           *)
(*                                                                         *)
(* The engine is reduced to what it does here: it calls htsshow_loop, which*)
(* takes refreshMutex, it creates FTP threads, and it ends.  The flags     *)
(* commandRunning, commandEnd and commandEndRequested are shared without   *)
(* any lock: each access to them is a step of its own.                     *)
(***************************************************************************)
EXTENDS Integers, FiniteSets

CONSTANTS
  MaxSessions,  \* bound: the mirrors that are started
  Pinger        \* the server was given --ppid, and watches its parent

ASSUME WebServerAssumption == MaxSessions \in Nat /\ Pinger \in BOOLEAN

Sessions == 1..MaxSessions
Requests == {"page", "start", "save", "cancel", "abort", "quit", "silent"}

VARIABLES
  server,   \* where smallserver, then main, is
  request,  \* what the client asked
  page,     \* what it was answered
  mutex,    \* the holder of refreshMutex
  chain,    \* process_chain
  threads,  \* background_threads
  running, ended, asked,  \* commandRunning, commandEnd, commandEndRequested
  opt,      \* global_opt: the mirror it belongs to, or 0
  mirror,   \* where back_launch_cmd is, for each mirror
  until,    \* the n_wait of the wait of each mirror
  ftp,      \* one FTP thread for each mirror
  pinger    \* the thread of client_ping

answer == <<request, page>>
vars == <<server, request, page, mutex, chain, threads, running, ended, asked,
          opt, mirror, until, ftp, pinger>>

Init ==
  /\ server = "accept" /\ request = "page" /\ page = "none"
  /\ mutex = "none" /\ chain = 0
  /\ threads = IF Pinger THEN 1 ELSE 0
  /\ running = FALSE /\ ended = FALSE /\ asked = 0
  /\ opt = 0
  /\ mirror = [i \in Sessions |-> "none"]
  /\ until = [i \in Sessions |-> 0]
  /\ ftp = [i \in Sessions |-> "none"]
  /\ pinger = IF Pinger THEN "created" ELSE "none"

-----------------------------------------------------------------------------
(* The server, and main once it has returned.                              *)

Others == <<chain, opt, mirror, until, ftp, pinger>>

(* accept: any client, refreshMutex being free for the loop of the mirror. *)
Accept ==
  /\ server = "accept" /\ server' = "lock"
  /\ request' \in Requests
  /\ UNCHANGED <<page, mutex, threads, running, ended, asked, Others>>

(* refreshMutex, then the request; one that does not come is given up.     *)
Lock ==
  /\ server = "lock" /\ mutex = "none"
  /\ mutex' = "server"
  /\ server' = IF request = "silent" THEN "linger" ELSE "command"
  /\ UNCHANGED <<answer, threads, running, ended, asked, Others>>

(* Mutant: a mirror is started whatever is running.                        *)
StartableAlways == \E i \in Sessions : mirror[i] = "none"

Startable == ~running /\ \E i \in Sessions : mirror[i] = "none"

NextSession == CHOOSE i \in Sessions :
           mirror[i] = "none" /\ \A j \in 1..(i - 1) : mirror[j] # "none"

(* webhttrack_main: commandRunning first, then the thread.                 *)
Launch ==
  /\ server = "command" /\ request = "start" /\ Startable
  /\ running' = TRUE
  /\ mirror' = [mirror EXCEPT ![NextSession] = "created"]
  /\ server' = "count"
  /\ UNCHANGED <<answer, mutex, threads, ended, asked, chain, opt,
                 until, ftp, pinger>>

(* ... and then only background_threads.                                   *)
CountLaunched ==
  /\ server = "count" /\ server' = "page"
  /\ threads' = threads + 1
  /\ UNCHANGED <<answer, mutex, running, ended, asked, Others>>

(* Settings that are saved and not started count as a mirror that is over. *)
Save ==
  /\ server = "command" /\ request = "save" /\ ~running
  /\ ended' = TRUE /\ server' = "page"
  /\ UNCHANGED <<answer, mutex, threads, running, asked, Others>>

(* cancel (the first one lets the transfers end, the second does not) and  *)
(* abort: the flag that breaks the loop of the mirror.                     *)
Stop ==
  /\ server = "command" /\ request \in {"cancel", "abort"} /\ running
  /\ asked' = IF request = "cancel" /\ asked = 0 THEN 1 ELSE 2
  /\ server' = "page"
  /\ UNCHANGED <<answer, mutex, threads, running, ended, Others>>

NoCommand ==
  /\ server = "command" /\ server' = "page"
  /\ \/ request \in {"page", "quit"}
     \/ request \in {"cancel", "abort"} /\ ~running
     \/ request = "save" /\ running
     \/ request = "start" /\ ~Startable
  /\ UNCHANGED <<answer, mutex, threads, running, ended, asked,
                 Others>>

(* Mutant: the end of a mirror is looked at before a mirror that runs.     *)
PageEndFirst ==
  /\ server = "page" /\ server' = "linger"
  /\ page' = IF ended /\ request # "quit" THEN "finished"
             ELSE IF running THEN "refresh" ELSE "asked"
  /\ UNCHANGED <<request, mutex, threads, running, ended, asked, Others>>

(* The page that replaces the one that was asked.                          *)
Page ==
  /\ server = "page" /\ server' = "linger"
  /\ page' = IF running THEN "refresh"
             ELSE IF ended /\ request # "quit" THEN "finished" ELSE "asked"
  /\ UNCHANGED <<request, mutex, threads, running, ended, asked, Others>>

(* The end of the connection is waited for without any timeout and with    *)
(* the mutex held; it is up to the client.                                 *)
ClientCloses ==
  /\ server = "linger" /\ mutex' = "none"
  /\ server' = IF request = "quit" THEN "waiting" ELSE "accept"
  /\ request' = "page" /\ page' = "none"
  /\ UNCHANGED <<threads, running, ended, asked, Others>>

(* main: htsthread_wait_n(background_threads - 1), and the process ends.   *)
Exit ==
  /\ server = "waiting" /\ chain <= threads - 1
  /\ server' = "gone"
  /\ UNCHANGED <<answer, mutex, threads, running, ended, asked,
                 Others>>

ServerStep ==
  \/ Lock \/ Launch \/ CountLaunched \/ Save \/ Stop
  \/ NoCommand \/ Page \/ Exit

-----------------------------------------------------------------------------
(* The thread of a mirror: back_launch_cmd under hts_entry_point.          *)

Alone == <<server, answer, threads, pinger>>
Move(i, from, to) == mirror[i] = from /\ mirror' = [mirror EXCEPT ![i] = to]

(* A thread counts itself when it runs, not when it is created.            *)
Count(i) ==
  /\ Move(i, "created", "counted") /\ chain' = chain + 1
  /\ UNCHANGED <<Alone, mutex, running, ended, asked, opt, until, ftp>>

Begin(i) ==
  /\ Move(i, "counted", "engine") /\ opt' = i
  /\ UNCHANGED <<Alone, mutex, running, ended, asked, chain, until,
                 ftp>>

(* htsshow_loop, called at each turn of the engine.                        *)
ShowLoop(i) ==
  /\ Move(i, "engine", "show")
  /\ asked # 2 /\ mutex = "none" /\ mutex' = "mirror"
  /\ UNCHANGED <<Alone, running, ended, asked, chain, opt, until, ftp>>

(* Mutant: a return that leaves refreshMutex locked.                       *)
ShowLoopReturnsLocked(i) ==
  /\ Move(i, "show", "engine")
  /\ UNCHANGED <<Alone, mutex, running, ended, asked, chain, opt,
                 until, ftp>>

ShowLoopReturns(i) ==
  /\ Move(i, "show", "engine") /\ mutex' = "none"
  /\ UNCHANGED <<Alone, running, ended, asked, chain, opt, until, ftp>>

(* The engine ends: by itself, told to stop, or broken by its callback.    *)
(* n_wait is the value of background_threads at the call of the wait.      *)
EngineEnds(i) ==
  /\ Move(i, "engine", "waiting")
  /\ until' = [until EXCEPT ![i] = threads]
  /\ UNCHANGED <<Alone, mutex, running, ended, asked, chain, opt, ftp>>

(* Mutant: the wait is for one thread less.                                *)
WaitedBelow(i) ==
  /\ Move(i, "waiting", "over") /\ chain < until[i]
  /\ UNCHANGED <<Alone, mutex, running, ended, asked, chain, opt,
                 until, ftp>>

Waited(i) ==
  /\ Move(i, "waiting", "over") /\ chain <= until[i]
  /\ UNCHANGED <<Alone, mutex, running, ended, asked, chain, opt,
                 until, ftp>>

(* global_opt is reset, and the opt freed; then one flag, then the other.  *)
FreeOpt(i) ==
  /\ Move(i, "over", "freed") /\ opt' = 0
  /\ UNCHANGED <<Alone, mutex, running, ended, asked, chain, until,
                 ftp>>

ClearRunning(i) ==
  /\ Move(i, "freed", "cleared") /\ running' = FALSE
  /\ UNCHANGED <<Alone, mutex, ended, asked, chain, opt, until, ftp>>

SetEnd(i) ==
  /\ Move(i, "cleared", "ended") /\ ended' = TRUE
  /\ UNCHANGED <<Alone, mutex, running, asked, chain, opt, until, ftp>>

Leave(i) ==
  /\ Move(i, "ended", "gone") /\ chain' = chain - 1
  /\ UNCHANGED <<Alone, mutex, running, ended, asked, opt, until, ftp>>

(* A transfer by FTP has its thread, that counts itself as well.           *)
FtpStart(i) ==
  /\ mirror[i] = "engine" /\ ftp[i] = "none"
  /\ ftp' = [ftp EXCEPT ![i] = "created"]
  /\ UNCHANGED <<Alone, mutex, running, ended, asked, chain, opt,
                 mirror, until>>

FtpCount(i) ==
  /\ ftp[i] = "created" /\ ftp' = [ftp EXCEPT ![i] = "counted"]
  /\ chain' = chain + 1
  /\ UNCHANGED <<Alone, mutex, running, ended, asked, opt, mirror,
                 until>>

FtpEnd(i) ==
  /\ ftp[i] = "counted" /\ ftp' = [ftp EXCEPT ![i] = "gone"]
  /\ chain' = chain - 1
  /\ UNCHANGED <<Alone, mutex, running, ended, asked, opt, mirror,
                 until>>

MirrorStep(i) ==
  \/ Count(i) \/ Begin(i) \/ ShowLoop(i) \/ ShowLoopReturns(i) \/ Waited(i)
  \/ FreeOpt(i) \/ ClearRunning(i) \/ SetEnd(i) \/ Leave(i)

FtpStep(i) == FtpCount(i) \/ FtpEnd(i)

-----------------------------------------------------------------------------
(* client_ping watches the parent, then the pings of the browser, and ends *)
(* the whole process.                                                      *)
PingerCount ==
  /\ pinger = "created" /\ pinger' = "counted"
  /\ chain' = chain + 1
  /\ UNCHANGED <<server, answer, threads, mutex, running, ended, asked, opt,
                 mirror, until, ftp>>

PingerExits ==
  /\ pinger = "counted" /\ server' = "gone"
  /\ UNCHANGED <<answer, threads, mutex, chain, running, ended, asked, opt,
                 mirror, until, ftp, pinger>>

Up == server # "gone"

Next ==
  /\ Up
  /\ \/ Accept \/ ServerStep \/ ClientCloses \/ PingerCount \/ PingerExits
     \/ \E i \in Sessions :
          MirrorStep(i) \/ EngineEnds(i) \/ FtpStart(i) \/ FtpStep(i)

(* The threads are scheduled, clients close their connections in the end,  *)
(* and a mirror is finite; nothing is asked of the user.                   *)
Spec ==
  /\ Init /\ [][Next]_vars
  /\ WF_vars(Up /\ ServerStep)
  /\ WF_vars(Up /\ ClientCloses)
  /\ WF_vars(Up /\ PingerCount)
  /\ \A i \in Sessions :
       /\ WF_vars(Up /\ MirrorStep(i))
       /\ WF_vars(Up /\ FtpStep(i))
       /\ SF_vars(Up /\ EngineEnds(i))

-----------------------------------------------------------------------------
InProgress == {i \in Sessions : mirror[i] \in
                 {"created", "counted", "engine", "show", "waiting", "over"}}

(* One mirror at a time uses the engine, and global_opt is its opt or NULL.*)
OneMirror ==
  /\ Cardinality(InProgress) <= 1
  /\ opt # 0 => InProgress = {opt}

(* The page that says that the mirror is over is not shown while one is in *)
(* progress.                                                               *)
FinishedWhenOver ==
  server = "linger" /\ page = "finished" => InProgress = {}

(* No request waits for ever for the mutex that the mirror takes as well.  *)
RequestServed == server = "lock" ~> server # "lock"

(* A mirror that waits once its own thread has been counted as one not to  *)
(* be waited for is over in the end.                                       *)
MirrorOver ==
  \A i \in Sessions :
    mirror[i] = "waiting" /\ until[i] = threads /\ server # "count"
      ~> mirror[i] = "gone" \/ server = "gone"

=============================================================================
