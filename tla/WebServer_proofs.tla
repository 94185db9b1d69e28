--------------------------- MODULE WebServer_proofs ---------------------------
(***************************************************************************)
(* However the unprotected flags of the web interface are read and written *)
(* between the steps of its threads, one mirror at a time is in progress,  *)
(* and the page that says that it is over tells the truth.                 *)
(***************************************************************************)
EXTENDS WebServer, Greatest, FiniteSetTheorems

InEngine == {"engine", "show", "waiting", "over"}
Active == {"created", "counted", "freed"} \cup InEngine
Stages == Active \cup {"none", "cleared", "ended", "gone"}

(* A mirror is active from its creation until commandRunning is cleared.   *)
RunningSound ==
  /\ mirror \in [Sessions -> Stages]
  /\ \A i \in Sessions : mirror[i] \in Active => running
  /\ \A i, j \in Sessions : mirror[i] \in Active /\ mirror[j] \in Active => i = j
  /\ opt # 0 => opt \in Sessions /\ mirror[opt] \in InEngine

(* No mirror starts between the choice of a page and the end of the        *)
(* connection it is sent on.                                               *)
PageSound ==
  /\ server \in {"accept", "lock"} => page = "none"
  /\ server = "linger" /\ page = "finished"
       => \A i \in Sessions : mirror[i] \notin Active

Inv == RunningSound /\ PageSound

-----------------------------------------------------------------------------
(* The mirror that is started is one that was not. *)
LEMMA NextIsNew ==
  ASSUME Startable
  PROVE  NextSession \in Sessions /\ mirror[NextSession] = "none"
<1> DEFINE S == {i \in Sessions : mirror[i] = "none"}
<1>1. MaxSessions \in Nat /\ S \subseteq 1 .. MaxSessions /\ S # {}
  BY WebServerAssumption DEF Startable, Sessions
<1> HIDE DEF S
<1>2. PICK i \in S : \A j \in S : i <= j
  BY <1>1, FirstOf
<1>3. i \in Sessions /\ mirror[i] = "none" /\ \A j \in 1..(i - 1) : mirror[j] # "none"
  <2>1. i \in Sessions /\ mirror[i] = "none"
    BY <1>2 DEF S
  <2> SUFFICES ASSUME NEW j \in 1..(i - 1), mirror[j] = "none" PROVE FALSE
    BY <2>1
  <2>2. MaxSessions \in Nat /\ i \in 1..MaxSessions
    BY <1>1, <2>1 DEF Sessions
  <2>3. j \in Sessions /\ ~(i <= j)
    BY <2>2 DEF Sessions
  <2>4. j \in S
    BY <2>3 DEF S
  <2> QED
    BY <1>2, <2>3, <2>4
<1> QED
  BY <1>3 DEF NextSession

(* Nothing is started when the server starts. *)
LEMMA AtStart == Init => Inv
BY DEF Init, Inv, RunningSound, PageSound, Active, InEngine, Stages

(* The server starts a mirror only while none is active. *)
LEMMA ServerKeeps ==
  ASSUME Inv, Accept \/ ServerStep \/ ClientCloses
  PROVE  Inv'
<1>1. CASE Launch
  <2>1. /\ NextSession \in Sessions /\ ~running /\ running'
        /\ mirror' = [mirror EXCEPT ![NextSession] = "created"]
        /\ server' = "count" /\ opt' = opt
    BY <1>1, NextIsNew DEF Launch, Startable
  <2>2. \A i \in Sessions : mirror[i] \notin Active
    BY <2>1 DEF Inv, RunningSound
  <2>3. opt = 0
    BY <2>2 DEF Inv, RunningSound, Active
  <2>4. RunningSound'
    BY <2>1, <2>2, <2>3 DEF Inv, RunningSound, Stages, Active
  <2> QED
    BY <2>1, <2>4 DEF Inv, PageSound
<1>2. CASE Page
  <2>1. /\ running' = running /\ mirror' = mirror /\ opt' = opt /\ server' = "linger"
        /\ page' = "finished" => ~running
    BY <1>2 DEF Page, Others
  <2> QED
    BY <2>1 DEF Inv, RunningSound, PageSound
<1>3. CASE \/ Accept \/ Lock \/ CountLaunched \/ Save \/ Stop \/ NoCommand \/ Exit
           \/ ClientCloses
  <2>1. UNCHANGED <<running, mirror, opt>>
    BY <1>3 DEF Accept, Lock, CountLaunched, Save, Stop, NoCommand, Exit, ClientCloses,
       Others
  <2>2. RunningSound'
    BY <2>1 DEF Inv, RunningSound
  <2>3. PageSound'
    BY <1>3, <2>1 DEF Inv, PageSound, Accept, Lock, CountLaunched, Save, Stop,
       NoCommand, Exit, ClientCloses, answer
  <2> QED
    BY <2>2, <2>3 DEF Inv
<1> QED
  BY <1>1, <1>2, <1>3 DEF ServerStep

(* A mirror clears commandRunning only once it is no longer in progress. *)
LEMMA MirrorKeeps ==
  ASSUME Inv, NEW i \in Sessions,
         MirrorStep(i) \/ EngineEnds(i) \/ FtpStart(i) \/ FtpStep(i)
  PROVE  Inv'
<1>1. mirror \in [Sessions -> Stages]
  BY DEF Inv, RunningSound
<1>2. UNCHANGED <<server, page>>
  BY DEF MirrorStep, Count, Begin, ShowLoop, ShowLoopReturns, Waited, FreeOpt,
     ClearRunning, SetEnd, Leave, EngineEnds, FtpStart, FtpStep, FtpCount, FtpEnd,
     Alone, answer
<1>3. CASE FtpStart(i) \/ FtpStep(i)
  <2>1. UNCHANGED <<running, mirror, opt>>
    BY <1>3 DEF FtpStart, FtpStep, FtpCount, FtpEnd
  <2> QED
    BY <1>2, <2>1 DEF Inv, RunningSound, PageSound
<1>4. CASE \/ Count(i) \/ ShowLoop(i) \/ ShowLoopReturns(i) \/ EngineEnds(i) \/ Waited(i)
  <2>1. UNCHANGED <<running, opt>>
    BY <1>4 DEF Count, ShowLoop, ShowLoopReturns, EngineEnds, Waited
  <2>2. \E s \in InEngine \cup {"counted"} :
          /\ mirror[i] \in Active /\ (mirror[i] \in InEngine => s \in InEngine)
          /\ mirror' = [mirror EXCEPT ![i] = s]
    BY <1>4 DEF Count, ShowLoop, ShowLoopReturns, EngineEnds, Waited, Move, Active, InEngine
  <2> QED
    BY <1>1, <1>2, <2>1, <2>2 DEF Inv, RunningSound, PageSound, Active, Stages
<1>5. CASE Begin(i)
  <2>1. /\ mirror[i] \in Active /\ mirror' = [mirror EXCEPT ![i] = "engine"]
        /\ opt' = i /\ running' = running
    BY <1>5 DEF Begin, Move, Active
  <2> QED
    BY <1>1, <1>2, <2>1 DEF Inv, RunningSound, PageSound, Active, InEngine, Stages
<1>6. CASE FreeOpt(i)
  <2>1. /\ mirror[i] \in Active /\ mirror' = [mirror EXCEPT ![i] = "freed"]
        /\ opt' = 0 /\ running' = running
    BY <1>6 DEF FreeOpt, Move, Active, InEngine
  <2> QED
    BY <1>1, <1>2, <2>1 DEF Inv, RunningSound, PageSound, Active, Stages
<1>7. CASE ClearRunning(i)
  <2>1. /\ mirror[i] = "freed" /\ mirror' = [mirror EXCEPT ![i] = "cleared"]
        /\ opt' = opt
    BY <1>7 DEF ClearRunning, Move
  <2>2. \A j \in Sessions : mirror[j] \in Active => j = i
    BY <2>1 DEF Inv, RunningSound, Active
  <2>3. opt = 0
    BY <2>1, <2>2 DEF Inv, RunningSound, Active, InEngine
  <2>4. \A j \in Sessions : mirror'[j] \notin Active
    BY <1>1, <2>1, <2>2 DEF Active, InEngine
  <2>5. mirror' \in [Sessions -> Stages]
    BY <1>1, <2>1 DEF Stages
  <2> QED
    BY <1>2, <2>1, <2>3, <2>4, <2>5 DEF Inv, RunningSound, PageSound
<1>8. CASE SetEnd(i) \/ Leave(i)
  <2>1. UNCHANGED <<running, opt>>
    BY <1>8 DEF SetEnd, Leave
  <2>2. \E s \in {"ended", "gone"} :
          mirror[i] \notin Active /\ mirror' = [mirror EXCEPT ![i] = s]
    BY <1>8 DEF SetEnd, Leave, Move, Active, InEngine
  <2>3. \A j \in Sessions : mirror'[j] \in Active => mirror'[j] = mirror[j]
    BY <1>1, <2>2 DEF Active, InEngine
  <2>4. \A j \in Sessions : mirror[j] \in Active => mirror'[j] = mirror[j]
    BY <1>1, <2>2 DEF Active, InEngine
  <2>5. mirror' \in [Sessions -> Stages]
    BY <1>1, <2>2 DEF Stages
  <2> QED
    BY <1>2, <2>1, <2>3, <2>4, <2>5 DEF Inv, RunningSound, PageSound, Active
<1> QED
  BY <1>3, <1>4, <1>5, <1>6, <1>7, <1>8 DEF MirrorStep

(* The invariant holds of every run of the interface. *)
LEMMA Sound == Spec => []Inv
<1>1. ASSUME Inv, [Next]_vars PROVE Inv'
  <2>1. CASE UNCHANGED vars
    BY <1>1, <2>1 DEF vars, answer, Inv, RunningSound, PageSound
  <2>2. CASE PingerCount \/ PingerExits
    <3>1. UNCHANGED <<running, mirror, opt, page>> /\ server' \in {server, "gone"}
      BY <2>2 DEF PingerCount, PingerExits, answer
    <3> QED
      BY <1>1, <3>1 DEF Inv, RunningSound, PageSound
  <2> QED
    BY <1>1, <2>1, <2>2, ServerKeeps, MirrorKeeps DEF Next
<1> QED
  BY <1>1, AtStart, PTL DEF Spec

(* One mirror at a time uses the engine, and global_opt is its opt or NULL.*)
THEOREM OneAtATime == Spec => []OneMirror
<1>1. ASSUME Inv PROVE OneMirror
  <2>1. InProgress \subseteq {i \in Sessions : mirror[i] \in Active}
    BY DEF InProgress, Active, InEngine
  <2>2. \A i, j \in InProgress : i = j
    BY <1>1, <2>1 DEF Inv, RunningSound
  <2>3. Cardinality(InProgress) <= 1
    <3>1. CASE InProgress = {}
      BY <3>1, FS_EmptySet
    <3>2. CASE InProgress # {}
      <4>1. PICK i \in InProgress : TRUE
        BY <3>2
      <4>2. InProgress = {i}
        BY <2>2, <4>1
      <4>3. Cardinality({i}) = 1
        BY FS_Singleton, Zenon
      <4>4. Cardinality(InProgress) = 1
        BY <4>2, <4>3, Zenon
      <4> QED
        BY <4>4
    <3> QED
      BY <3>1, <3>2
  <2>4. opt # 0 => opt \in InProgress
    BY <1>1 DEF Inv, RunningSound, InProgress, InEngine
  <2>5. opt # 0 => InProgress = {opt}
    BY <2>2, <2>4
  <2> QED
    BY <2>3, <2>5 DEF OneMirror
<1> QED
  BY <1>1, Sound, PTL

(* The page that says that the mirror is over is not shown while one is in *)
(* progress.                                                               *)
THEOREM FinishedIsOver == Spec => []FinishedWhenOver
<1>1. Inv => FinishedWhenOver
  BY DEF Inv, PageSound, FinishedWhenOver, InProgress, Active, InEngine
<1> QED
  BY <1>1, Sound, PTL

=============================================================================
