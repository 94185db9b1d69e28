------------------------------ MODULE Downloads ------------------------------
(***************************************************************************)
(* What the background download pool promises to the mirror engine.        *)
(*                                                                         *)
(* The engine (htscore.c, htsparse.c) asks for links.  The pool (htsback.c)*)
(* starts a transfer, keeps the answer once it has arrived, and gives it   *)
(* back exactly once: it is either taken by the engine, or written to its  *)
(* file in the background.  A link that has been settled is not downloaded *)
(* again, and an answer that has arrived stays until it is given back.     *)
(***************************************************************************)

CONSTANT Links

VARIABLES
  xfer,   \* per link: nothing under way, a transfer, or the answer kept
  fate    \* per link: without its name, wanted, or how it was settled

vars == <<xfer, fate>>

Answers == {"good", "error", "bad"}     \* "error": the page of a server error
Transfers == {"none", "active"} \cup Answers
Wanted == {"new", "open"}
Fates == Wanted \cup {"taken", "written", "dropped"}

(* The values of the variables. *)
TypeOK ==
  /\ xfer \in [Links -> Transfers]
  /\ fate \in [Links -> Fates]

Init ==
  /\ xfer = [l \in Links |-> "none"]
  /\ fate \in [Links -> Wanted]

Becomes(l, x, f) ==
  /\ xfer' = [xfer EXCEPT ![l] = x]
  /\ fate' = [fate EXCEPT ![l] = f]

(* A wanted link gets a transfer; an answer found locally is there at once.*)
Start(l) ==
  /\ fate[l] \in Wanted
  /\ xfer[l] = "none"
  /\ \E x \in Transfers \ {"none"} : Becomes(l, x, fate[l])

(* The transfer ends, well or badly. *)
Arrive(l) ==
  /\ xfer[l] = "active"
  /\ \E x \in Answers : Becomes(l, x, fate[l])

(* The link gets its name, whether its answer has come or not. *)
Name(l) ==
  /\ fate[l] = "new"
  /\ Becomes(l, xfer[l], "open")

(* Before it has its name, the transfer of a link may be given up, and the *)
(* link with it.                                                           *)
Withdraw(l) ==
  /\ fate[l] = "new"
  /\ \E f \in {"new", "dropped"} : Becomes(l, "none", f)

(* The engine takes the answer.  A good one settles the link; the page of  *)
(* an error does too, unless the link is wanted again; after a bad answer  *)
(* the link is dropped, or wanted again.                                   *)
Take(l) ==
  /\ fate[l] = "open"
  /\ \/ xfer[l] \in {"good", "error"} /\ Becomes(l, "none", "taken")
     \/ xfer[l] \in {"error", "bad"} /\ Becomes(l, "none", "open")
     \/ xfer[l] = "bad" /\ Becomes(l, "none", "dropped")

(* The pool has written the answer to its file and frees the entry. *)
Write(l) ==
  /\ xfer[l] = "good"
  /\ fate[l] # "new"
  /\ Becomes(l, "none", IF fate[l] = "open" THEN "written" ELSE fate[l])

(* Links the engine no longer wants.  Of those of a banned host ("cut") the*)
(* transfers end badly; the answer that led to the ban is taken with it.   *)
Drop(gone, cut, taken) ==
  /\ \A l \in taken : xfer[l] = "bad" /\ fate[l] = "open"
  /\ fate' = [l \in Links |->
                IF l \in gone /\ fate[l] \in Wanted THEN "dropped" ELSE fate[l]]
  /\ xfer' = [l \in Links |->
                IF l \in taken THEN "none"
                ELSE IF l \in cut /\ xfer[l] # "none" THEN "bad"
                ELSE xfer[l]]

(* The mirror is over: every transfer is released. *)
Finish ==
  /\ \A l \in Links : fate[l] \in Wanted => xfer[l] = "none"
  /\ xfer' = [l \in Links |-> "none"]
  /\ UNCHANGED fate

Next ==
  \/ \E l \in Links :
       Start(l) \/ Arrive(l) \/ Name(l) \/ Withdraw(l) \/ Take(l) \/ Write(l)
  \/ \E gone, cut \in SUBSET Links :
       \E taken \in SUBSET gone : Drop(gone, cut, taken)
  \/ Finish

Spec == Init /\ [][Next]_vars

-----------------------------------------------------------------------------
(* A settled link is never wanted again and its transfer never restarted.  *)
SettledForGood ==
  [][\A l \in Links :
       fate[l] \notin Wanted =>
         /\ fate'[l] = fate[l]
         /\ xfer[l] = "none" => xfer'[l] = "none"]_vars

=============================================================================
