--------------------------- MODULE SearchService ---------------------------
(***************************************************************************)
(* What the engine promises to a GUI (bot_api/client.h, bot_api/server.h): *)
(* one search at a time, every accepted request answered exactly once, and *)
(* the connection closed only when nothing is left unanswered.             *)
(***************************************************************************)
EXTENDS Naturals

VARIABLES
  asked,      \* searches accepted from the server
  answered,   \* best moves sent back
  closed      \* the client is disconnected

vars == <<asked, answered, closed>>

Init == asked = 0 /\ answered = 0 /\ closed = FALSE

Busy == asked # answered

(* search...() *)
Ask ==
  /\ ~closed /\ ~Busy
  /\ asked' = asked + 1
  /\ UNCHANGED <<answered, closed>>

(* finishSearch(): after stop(), after disconnect() or of the client's own accord. *)
Answer ==
  /\ ~closed /\ Busy
  /\ answered' = answered + 1
  /\ UNCHANGED <<asked, closed>>

Close ==
  /\ ~closed /\ ~Busy
  /\ closed' = TRUE
  /\ UNCHANGED <<asked, answered>>

Next == Ask \/ Answer \/ Close

Spec == Init /\ [][Next]_vars
=============================================================================
