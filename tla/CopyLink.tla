------------------------------ MODULE CopyLink ------------------------------
(***************************************************************************)
(* What the engine promises for one master ticket on one slave, without    *)
(* events, holding back, symbols or sizes: the protocol of the linkage.    *)
(*                                                                         *)
(* link is the slave position a master ticket is copied to: None, a slave  *)
(* ticket, or 0 while the open is unanswered and after it failed.  busy is *)
(* the one command the ticket may have outstanding, "lost" when it went    *)
(* down with the worker.  A ticket is opened only when it has no link,     *)
(* every other command goes to the position it is linked to, a link is     *)
(* made only by the answer to its own OPEN (or by recovery) and undone     *)
(* only by the answer to its own CLOSE (or by the restart).                *)
(***************************************************************************)
EXTENDS Naturals

CONSTANTS Slaves, Tickets, SlaveTickets, None

VARIABLES link, busy

vars == << link, busy >>

State(l, b) == << l, b >>
Idle(l) == State(l, "idle")

Now(s, t)  == State(link[s][t], busy[s][t])
Then(s, t) == State(link'[s][t], busy'[s][t])

(* An event makes a command of an idle ticket, or drops the marker of a    *)
(* failed open, or changes nothing.                                        *)
Opens(x, y) ==
  x = Idle(None) /\ \E b \in {"OPEN", "lost"} : y = State(0, b)

Routes(x, y) ==
  \E l \in SlaveTickets :
    /\ x = Idle(l)
    /\ \E b \in {"MODIFY", "PARTIAL_CLOSE", "CLOSE", "lost"} : y = State(l, b)

Drops(x, y) == x = Idle(0) /\ y = Idle(None)

Acts(x, y) == y = x \/ Opens(x, y) \/ Routes(x, y) \/ Drops(x, y)

(* The worker's answer to the outstanding command.                         *)
Answers(x, y) ==
  \/ /\ x = State(0, "OPEN")
     /\ \E l \in SlaveTickets \cup {0} : y = Idle(l)
  \/ \E l \in SlaveTickets :
       \/ \E b \in {"MODIFY", "PARTIAL_CLOSE", "CLOSE"} :
            x = State(l, b) /\ y = Idle(l)
       \/ x = State(l, "CLOSE") /\ y = Idle(None)

-----------------------------------------------------------------------------
(* Events: any number of tickets, each at most one command.                *)
Event == \A s \in Slaves, t \in Tickets : Acts(Now(s, t), Then(s, t))

(* An answer, and what the event held back until then makes of it.         *)
Answer(s, t) ==
  /\ \E l \in SlaveTickets \cup {0, None} :
       Answers(Now(s, t), Idle(l)) /\ Acts(Idle(l), Then(s, t))
  /\ \A r \in Slaves, u \in Tickets :
       << r, u >> # << s, t >> => Then(r, u) = Now(r, u)

Others(s) ==
  \A r \in Slaves \ {s}, t \in Tickets : Then(r, t) = Now(r, t)

Recover(s) ==
  /\ \A t \in Tickets :
       \/ Then(s, t) = Now(s, t)
       \/ /\ Now(s, t) = Idle(None)
          /\ \E l \in SlaveTickets : Then(s, t) = Idle(l)
  /\ Others(s)

Lose(s) ==
  /\ \A t \in Tickets :
       /\ link'[s][t] = link[s][t]
       /\ busy'[s][t] = IF busy[s][t] = "idle" THEN "idle" ELSE "lost"
  /\ Others(s)

Restart(s) ==
  /\ \A t \in Tickets : busy[s][t] \in {"idle", "lost"}
  /\ \A t \in Tickets : Then(s, t) = Idle(None)
  /\ Others(s)

Init ==
  /\ link \in [Slaves -> [Tickets -> SlaveTickets \cup {None}]]
  /\ busy = [s \in Slaves |-> [t \in Tickets |-> "idle"]]

Next ==
  \/ Event
  \/ \E s \in Slaves : \/ \E t \in Tickets : Answer(s, t)
                       \/ Recover(s)
                       \/ Lose(s)
                       \/ Restart(s)

Spec == Init /\ [][Next]_vars
=============================================================================
