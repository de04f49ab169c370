----------------------------- MODULE Supervisor -----------------------------
(***************************************************************************)
(* The supervisor (manager/supervisor.py): it owns the worker processes    *)
(* and their pipes, reads them, restarts what is dead or silent with a     *)
(* backoff, and is started and stopped by the controller                   *)
(* (manager/app/controller.py).                                            *)
(*                                                                         *)
(* A tick is drain the slaves, poll the master, check every worker's       *)
(* health; each of these is a step of its own, and so is the spawn at the  *)
(* end of a restart, because workers write, die and hang, time passes and  *)
(* the GUI's thread stops the program in between.  During the start        *)
(* sequence the ticks are run by the thread that starts, afterwards by the *)
(* supervisor's own.                                                       *)
(*                                                                         *)
(* Time is counted in units; every age is cut off above the thresholds it  *)
(* is compared with.  Of a message only what the supervisor looks at is    *)
(* kept: "first" (a slave's recovery, symbol info and status, sent         *)
(* together; the master's status), "data" (anything later of a slave, a    *)
(* snapshot of the master) and "fatal" (an ErrorMsg with fatal set).  What *)
(* the messages do to the engine is CopyEngine's matter.                   *)
(***************************************************************************)
EXTENDS Integers, Sequences, FiniteSets

CONSTANTS
  Slaves,         \* slave ids
  Master,         \* the name of the master's handle
  Grace,          \* STARTUP_GRACE_SECONDS
  Stale,          \* stale_seconds
  Failures,       \* consecutive_failures
  BaseBackoff,    \* BASE_BACKOFF
  MaxBackoff,     \* MAX_BACKOFF
  Heartbeat,      \* heartbeat_seconds
  StartTimeout,   \* timeout of the start sequence's two waits
  JoinTimesOut,   \* a restart may take longer than stop()'s join waits
  MaxPipe,        \* bound: unread messages per worker
  MaxRestarts,    \* bound: where restart_count is cut off
  None

Workers == Slaves \cup {Master}

ASSUME SupervisorConstants ==
  /\ Master \notin Slaves
  /\ None \notin Workers
  /\ {Grace, Stale, BaseBackoff, MaxBackoff, Heartbeat, StartTimeout,
      MaxPipe} \subseteq Nat
  /\ {Failures, MaxRestarts} \subseteq Nat \ {0}
  /\ JoinTimesOut \in BOOLEAN
  /\ Stale <= Grace /\ 2 * Heartbeat <= Grace

VARIABLES
  (* the worker processes, and what they have written *)
  proc,           \* "none", "starting", "up", "hung", "dead"
  pipe,           \* messages not read yet
  (* WorkerHandle *)
  managed,        \* handles
  open,           \* the handle's pipe is not None
  gotStatus,      \* the "first" message has been read
  firstSeen,      \* first_msg_seen
  age,            \* now - last_msg_ts
  fails,          \* fail_count
  fatal,
  restarts,       \* restart_count
  backoff,        \* next_restart_at - now, or 0
  (* heartbeat of the master *)
  snapAge, snapSeen, warning,
  (* control *)
  pc,             \* "top", "drained", "polled", "respawn"
  unchecked,      \* handles the health check has still to look at
  victim,         \* the handle being restarted
  phase,          \* of the controller: "slaves", "master", "copying",
                  \* "stopping", "stopped", "failed"
  waited,         \* since the present wait of the start sequence began
  replaced,       \* the handle wait_for_master_status looks at is replaced
  storm           \* ghost: since the first of the present restarts began

procVars   == << proc, pipe >>
handleVars == << managed, open, gotStatus, firstSeen, age, fails, fatal,
                 restarts, backoff >>
beatVars   == << snapAge, snapSeen, warning >>
startVars  == << phase, waited, replaced >>
vars == << procVars, handleVars, beatVars, pc, unchecked, victim, startVars,
           storm >>

-----------------------------------------------------------------------------
Least(a, b) == IF a <= b THEN a ELSE b

AgeLimit == Grace + 1

Alive(w) == proc[w] \in {"starting", "up", "hung"}

(* Mutant of IsStale: a worker that has been heard is never stale.         *)
NeverStaleOnceHeard(w) == ~firstSeen[w] /\ age[w] > Grace

(* now - last_msg_ts > stale, in the grace window or after it.             *)
IsStale(w) == age[w] > IF firstSeen[w] THEN Stale ELSE Grace

(* The backoff after the n-th restart in a row.                            *)
Doubled[n \in 0..MaxRestarts] ==
  IF n = 0 THEN BaseBackoff ELSE 2 * Doubled[n - 1]
Delay(n) == Least(Doubled[n], MaxBackoff)

(* Counting more restarts would not lengthen the backoff.                  *)
ASSUME LastBackoff == Doubled[MaxRestarts] >= MaxBackoff

(* The time from the beginning of the first restart in a row to that of    *)
(* the n-th, at least.                                                     *)
StormTime[n \in 0..MaxRestarts] ==
  IF n <= 1 THEN 0 ELSE StormTime[n - 1] + Delay(n - 2)
MaxStorm == StormTime[MaxRestarts]

(* The restarts in a row that have begun, the one under way with them.     *)
Begun(w) == IF pc = "respawn" /\ victim = w
              THEN Least(restarts[w] + 1, MaxRestarts) ELSE restarts[w]

HasMessage(w) == open[w] /\ pipe[w] # << >>

-----------------------------------------------------------------------------
(* The workers.                                                            *)
Write(w, msg) ==
  pipe' = [pipe EXCEPT ![w] = IF open[w] THEN Append(@, msg) ELSE @]

Connects(w) ==
  /\ proc[w] = "starting" /\ Len(pipe[w]) < MaxPipe
  /\ proc' = [proc EXCEPT ![w] = "up"]
  /\ Write(w, "first")
  /\ UNCHANGED << handleVars, beatVars, pc, unchecked, victim,
                  startVars, storm >>

SendsData(w) ==
  /\ proc[w] = "up" /\ open[w] /\ Len(pipe[w]) < MaxPipe
  /\ Write(w, "data")
  /\ UNCHANGED << proc, handleVars, beatVars, pc, unchecked, victim,
                  startVars, storm >>

(* initialize fails, or an exception in the loop: the last message says so.*)
FailsFatally(w) ==
  /\ proc[w] \in {"starting", "up"} /\ Len(pipe[w]) < MaxPipe
  /\ proc' = [proc EXCEPT ![w] = "dead"]
  /\ Write(w, "fatal")
  /\ UNCHANGED << handleVars, beatVars, pc, unchecked, victim,
                  startVars, storm >>

(* Dies without a word, or blocks in a call into the terminal.             *)
Breaks(w) ==
  /\ \/ Alive(w) /\ proc' = [proc EXCEPT ![w] = "dead"]
     \/ proc[w] = "up" /\ proc' = [proc EXCEPT ![w] = "hung"]
  /\ UNCHANGED << pipe, handleVars, beatVars, pc, unchecked, victim,
                  startVars, storm >>

Passes ==
  /\ age' = [w \in Workers |-> Least(age[w] + 1, AgeLimit)]
  /\ backoff' = [w \in Workers |-> IF backoff[w] = 0 THEN 0 ELSE backoff[w] - 1]
  /\ snapAge' = Least(snapAge + 1, AgeLimit)
  /\ waited' = Least(waited + 1, StartTimeout)
  /\ storm' = [w \in Workers |-> IF Begun(w) = 0 THEN storm[w]
                                 ELSE Least(storm[w] + 1, MaxStorm)]
  /\ UNCHANGED << procVars, managed, open, gotStatus, firstSeen, fails, fatal,
                  restarts, snapSeen, warning, pc, unchecked, victim, phase,
                  replaced >>

-----------------------------------------------------------------------------
(* One tick.                                                               *)

(* The flags of the handles ws, of which the messages msgs[w] were read.   *)
Heard(ws, msgs) ==
  LET Has(w, m) == \E i \in DOMAIN msgs[w] : msgs[w][i] = m
  IN  /\ gotStatus' = [w \in Workers |->
                         gotStatus[w] \/ (w \in ws /\ Has(w, "first"))]
      /\ fatal' = [w \in Workers |-> fatal[w] \/ (w \in ws /\ Has(w, "fatal"))]
      /\ firstSeen' = [w \in Workers |-> firstSeen[w] \/ w \in ws]
      /\ age' = [w \in Workers |-> IF w \in ws THEN 0 ELSE age[w]]
      /\ fails' = [w \in Workers |-> IF w \in ws THEN 0 ELSE fails[w]]
      /\ restarts' = [w \in Workers |-> IF w \in ws THEN 0 ELSE restarts[w]]
      /\ backoff' = [w \in Workers |-> IF w \in ws THEN 0 ELSE backoff[w]]
      /\ storm' = [w \in Workers |-> IF w \in ws THEN 0 ELSE storm[w]]

(* _drain_slaves: read every slave's pipe until it is empty; a dead        *)
(* slave's pipe is found closed.                                           *)
Drain ==
  /\ pc = "top" /\ phase \in {"slaves", "master", "copying"}
  /\ Heard({s \in Slaves \cap managed : HasMessage(s)}, pipe)
  /\ pipe' = [w \in Workers |-> IF w \in Slaves \cap managed /\ open[w]
                                  THEN << >> ELSE pipe[w]]
  /\ open' = [w \in Workers |-> open[w] /\ ~(w \in Slaves \cap managed
                                               /\ proc[w] = "dead")]
  /\ pc' = "drained"
  /\ UNCHANGED << proc, managed, beatVars, unchecked, victim,
                  startVars >>

(* _read_master: one message, or a closed pipe, or a timeout, which is     *)
(* when the heartbeat is looked at.                                        *)
ReadMaster ==
  /\ pc = "drained"
  /\ pc' = "polled"
  /\ unchecked' = managed
  /\ CASE Master \in managed /\ HasMessage(Master) ->
            /\ Heard({Master}, [w \in Workers |-> << Head(pipe[Master]) >>])
            /\ pipe' = [pipe EXCEPT ![Master] = Tail(@)]
            /\ IF Head(pipe[Master]) = "data"
                 THEN snapAge' = 0 /\ snapSeen' = TRUE /\ warning' = FALSE
                 ELSE UNCHANGED beatVars
            /\ UNCHANGED open
       [] Master \in managed /\ open[Master] /\ ~HasMessage(Master)
            /\ proc[Master] = "dead" ->
            /\ open' = [open EXCEPT ![Master] = FALSE]
            /\ UNCHANGED << pipe, gotStatus, firstSeen, age, fails, fatal,
                            restarts, backoff, beatVars, storm >>
       [] Master \in managed /\ open[Master] /\ ~HasMessage(Master)
            /\ proc[Master] # "dead" ->
            /\ warning' = (warning \/ snapAge > IF snapSeen THEN 2 * Heartbeat
                                                            ELSE Grace)
            /\ UNCHANGED << pipe, open, gotStatus, firstSeen, age, fails,
                            fatal, restarts, backoff, snapAge, snapSeen, storm >>
       [] Master \notin managed \/ ~open[Master] ->
            UNCHANGED << pipe, open, gotStatus, firstSeen, age, fails, fatal,
                         restarts, backoff, beatVars, storm >>
  /\ UNCHANGED << proc, managed, victim, startVars >>

(* Mutant of CarriedBackoff: the new handle starts from nothing.           *)
NothingCarried(n) == 0

(* next_restart_at of the handle that replaces one restarted n times, less *)
(* the time _restart began at.                                             *)
CarriedBackoff(n) == Delay(n)

(* The first half of _restart: read the clock, terminate, close the pipe,  *)
(* kill the terminal, reset_slave.  It can take its time, and the next     *)
(* backoff runs from its beginning.                                        *)
Terminate(w) ==
  /\ proc' = [proc EXCEPT ![w] = "dead"]
  /\ pipe' = [pipe EXCEPT ![w] = << >>]
  /\ open' = [open EXCEPT ![w] = FALSE]
  /\ backoff' = [backoff EXCEPT ![w] = CarriedBackoff(restarts[w])]
  /\ storm' = [storm EXCEPT ![w] = IF restarts[w] = 0 THEN 0 ELSE @]
  /\ victim' = w
  /\ pc' = "respawn"

(* Mutant of Check: one more failure before a silent worker is restarted.  *)
ChecksOnceMore(w) ==
  /\ pc = "polled" /\ w \in unchecked
  /\ unchecked' = unchecked \ {w}
  /\ CASE w \in managed /\ ~fatal[w] /\ ~Alive(w) /\ backoff[w] = 0 ->
            Terminate(w) /\ UNCHANGED fails
       [] w \in managed /\ ~fatal[w] /\ Alive(w) /\ IsStale(w) ->
            /\ fails' = [fails EXCEPT ![w] = @ + 1]
            /\ IF fails[w] + 1 > Failures
                 THEN Terminate(w)
                 ELSE UNCHANGED << proc, pipe, open, backoff, victim, pc, storm >>
       [] OTHER -> UNCHANGED << proc, pipe, open, backoff, fails, victim, pc,
                              storm >>
  /\ UNCHANGED << managed, gotStatus, firstSeen, age, fatal, restarts,
                  beatVars, startVars >>

(* _health_check, for one handle.                                          *)
Check(w) ==
  /\ pc = "polled" /\ w \in unchecked
  /\ unchecked' = unchecked \ {w}
  /\ CASE w \in managed /\ ~fatal[w] /\ ~Alive(w) /\ backoff[w] = 0 ->
            Terminate(w) /\ UNCHANGED fails
       [] w \in managed /\ ~fatal[w] /\ Alive(w) /\ IsStale(w) ->
            /\ fails' = [fails EXCEPT ![w] = @ + 1]
            /\ IF fails[w] + 1 >= Failures
                 THEN Terminate(w)
                 ELSE UNCHANGED << proc, pipe, open, backoff, victim, pc, storm >>
       [] w \in managed /\ ~fatal[w] /\ Alive(w) /\ ~IsStale(w) ->
            /\ fails' = [fails EXCEPT ![w] = 0]
            /\ UNCHANGED << proc, pipe, open, backoff, victim, pc, storm >>
       [] OTHER -> UNCHANGED << proc, pipe, open, backoff, fails, victim, pc,
                              storm >>
  /\ UNCHANGED << managed, gotStatus, firstSeen, age, fatal, restarts,
                  beatVars, startVars >>

(* A fresh handle; n and wait are the restart state it carries.            *)
Fresh(w, n, wait) ==
  /\ proc' = [proc EXCEPT ![w] = "starting"]
  /\ pipe' = [pipe EXCEPT ![w] = << >>]
  /\ open' = [open EXCEPT ![w] = TRUE]
  /\ gotStatus' = [gotStatus EXCEPT ![w] = FALSE]
  /\ firstSeen' = [firstSeen EXCEPT ![w] = FALSE]
  /\ age' = [age EXCEPT ![w] = 0]
  /\ fails' = [fails EXCEPT ![w] = 0]
  /\ fatal' = [fatal EXCEPT ![w] = FALSE]
  /\ restarts' = [restarts EXCEPT ![w] = n]
  /\ backoff' = [backoff EXCEPT ![w] = wait]
  /\ managed' = managed \cup {w}

(* Mutant of ResetHeartbeat: a restarted master has no grace window.       *)
KeepsHeartbeat(w) == UNCHANGED beatVars

(* _reset_master_heartbeat.                                                *)
ResetHeartbeat(w) ==
  IF w = Master THEN snapAge' = 0 /\ snapSeen' = FALSE /\ warning' = FALSE
                ELSE UNCHANGED beatVars

(* The second half of _restart: spawn, and put the new handle in the table,*)
(* whatever has become of the table.  It carries what is left of the pause.*)
Respawn ==
  /\ pc = "respawn"
  /\ Fresh(victim, Least(restarts[victim] + 1, MaxRestarts), backoff[victim])
  /\ ResetHeartbeat(victim)
  /\ replaced' = (replaced \/ (phase = "master" /\ victim = Master))
  /\ victim' = None
  /\ pc' = "polled"
  /\ UNCHANGED << unchecked, phase, waited, storm >>

EndTick ==
  /\ pc = "polled" /\ unchecked = {}
  /\ pc' = "top"
  /\ UNCHANGED << procVars, handleVars, beatVars, unchecked, victim, startVars,
                  storm >>

-----------------------------------------------------------------------------
(* The controller.                                                         *)

(* What the present wait of the start sequence waits for.                  *)
Ready ==
  CASE phase = "slaves" -> \A s \in Slaves : gotStatus[s]
    [] phase = "master" -> gotStatus[Master] /\ ~replaced

SlavesReady ==
  /\ pc = "top" /\ phase = "slaves" /\ Ready
  /\ phase' = "master"
  /\ waited' = 0
  /\ Fresh(Master, 0, 0)
  /\ ResetHeartbeat(Master)
  /\ UNCHANGED << pc, unchecked, victim, replaced, storm >>

MasterReady ==
  /\ pc = "top" /\ phase = "master" /\ Ready
  /\ phase' = "copying"
  /\ UNCHANGED << procVars, handleVars, beatVars, pc, unchecked, victim, waited,
                  replaced, storm >>

(* shutdown: every handle's process is terminated, every pipe closed.      *)
ShutDown(outcome) ==
  /\ phase' = outcome
  /\ proc' = [w \in Workers |-> IF w \in managed /\ Alive(w) THEN "dead"
                                                             ELSE proc[w]]
  /\ pipe' = [w \in Workers |-> << >>]
  /\ open' = [w \in Workers |-> FALSE]
  /\ managed' = {}
  /\ UNCHANGED << gotStatus, firstSeen, age, fails, fatal, restarts, backoff,
                  beatVars, pc, unchecked, victim, waited, replaced, storm >>

(* A wait of the start sequence times out; or Algo Trading is off.         *)
GivesUp ==
  /\ pc = "top" /\ phase \in {"slaves", "master"}
  /\ waited = StartTimeout /\ ~Ready
  /\ ShutDown("failed")

TradingDisabled ==
  /\ pc = "top" /\ phase \in {"slaves", "master"} /\ Ready
  /\ ShutDown("stopped")

StopRequested ==
  /\ phase = "copying"
  /\ phase' = "stopping"
  /\ UNCHANGED << procVars, handleVars, beatVars, pc, unchecked, victim, waited,
                  replaced, storm >>

(* Mutant of Joined: stop does not wait for the tick to end.               *)
NotJoined == pc \in {"top", "drained", "polled", "respawn"}

(* The supervisor's thread has left its loop, or join's wait is over: a    *)
(* restart is the one step that can take that long.                        *)
Joined == pc = "top" \/ (JoinTimesOut /\ pc = "respawn")

Stops == phase = "stopping" /\ Joined /\ ShutDown("stopped")

-----------------------------------------------------------------------------
Init ==
  /\ proc = [w \in Workers |-> IF w \in Slaves THEN "starting" ELSE "none"]
  /\ pipe = [w \in Workers |-> << >>]
  /\ managed = Slaves
  /\ open = [w \in Workers |-> w \in Slaves]
  /\ gotStatus = [w \in Workers |-> FALSE]
  /\ firstSeen = [w \in Workers |-> FALSE]
  /\ age = [w \in Workers |-> 0]
  /\ fails = [w \in Workers |-> 0]
  /\ fatal = [w \in Workers |-> FALSE]
  /\ restarts = [w \in Workers |-> 0]
  /\ backoff = [w \in Workers |-> 0]
  /\ snapAge = 0 /\ snapSeen = FALSE /\ warning = FALSE
  /\ pc = "top" /\ unchecked = {} /\ victim = None
  /\ phase = "slaves" /\ waited = 0 /\ replaced = FALSE
  /\ storm = [w \in Workers |-> 0]

Worker(w) == Connects(w) \/ SendsData(w) \/ FailsFatally(w) \/ Breaks(w)

Tick == \/ Drain \/ ReadMaster \/ Respawn \/ EndTick
        \/ \E w \in Workers : Check(w)

Control == \/ SlavesReady \/ MasterReady \/ GivesUp \/ TradingDisabled
           \/ StopRequested \/ Stops

Next == (\E w \in Workers : Worker(w)) \/ Passes \/ Tick \/ Control

Spec == Init /\ [][Next]_vars

(* The thread that ticks keeps ticking, and time passes.  Nothing is asked *)
(* of the workers or of the user.                                          *)
FairSpec == Spec /\ WF_vars(Tick) /\ WF_vars(Passes)

-----------------------------------------------------------------------------
TypeOK ==
  /\ proc \in [Workers -> {"none", "starting", "up", "hung", "dead"}]
  /\ pipe \in [Workers -> Seq({"first", "data", "fatal"})]
  /\ managed \subseteq Workers
  /\ open \in [Workers -> BOOLEAN]
  /\ gotStatus \in [Workers -> BOOLEAN]
  /\ firstSeen \in [Workers -> BOOLEAN]
  /\ age \in [Workers -> 0..AgeLimit]
  /\ fails \in [Workers -> 0..Failures]
  /\ fatal \in [Workers -> BOOLEAN]
  /\ restarts \in [Workers -> 0..MaxRestarts]
  /\ backoff \in [Workers -> 0..MaxBackoff]
  /\ snapAge \in 0..AgeLimit
  /\ snapSeen \in BOOLEAN /\ warning \in BOOLEAN
  /\ pc \in {"top", "drained", "polled", "respawn"}
  /\ unchecked \subseteq Workers
  /\ IF pc = "respawn" THEN victim \in Workers ELSE victim = None
  /\ phase \in {"slaves", "master", "copying", "stopping", "stopped", "failed"}
  /\ waited \in 0..StartTimeout
  /\ replaced \in BOOLEAN
  /\ storm \in [Workers -> 0..MaxStorm]

(* A worker that dies again and again before it says a word is restarted   *)
(* with growing pauses, "a death storm" is throttled: the n-th restart in a*)
(* row does not begin before the backoffs of those before it are over, each*)
(* counted from the beginning of its _restart, however long that takes to  *)
(* terminate and to kill the terminal.  The backoff survives the handle it *)
(* is kept in, and a worker that hangs in between cannot shorten it.       *)
StormIsThrottled ==
  \A w \in Workers : storm[w] >= StormTime[Begun(w)]

(* "No heartbeat from master" is reported only when it is true: no         *)
(* snapshot for twice the heartbeat, and not before a master that has just *)
(* been (re)started has had its grace window.                              *)
GraceIsKept ==
  warning => /\ snapAge > 2 * Heartbeat
             /\ ~firstSeen[Master] => age[Master] > Grace

(* After stop (or a failed start) no worker is left running, holding on to *)
(* its terminal or opening it again: stop joins the workers.               *)
NoWorkerSurvivesStop ==
  phase \in {"stopped", "failed"} => \A w \in Workers : ~Alive(w)

(* A worker that died or hangs comes back, unless it has reported a fatal  *)
(* error or the program is stopped.                                        *)
DownComesBack ==
  \A w \in Workers :
    (w \in managed /\ proc[w] \in {"dead", "hung"} /\ ~fatal[w])
      ~> (proc[w] = "starting" \/ fatal[w]
            \/ phase \in {"stopping", "stopped", "failed"})

-----------------------------------------------------------------------------
(* What the code's own comments say, and the order of events breaks.       *)

(* _health_check: "A worker that reported a FATAL error (...) must not be  *)
(* restarted".                                                             *)
FatalIsNotRestarted ==
  [][(pc # "respawn" /\ pc' = "respawn") =>
       \A i \in DOMAIN pipe[victim'] : pipe[victim'][i] # "fatal"]_vars

(* wait_for_master_status: "Tick until the master handle has reported its  *)
(* first StatusMsg": the start does not fail although it has.              *)
MasterStatusIsSeen ==
  [][(phase = "master" /\ phase' = "failed") => ~gotStatus[Master]]_vars
=============================================================================
