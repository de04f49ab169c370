---------------------------- MODULE SlaveWorker ----------------------------
(***************************************************************************)
(* A slave worker (manager/worker/mt5_worker.py) and the terminal it       *)
(* drives: commands become order_send calls on the legs of a copied        *)
(* trade, with retries; a leg is an open position whose comment            *)
(* CPY#ticket|MV|SV, or whose place in the manager's record, ties it to a  *)
(* master ticket.                                                          *)
(*                                                                         *)
(* One order_send call is one step, so the broker may close a leg, and the *)
(* worker or the whole program may die, between any two calls of one       *)
(* command.  The manager's side is reduced to what CopyEngine shows of it: *)
(* at most one unanswered command per ticket, an OPEN only without a       *)
(* record, the other commands only with one.  It does not wait for the     *)
(* recovery records of a worker it has restarted; only the start of the    *)
(* program does, for those of the first one.                               *)
(*                                                                         *)
(* Simplifications: the two scans a command starts with are one; an answer *)
(* is sent and applied in one step; volumes are whole lot units, the size  *)
(* of the copy is the master's (LotSizing has the sizing); SL and TP are   *)
(* one abstract level that rounding never fails on.                        *)
(***************************************************************************)
EXTENDS LotSizing, FiniteSets, Functions

CONSTANTS
  Tickets,        \* master tickets
  MasterVolumes,  \* volumes a master position can have
  Levels,         \* SL/TP settings
  Info,           \* volume_step, volume_min, volume_max of the symbol
  Hedging,        \* the slave account keeps positions apart
  RetryCount,     \* attempts per order
  OpenResults,    \* what can come of an opening order_send ...
  CloseResults,   \* ... of a closing one
  ModifyResults,  \* ... and of a change of SL/TP
  LostOn,         \* actions whose executed orders may go unanswered
  ScansFail,      \* positions_get may return None, read as "no positions"
  Mangled,        \* slave tickets whose comment the broker rewrites
  Restarts,       \* what may be restarted: "worker", "app"
  EarlyLoss,      \* the worker may be lost before the first snapshot
  MaxLegs,        \* bound: positions opened in a behaviour
  None

(* done      executed in full                                              *)
(* partial   executed in part (DONE_PARTIAL)                               *)
(* rejected  not executed                                                  *)
(* no_tick   not sent: the terminal has no tick or no symbol info          *)
(* and, of an order that could be done,                                    *)
(* lost      executed in full, but order_send returned no answer           *)
Results == {"done", "partial", "rejected", "no_tick"}

(* What the engine keeps, what it sends, and what the worker executes.     *)
Record == [slave_ticket : Nat, master_open_volume : MasterVolumes,
           slave_open_volume : Nat]

OpenCommand    == [action : {"OPEN"}, ticket : Tickets, volume : MasterVolumes,
                   master_volume : MasterVolumes, sltp : Levels]
ModifyCommand  == [action : {"MODIFY"}, ticket : Tickets, sltp : Levels,
                   slave_ticket : Nat]
PartialCommand == [action : {"PARTIAL_CLOSE"}, ticket : Tickets,
                   new_master_volume : MasterVolumes, slave_ticket : Nat,
                   master_open_volume : MasterVolumes, slave_open_volume : Nat]
CloseCommand   == [action : {"CLOSE"}, ticket : Tickets, slave_ticket : Nat]

Command == OpenCommand \cup ModifyCommand \cup PartialCommand \cup CloseCommand

Job == [cmd : Command, todo : Seq([leg : Nat, volume : Nat]),
        tries : 0..(RetryCount - 1), split : BOOLEAN, filled : Nat, first : Nat,
        before : Nat, failed : BOOLEAN]

ASSUME WorkerConstants ==
  /\ MasterVolumes \subseteq Nat \ {0}
  /\ Info \in [volume_step : Nat \ {0}, volume_min : Nat \ {0},
               volume_max : Nat \ {0}]
  /\ Hedging \in BOOLEAN /\ ScansFail \in BOOLEAN /\ EarlyLoss \in BOOLEAN
  /\ RetryCount \in Nat \ {0}
  /\ OpenResults \subseteq Results
  /\ CloseResults \subseteq Results
  /\ ModifyResults \subseteq Results \ {"partial"}
  /\ LostOn \subseteq {"OPEN", "MODIFY", "PARTIAL_CLOSE", "CLOSE"}
  /\ Restarts \subseteq {"worker", "app"}
  /\ MaxLegs \in Nat
  /\ None \notin Nat \cup Record \cup Command \cup Job

VARIABLES
  mvol,       \* the master's volume per ticket, 0 once closed
  seen,       \* tickets whose NEW event the engine has handled
  record,     \* the engine's linkage record per ticket, or None
  sent,       \* the unanswered command per ticket, or None
  starting,   \* the program waits for the recovery records
  ready,      \* the worker has sent its recovery records
  job,        \* what the worker executes, or None
  positions   \* every position ever opened on the slave; index = its ticket

vars == << mvol, seen, record, sent, starting, ready, job, positions >>
engineVars == << mvol, seen, record, sent, starting, ready >>

-----------------------------------------------------------------------------
(* The slave's terminal.  opened is what the position was opened with, sv  *)
(* what its comment says; ended tells a position the broker closed itself. *)
Leg == [of : Tickets, mv : MasterVolumes, sv : Nat, opened : Nat,
        volume : Nat, sltp : Levels, ended : BOOLEAN]

LiveLegs   == {i \in DOMAIN positions : positions[i].volume > 0}
LegsOf(t)  == {i \in LiveLegs : positions[i].of = t}
Intact(i)  == i \notin Mangled
Scans      == {LiveLegs} \cup (IF ScansFail THEN {{}} ELSE {})

Opened     == [i \in DOMAIN positions |-> positions[i].opened]
CommentSV  == [i \in DOMAIN positions |-> positions[i].sv]
Sum(f, legs) == SumFunctionOnSet(f, legs)

(* The positions of a scan whose comment names the ticket.                 *)
Commented(t, scan) == {i \in scan : Intact(i) /\ positions[i].of = t}

(* Mutants of FindLegs: only the recorded position; only what the comments *)
(* say; whatever was copied, of any ticket.                                *)
RecordedLegOnly(cmd, scan) == scan \cap {cmd.slave_ticket}
CommentedLegsOnly(cmd, scan) == Commented(cmd.ticket, scan)
AnyCopiedLeg(cmd, scan) == {i \in scan : Intact(i)} \cup (scan \cap {cmd.slave_ticket})

(* _find_legs: the union of the comment scan and the recorded position.    *)
FindLegs(cmd, scan) == Commented(cmd.ticket, scan) \cup (scan \cap {cmd.slave_ticket})

(* The orders the terminal may list them in.                               *)
Visits(legs) == Bijection(1..Cardinality(legs), legs)

-----------------------------------------------------------------------------
(* What a command asks of the terminal: lists of orders.                   *)
Order(leg, volume) == [leg |-> leg, volume |-> volume]

(* OPEN: split on a hedging account, clamped on a netting one.             *)
Chunks(volume) ==
  IF volume <= Info.volume_max THEN << volume >>
  ELSE IF Hedging THEN SplitVolume(volume, Info.volume_max, Info.volume_step,
                                   Info.volume_min)
                  ELSE << Info.volume_max >>

(* PARTIAL_CLOSE: a leg's own SV, or for a rewritten comment what the      *)
(* record leaves after the other legs' SV.                                 *)
ShareOf(i, cmd, legs) ==
  IF Intact(i) THEN CommentSV[i]
  ELSE cmd.slave_open_volume
         - Sum(CommentSV, {j \in legs \ {i} : Intact(j)})

(* Mutants of Excess: the fraction is taken of the recorded total; the     *)
(* volume to close is rounded up.                                          *)
ExcessOfTotal(i, cmd, legs) ==
  MinOf(positions[i].volume,
        ((positions[i].volume * cmd.master_open_volume
            - cmd.slave_open_volume * cmd.new_master_volume)
          \div (cmd.master_open_volume * Info.volume_step)) * Info.volume_step)

RoundsUp(i, cmd, legs) ==
  LET per_step == cmd.master_open_volume * Info.volume_step
      excess == positions[i].volume * cmd.master_open_volume
                  - ShareOf(i, cmd, legs) * cmd.new_master_volume
  IN  MinOf(positions[i].volume,
            ((excess + per_step - 1) \div per_step) * Info.volume_step)

(* What leg i has above its share of the master's new volume, in steps.    *)
Excess(i, cmd, legs) ==
  LET share == ShareOf(i, cmd, legs)
  IN  IF share <= 0 THEN 0
      ELSE MinOf(positions[i].volume,
                 ((positions[i].volume * cmd.master_open_volume
                     - share * cmd.new_master_volume)
                   \div (cmd.master_open_volume * Info.volume_step))
                   * Info.volume_step)

(* The legs a command has an order for, and the order's volume.            *)
Due(cmd, legs) ==
  IF cmd.action = "PARTIAL_CLOSE" THEN {i \in legs : Excess(i, cmd, legs) > 0}
                                  ELSE legs

VolumeFor(i, cmd, legs) ==
  CASE cmd.action = "CLOSE"         -> positions[i].volume
    [] cmd.action = "PARTIAL_CLOSE" -> Excess(i, cmd, legs)
    [] OTHER                        -> 0

Orders(cmd, legs) ==
  IF cmd.action = "OPEN"
    THEN {[k \in DOMAIN Chunks(cmd.volume) |-> Order(0, Chunks(cmd.volume)[k])]}
    ELSE {[k \in DOMAIN visit |-> Order(visit[k], VolumeFor(visit[k], cmd, legs))] :
            visit \in Visits(Due(cmd, legs))}

(* execute_command, up to its first order: the legs, the orders, and       *)
(* whether it has failed already.                                          *)
Receive(t) ==
  /\ ready /\ job = None /\ sent[t] # None
  /\ \E scan \in Scans :
       LET cmd  == sent[t]
           legs == IF cmd.action = "OPEN" THEN {} ELSE FindLegs(cmd, scan)
       IN  \E todo \in Orders(cmd, legs) :
             job' = [cmd |-> cmd, todo |-> todo, tries |-> 0,
                     split |-> Len(todo) > 1, filled |-> 0,
                     first |-> 0, before |-> Len(positions),
                     failed |-> cmd.action \in {"MODIFY", "PARTIAL_CLOSE"}
                                  /\ legs = {}]
  /\ UNCHANGED << engineVars, positions >>

-----------------------------------------------------------------------------
(* order_send and its retries.                                             *)

(* Mutant of OkCodes: a partial fill of a chunk is sent again.             *)
DoneOnly(j) == {"done"}

(* The results _order_send_with_retry takes for a success.                 *)
OkCodes(j) ==
  {"done"} \cup IF j.cmd.action = "OPEN" /\ j.split THEN {"partial"} ELSE {}

(* What the broker and the terminal can answer to the order now.           *)
CanHappen(j, order) ==
  LET or_lost == IF j.cmd.action \in LostOn THEN {"lost"} ELSE {}
  IN  CASE j.cmd.action = "OPEN" ->
             IF Len(positions) < MaxLegs THEN OpenResults \cup or_lost
                                         ELSE OpenResults \ {"done", "partial"}
        [] j.cmd.action = "MODIFY" ->
             IF order.leg \in LiveLegs THEN ModifyResults \cup or_lost
                                       ELSE {"rejected"}
        [] OTHER ->
             IF order.volume <= positions[order.leg].volume
               THEN CloseResults \cup or_lost ELSE {"rejected"}

VolumesDone(order, r) ==
  CASE r \in {"done", "lost"} -> {order.volume}
    [] r = "partial"          -> 1..(order.volume - 1)
    [] OTHER                  -> {0}

(* The positions once the order has been executed for volume v.            *)
Executed(j, order, r, v) ==
  IF r \notin {"done", "partial", "lost"} THEN positions
  ELSE CASE j.cmd.action = "OPEN" ->
              Append(positions,
                     [of |-> j.cmd.ticket, mv |-> j.cmd.master_volume,
                      sv |-> IF j.split THEN order.volume ELSE j.cmd.volume,
                      opened |-> v, volume |-> v, sltp |-> j.cmd.sltp,
                      ended |-> FALSE])
         [] j.cmd.action = "MODIFY" ->
              [positions EXCEPT ![order.leg].sltp = j.cmd.sltp]
         [] OTHER ->
              [positions EXCEPT ![order.leg].volume = @ - v]

(* Mutant of Accepted: the requested volume is reported as filled.         *)
CountsRequested(j, v) ==
  [j EXCEPT !.todo = Tail(@), !.tries = 0, !.filled = @ + Head(j.todo).volume,
            !.first = IF @ = 0 THEN Len(positions) + 1 ELSE @]

(* An order that succeeded: on to the next one.                            *)
Accepted(j, v) ==
  [j EXCEPT !.todo = Tail(@), !.tries = 0, !.filled = @ + v,
            !.first = IF @ = 0 THEN Len(positions) + 1 ELSE @]

(* Mutant of GivenUp: the failure of one leg is forgotten.                 *)
ForgetsFailure(j, r) ==
  IF j.cmd.action = "OPEN" THEN [j EXCEPT !.todo = << >>]
                           ELSE [j EXCEPT !.todo = Tail(@), !.tries = 0]

(* An order that failed for good: an OPEN stops, the other commands go on  *)
(* to the next leg and report the failure.                                 *)
GivenUp(j, r) ==
  IF j.cmd.action = "OPEN"
    THEN [j EXCEPT !.todo = << >>, !.failed = @ \/ r = "no_tick"]
    ELSE [j EXCEPT !.todo = Tail(@), !.tries = 0, !.failed = TRUE]

(* Mutants of Retried: nothing counts the attempts; one attempt too many.  *)
RetriesForever(j, r) == j

OneTryTooMany(j, r) ==
  IF r # "no_tick" /\ j.tries < RetryCount
    THEN [j EXCEPT !.tries = @ + 1] ELSE GivenUp(j, r)

(* A failed attempt is made again, at once with the same order.            *)
Retried(j, r) ==
  IF r # "no_tick" /\ j.tries + 1 < RetryCount
    THEN [j EXCEPT !.tries = @ + 1] ELSE GivenUp(j, r)

Attempt ==
  /\ job # None /\ job.todo # << >>
  /\ LET order == Head(job.todo)
     IN  \E r \in CanHappen(job, order) :
           /\ r = "no_tick" => job.tries = 0
           /\ \E v \in VolumesDone(order, r) :
                /\ positions' = Executed(job, order, r, v)
                /\ job' = IF r \in OkCodes(job) THEN Accepted(job, v)
                                                ELSE Retried(job, r)
  /\ UNCHANGED engineVars

-----------------------------------------------------------------------------
Finished(action) ==
  job # None /\ job.todo = << >> /\ job.cmd.action = action

Ok(j) == ~j.failed /\ (j.cmd.action = "OPEN" => j.filled > 0)

(* AckMsg.fill_volume of an OPEN.                                          *)
AckFill(j) == IF Ok(j) THEN j.filled ELSE 0

(* The AckMsg, and CopyEngine.apply_ack on it.                             *)
Answer ==
  /\ job # None /\ job.todo = << >>
  /\ LET t == job.cmd.ticket
     IN  /\ record' =
              CASE Ok(job) /\ job.cmd.action = "OPEN" ->
                     [record EXCEPT ![t].slave_ticket = job.first,
                                    ![t].slave_open_volume = AckFill(job)]
                [] Ok(job) /\ job.cmd.action = "CLOSE" ->
                     [record EXCEPT ![t] = None]
                [] OTHER -> record
         /\ sent' = [sent EXCEPT ![t] = None]
  /\ job' = None
  /\ UNCHANGED << mvol, seen, starting, ready, positions >>

(* The broker closes a leg: its SL or TP is hit, or a stop-out.            *)
BrokerCloses(i) ==
  /\ i \in LiveLegs
  /\ positions' = [positions EXCEPT ![i].volume = 0, ![i].ended = TRUE]
  /\ UNCHANGED << engineVars, job >>

-----------------------------------------------------------------------------
(* The manager's side.  The master's worker is spawned, and snapshots are  *)
(* read, once the start is over; a ticket's events wait for its answer.    *)

Linked(t) == record[t] # None /\ record[t].slave_ticket # 0
Hears(t)  == ~ starting /\ sent[t] = None

SendOpen(t) ==
  /\ Hears(t) /\ t \notin seen /\ mvol[t] > 0
  /\ seen' = seen \cup {t}
  /\ IF record[t] = None
       THEN /\ record' = [record EXCEPT ![t] =
                  [slave_ticket |-> 0, master_open_volume |-> mvol[t],
                   slave_open_volume |-> mvol[t]]]
            /\ \E l \in Levels :
                 sent' = [sent EXCEPT ![t] =
                   [action |-> "OPEN", ticket |-> t, volume |-> mvol[t],
                    master_volume |-> mvol[t], sltp |-> l]]
       ELSE UNCHANGED << record, sent >>
  /\ UNCHANGED << mvol, starting, ready, job, positions >>

SendModify(t, l) ==
  /\ Hears(t) /\ t \in seen /\ Linked(t) /\ mvol[t] > 0
  /\ sent' = [sent EXCEPT ![t] =
       [action |-> "MODIFY", ticket |-> t, sltp |-> l,
        slave_ticket |-> record[t].slave_ticket]]
  /\ UNCHANGED << mvol, seen, record, starting, ready, job, positions >>

(* A partial close of what is not linked is not sent.                      *)
SendPartial(t, v) ==
  /\ Hears(t) /\ t \in seen /\ v < mvol[t]
  /\ mvol' = [mvol EXCEPT ![t] = v]
  /\ IF Linked(t)
       THEN sent' = [sent EXCEPT ![t] =
              [action |-> "PARTIAL_CLOSE", ticket |-> t, new_master_volume |-> v,
               slave_ticket |-> record[t].slave_ticket,
               master_open_volume |-> record[t].master_open_volume,
               slave_open_volume |-> record[t].slave_open_volume]]
       ELSE UNCHANGED sent
  /\ UNCHANGED << seen, record, starting, ready, job, positions >>

SendClose(t) ==
  /\ Hears(t) /\ t \in seen /\ mvol[t] > 0
  /\ mvol' = [mvol EXCEPT ![t] = 0]
  /\ IF Linked(t)
       THEN /\ sent' = [sent EXCEPT ![t] =
                 [action |-> "CLOSE", ticket |-> t,
                  slave_ticket |-> record[t].slave_ticket]]
            /\ UNCHANGED record
       ELSE /\ record' = [record EXCEPT ![t] = None]
            /\ UNCHANGED sent
  /\ UNCHANGED << seen, starting, ready, job, positions >>

(* The first snapshot of a start names every copied ticket that is open.   *)
SnapshotRead ==
  \A t \in Tickets : mvol[t] > 0 /\ LegsOf(t) # {} => t \in seen

(* The worker dies, or the program with it; either way the records go and  *)
(* a new worker rebuilds them.  A new program knows no snapshot either,    *)
(* and waits for the records.                                              *)
Restart(what) ==
  /\ what \in Restarts
  /\ what = "worker" => EarlyLoss \/ starting \/ SnapshotRead
  /\ starting' = (starting \/ what = "app")
  /\ ready' = FALSE
  /\ record' = [t \in Tickets |-> None]
  /\ sent' = [t \in Tickets |-> None]
  /\ job' = None
  /\ seen' = IF what = "app" THEN {} ELSE seen
  /\ UNCHANGED << mvol, positions >>

(* Mutant of Recovered: a ticket that has several legs is dropped.         *)
SingleLegsOnly(legs, first) ==
  IF Cardinality(legs) # 1 THEN None
  ELSE [slave_ticket |-> first, master_open_volume |-> positions[first].mv,
        slave_open_volume |-> Sum(CommentSV, legs)]

(* build_recovery_records and seed_from_recovery: one record per ticket,   *)
(* the first listed leg's, with the legs' SV added up, unless the table    *)
(* has one.                                                                *)
Recovered(legs, first) ==
  IF legs = {} THEN None
  ELSE [slave_ticket |-> first, master_open_volume |-> positions[first].mv,
        slave_open_volume |-> Sum(CommentSV, legs)]

Recover ==
  /\ ~ready
  /\ ready' = TRUE /\ starting' = FALSE
  /\ \E scan \in Scans : \E first \in [Tickets -> scan \cup {0}] :
       /\ \A t \in Tickets : Commented(t, scan) # {} => first[t] \in Commented(t, scan)
       /\ record' = [t \in Tickets |->
            IF record[t] # None THEN record[t]
                                ELSE Recovered(Commented(t, scan), first[t])]
  /\ UNCHANGED << mvol, seen, sent, job, positions >>

-----------------------------------------------------------------------------
Init ==
  /\ mvol \in [Tickets -> MasterVolumes]
  /\ seen = {}
  /\ record = [t \in Tickets |-> None]
  /\ sent = [t \in Tickets |-> None]
  /\ starting = FALSE /\ ready = TRUE
  /\ job = None
  /\ positions = << >>

Next ==
  \/ Attempt
  \/ Answer
  \/ Recover
  \/ \E what \in Restarts : Restart(what)
  \/ \E i \in DOMAIN positions : BrokerCloses(i)
  \/ \E t \in Tickets :
       \/ Receive(t)
       \/ SendOpen(t)
       \/ \E l \in Levels : SendModify(t, l)
       \/ \E v \in MasterVolumes : SendPartial(t, v)
       \/ SendClose(t)

Spec == Init /\ [][Next]_vars

(* A worker that is spawned connects and sends its records; its loop takes *)
(* the commands of its pipe in order and makes one attempt after the       *)
(* other; order_send returns.                                              *)
FairSpec ==
  /\ Spec
  /\ WF_vars(Recover)
  /\ \A t \in Tickets : SF_vars(Receive(t))
  /\ WF_vars(Attempt)
  /\ WF_vars(Answer)

-----------------------------------------------------------------------------
TypeOK ==
  /\ mvol \in [Tickets -> MasterVolumes \cup {0}]
  /\ seen \subseteq Tickets
  /\ record \in [Tickets -> Record \cup {None}]
  /\ sent \in [Tickets -> Command \cup {None}]
  /\ \A t \in Tickets : sent[t] # None => sent[t].ticket = t
  /\ starting \in BOOLEAN /\ ready \in BOOLEAN
  /\ job \in Job \cup {None}
  /\ job # None => job.cmd = sent[job.cmd.ticket]
  /\ positions \in Seq(Leg)

(* The slave never holds more of a master position than the volume it was  *)
(* told to copy: not by a retry, a split that is sent again, an event read *)
(* before the records of a restarted worker, or a restart of the program,  *)
(* as long as no worker is lost before the first snapshot (~EarlyLoss).    *)
NeverOverfills ==
  \A t \in Tickets : \A i \in LegsOf(t) :
    Sum(Opened, LegsOf(t)) <= positions[i].mv

(* The answer to an OPEN tells the volume that was really opened, all legs *)
(* together; a failed one has opened nothing.  The record, the partial     *)
(* closes and the recovery rest on it.                                     *)
FillIsTrue ==
  Finished("OPEN") =>
    AckFill(job) = Sum(Opened, (job.before + 1)..Len(positions))

(* The legs the manager can still reach: by comment or by its record.      *)
Reachable(cmd) ==
  {i \in LegsOf(cmd.ticket) : Intact(i) \/ i = cmd.slave_ticket}

(* An ok answer to a CLOSE means that no leg of the copied trade is left:  *)
(* the engine drops the record on it and never looks again.                *)
CloseLeavesNothing ==
  (Finished("CLOSE") /\ Ok(job)) => Reachable(job.cmd) = {}

(* An ok answer to a MODIFY means that every leg has the new SL/TP, also   *)
(* one whose comment was rewritten.                                        *)
ModifyReachesEveryLeg ==
  (Finished("MODIFY") /\ Ok(job)) =>
    \A i \in Reachable(job.cmd) : positions[i].sltp = job.cmd.sltp

(* "A partial close on the master closes the same fraction on the slave":  *)
(* after an ok answer no leg is a whole lot step or more above its share.  *)
PartialKeepsProportion ==
  (Finished("PARTIAL_CLOSE") /\ Ok(job)) =>
    \A i \in Reachable(job.cmd) :
      LET mo == job.cmd.master_open_volume
      IN  positions[i].volume * mo
            < positions[i].opened * job.cmd.new_master_volume
                + Info.volume_step * mo

(* ... and the slave never closes a larger fraction of a leg than the      *)
(* master has closed of its position; in particular it closes nothing of   *)
(* another ticket.                                                         *)
NeverClosesMoreThanMaster ==
  \A i \in DOMAIN positions :
    LET p == positions[i]
    IN  ~p.ended => p.volume * p.mv >= p.opened * mvol[p.of]

(* Every command is answered in the end, whatever the broker does, or the  *)
(* worker is restarted: the engine holds the ticket's events until then.   *)
CommandIsAnswered == \A t \in Tickets : sent[t] # None ~> sent[t] = None
=============================================================================
