----------------------------- MODULE CopyEngine -----------------------------
(***************************************************************************)
(* The copy engine of the manager (manager/engine/copy_loop.py) with the   *)
(* routing the supervisor does around it (manager/supervisor.py): master   *)
(* snapshots are diffed into events, events become commands for the slave  *)
(* workers, acknowledgements and symbol-info replies update the linkage    *)
(* table and release the events held back meanwhile.                       *)
(*                                                                         *)
(* One handler of the supervisor's thread is one action.  The worker at    *)
(* the other end of a pipe is only its obligations: it answers each        *)
(* command once, in any order, answers each symbol-info request, sends its *)
(* recovery records before anything else, and may die at any time, taking  *)
(* what it has not answered with it.                                       *)
(*                                                                         *)
(* Simplifications:                                                        *)
(*  - SL and TP are one abstract level; prices and the side are left out;  *)
(*  - a ticket's symbol and open time are constants, as they are in MT5;   *)
(*    the magic is a function of the ticket and is left out;               *)
(*  - what a ticket's events do depends on that ticket's state only (and   *)
(*    on the slave's configuration, symbols and balance, which no event    *)
(*    changes), so the tickets of a snapshot are handled side by side and  *)
(*    the order of commands for different tickets is not modelled;         *)
(*  - a slave's configuration is replaced in one step (the code assigns    *)
(*    its fields one by one from the GUI's thread).                        *)
(***************************************************************************)
EXTENDS LotSizing, FiniteSets

CONSTANTS
  Slaves,        \* slave ids
  Tickets,       \* master tickets
  Symbols,       \* symbol names, of the master and of the slaves
  SymbolOf,      \* [Tickets -> Symbols]
  OpenTime,      \* [Tickets -> Nat], in minutes
  Volumes,       \* volumes a master position can have, in lot units
  Levels,        \* SL/TP settings a master position can have
  SlaveTickets,  \* tickets the slave terminals give to positions
  Times,         \* snapshot timestamps, in minutes
  Configs,       \* slave configurations the user can enter
  InfoOf,        \* [Symbols -> volume fields of the symbol's SymbolInfo]
  Balances,      \* account balances a slave reports
  Fills,         \* volumes an OPEN can be filled with
  None           \* Python's None, and the resolver's ""

Position == [volume : Volumes, sltp : Levels]
Event    == [kind : {"NEW", "MODIFY", "PARTIAL", "CLOSE"}, position : Position]
Record   == [slave_ticket : SlaveTickets \cup {0}, master_open_volume : Volumes,
             slave_open_volume : Int]

OpenCommand ==
  [action : {"OPEN"}, ticket : Tickets, symbol : Symbols, volume : Int,
   sltp : Levels, master_volume : Volumes]
ModifyCommand ==
  [action : {"MODIFY"}, ticket : Tickets, slave_ticket : SlaveTickets,
   sltp : Levels]
PartialCommand ==
  [action : {"PARTIAL_CLOSE"}, ticket : Tickets, slave_ticket : SlaveTickets,
   new_master_volume : Volumes, master_open_volume : Volumes,
   slave_open_volume : Int]
CloseCommand ==
  [action : {"CLOSE"}, ticket : Tickets, slave_ticket : SlaveTickets]
Command == OpenCommand \cup ModifyCommand \cup PartialCommand \cup CloseCommand

Config ==
  [sizing_mode : {"balance_step", "copy_master", "fixed_lot"},
   step_amount : Int, step_size : Int, master_base_lot : Int,
   fixed_lot : Int, max_lot : Int, max_trade_age_minutes : Int,
   symbol_map : [Symbols -> Symbols \cup {None}]]

ASSUME ConstantsOK ==
  /\ SymbolOf \in [Tickets -> Symbols]
  /\ OpenTime \in [Tickets -> Nat]
  /\ Volumes \subseteq Nat \ {0}
  /\ SlaveTickets \subseteq Nat \ {0}
  /\ Times \subseteq Nat
  /\ Configs \subseteq Config
  /\ InfoOf \in [Symbols -> [volume_step : Nat \ {0}, volume_min : Nat \ {0},
                             volume_max : Nat \ {0}]]
  /\ Balances \subseteq Int
  /\ Fills \subseteq Int

ASSUME NoneIsNoValue ==
  /\ None \notin Symbols
  /\ None \notin Position
  /\ None \notin Event
  /\ None \notin Record

VARIABLES
  (* CopyEngine *)
  prev,              \* _prev: the last snapshot, [Tickets -> Position or None]
  lastNow,           \* _last_now
  infoRequests,      \* _info_requests: symbols to ask for at the next snapshot
  (* SlaveState, one per slave *)
  config,
  table,             \* RecordTable
  symbolInfos,       \* symbols whose SymbolInfo is known
  balance,
  pending,           \* tickets with a command whose ack is awaited
  held,              \* events held back, [Tickets -> Event or None]
  infoInflight,
  confirmedMissing,
  (* the pipes and the workers *)
  up,                \* the manager's end of the pipe is open
  recovered,         \* the worker's RecoveryMsg has been read
  commands,          \* commands sent and not answered
  asked              \* symbol-info requests sent and not answered, in order

engineVars == << prev, lastNow, infoRequests >>
slaveVars  == << config, table, symbolInfos, balance, pending, held,
                 infoInflight, confirmedMissing >>
pipeVars   == << up, recovered, commands, asked >>
vars       == << engineVars, slaveVars, pipeVars >>

-----------------------------------------------------------------------------
(* derive_command: pure, it reads the slave's state and decides.           *)

Skip           == [action |-> "SKIP"]
AwaitInfo(sym) == [action |-> "AWAIT", symbol |-> sym]

Context(s) ==
  [config |-> config[s], infos |-> symbolInfos[s],
   missing |-> confirmedMissing[s], balance |-> balance[s]]

IsTooOld(open_time, now, max_age) == open_time # 0 /\ now - open_time > max_age

(* SymbolMapper.resolve: a map row (exact or regex), else the same name if *)
(* the slave has it, else nothing.                                         *)
Resolve(ctx, sym) ==
  IF ctx.config.symbol_map[sym] # None THEN ctx.config.symbol_map[sym]
  ELSE IF sym \in ctx.infos THEN sym ELSE None

(* Mutants of DeriveNew: the table is not looked at; a symbol that does    *)
(* not resolve is asked for; a symbol known to be missing is asked again.  *)
NewOpensAgain(ctx, t, pos, rec, now) ==
  LET sym == Resolve(ctx, SymbolOf[t])
  IN  IF sym \notin ctx.infos THEN Skip
      ELSE [action |-> "OPEN", ticket |-> t, symbol |-> sym,
            volume |-> pos.volume, sltp |-> pos.sltp,
            master_volume |-> pos.volume]

NewAsksUnresolved(ctx, t, pos, rec, now) ==
  IF rec # None THEN Skip ELSE AwaitInfo(Resolve(ctx, SymbolOf[t]))

NewForgetsMissing(ctx, t, pos, rec, now) ==
  LET sym == Resolve(ctx, SymbolOf[t])
  IN  IF rec # None \/ sym = None \/ sym \in ctx.infos THEN Skip
                                                      ELSE AwaitInfo(sym)

DeriveNew(ctx, t, pos, rec, now) ==
  LET sym  == Resolve(ctx, SymbolOf[t])
      lots == CalculateSlaveLot(ctx.config, pos.volume, ctx.balance, InfoOf[sym])
  IN  IF \/ rec # None
         \/ IsTooOld(OpenTime[t], now, ctx.config.max_trade_age_minutes)
         \/ sym = None
        THEN Skip
      ELSE IF sym \notin ctx.infos
        THEN IF sym \in ctx.missing THEN Skip ELSE AwaitInfo(sym)
      ELSE IF lots <= 0 THEN Skip
      ELSE [action |-> "OPEN", ticket |-> t, symbol |-> sym, volume |-> lots,
            sltp |-> pos.sltp, master_volume |-> pos.volume]

(* MODIFY, PARTIAL and CLOSE go to the slave position the record names.    *)
DeriveLinked(t, ev, rec) ==
  IF rec = None \/ rec.slave_ticket = 0 THEN Skip
  ELSE CASE ev.kind = "MODIFY" ->
              [action |-> "MODIFY", ticket |-> t,
               slave_ticket |-> rec.slave_ticket, sltp |-> ev.position.sltp]
         [] ev.kind = "PARTIAL" ->
              [action |-> "PARTIAL_CLOSE", ticket |-> t,
               slave_ticket |-> rec.slave_ticket,
               new_master_volume |-> ev.position.volume,
               master_open_volume |-> rec.master_open_volume,
               slave_open_volume |-> rec.slave_open_volume]
         [] ev.kind = "CLOSE" ->
              [action |-> "CLOSE", ticket |-> t,
               slave_ticket |-> rec.slave_ticket]

Derive(ctx, t, ev, rec, now) ==
  IF ev.kind = "NEW" THEN DeriveNew(ctx, t, ev.position, rec, now)
                     ELSE DeriveLinked(t, ev, rec)

-----------------------------------------------------------------------------
(***************************************************************************)
(* What the engine keeps of one ticket on one slave, and what it emits for *)
(* it: the handlers below transform this.                                  *)
(***************************************************************************)
Cell(s, t) ==
  [record |-> table[s][t], held |-> held[s][t], pending |-> t \in pending[s],
   commands |-> {}, asks |-> {}]

(* Mutants of Rederive: an OPEN leaves no optimistic record; a CLOSE does  *)
(* not remove a failed open's marker.                                      *)
NoOptimisticRecord(ctx, t, ev, cell, now) ==
  LET cmd == Derive(ctx, t, ev, cell.record, now)
  IN  CASE cmd.action = "AWAIT" -> [cell EXCEPT !.held = ev, !.asks = {cmd.symbol}]
        [] cmd.action = "SKIP" -> cell
        [] OTHER -> [cell EXCEPT !.pending = TRUE, !.commands = @ \cup {cmd}]

KeepsMarker(ctx, t, ev, cell, now) ==
  LET next == NoOptimisticRecord(ctx, t, ev, cell, now)
  IN  IF \E cmd \in next.commands : cmd.action = "OPEN"
        THEN [next EXCEPT !.record = [slave_ticket |-> 0,
                                      master_open_volume |-> ev.position.volume,
                                      slave_open_volume |-> 0]]
        ELSE next

(* _rederive: the one place where an event becomes a command, is parked    *)
(* until symbol info arrives, or is dropped.  A CLOSE that finds only the  *)
(* marker of a failed open removes the marker.                             *)
Rederive(ctx, t, ev, cell, now) ==
  LET cmd == Derive(ctx, t, ev, cell.record, now)
      rec == cell.record
  IN  CASE cmd.action = "AWAIT" ->
             [cell EXCEPT !.held = ev, !.asks = {cmd.symbol}]
        [] cmd.action = "SKIP" ->
             IF ev.kind = "CLOSE" /\ rec # None /\ rec.slave_ticket = 0
               THEN [cell EXCEPT !.record = None] ELSE cell
        [] cmd.action = "OPEN" ->
             [cell EXCEPT !.pending = TRUE, !.commands = @ \cup {cmd},
                !.record = [slave_ticket |-> 0,
                            master_open_volume |-> ev.position.volume,
                            slave_open_volume |-> cmd.volume]]
        [] OTHER ->
             [cell EXCEPT !.pending = TRUE, !.commands = @ \cup {cmd}]

(* Mutants of HandleEvent: an unanswered command does not hold events      *)
(* back; the first event held is kept.                                     *)
IgnoresPending(ctx, t, ev, cell, now) ==
  IF cell.held # None THEN [cell EXCEPT !.held = ev]
                      ELSE Rederive(ctx, t, ev, cell, now)

KeepsFirstEvent(ctx, t, ev, cell, now) ==
  IF cell.held # None THEN cell
  ELSE IF cell.pending THEN [cell EXCEPT !.held = ev]
  ELSE Rederive(ctx, t, ev, cell, now)

(* _handle_event: while a command is unanswered or an event is held, the   *)
(* latest event replaces what was held.                                    *)
HandleEvent(ctx, t, ev, cell, now) ==
  IF cell.pending \/ cell.held # None THEN [cell EXCEPT !.held = ev]
                                      ELSE Rederive(ctx, t, ev, cell, now)

(* diff, for one ticket: p and c are its previous and current positions.   *)
(* PARTIAL and MODIFY can both fire, in this order.                        *)
Fires(p, c, kind) ==
  CASE kind = "NEW"     -> p = None /\ c # None
    [] kind = "PARTIAL" -> p # None /\ c # None /\ c.volume < p.volume
    [] kind = "MODIFY"  -> p # None /\ c # None /\ c.sltp # p.sltp
    [] kind = "CLOSE"   -> p # None /\ c = None

HandleDiff(ctx, t, p, c, cell, now) ==
  LET pos == IF c = None THEN p ELSE c
      Step(x, kind) ==
        IF Fires(p, c, kind)
          THEN HandleEvent(ctx, t, [kind |-> kind, position |-> pos], x, now)
          ELSE x
  IN  Step(Step(Step(Step(cell, "NEW"), "PARTIAL"), "MODIFY"), "CLOSE")

(* apply_ack's change of the record.                                       *)
AckedRecord(cmd, ok, slave_ticket, fill, rec) ==
  CASE cmd.action = "OPEN" /\ ok /\ rec # None ->
         [rec EXCEPT !.slave_ticket = slave_ticket, !.slave_open_volume = fill]
    [] cmd.action = "CLOSE" /\ ok -> None
    [] OTHER -> rec

(* Mutant of Freed: only a success ends the wait.                          *)
StaysPendingOnFailure(cmd, ok, slave_ticket, fill, rec) ==
  [record |-> AckedRecord(cmd, ok, slave_ticket, fill, rec), held |-> None,
   pending |-> ~ok, commands |-> {}, asks |-> {}]

(* The ticket once its answer is in: nothing unanswered, nothing held.     *)
Freed(cmd, ok, slave_ticket, fill, rec) ==
  [record |-> AckedRecord(cmd, ok, slave_ticket, fill, rec), held |-> None,
   pending |-> FALSE, commands |-> {}, asks |-> {}]

-----------------------------------------------------------------------------
Emitted(cells) == UNION {cells[t].commands : t \in Tickets}
Asked(cells)   == UNION {cells[t].asks : t \in Tickets}

(* _send drops a message when the pipe is closed.                          *)
Sent(s, msgs) == IF up[s] THEN msgs ELSE {}

(* Write the tickets of slave s back.                                      *)
Store(s, cells) ==
  /\ table'   = [table EXCEPT ![s] = [t \in Tickets |-> cells[t].record]]
  /\ held'    = [held EXCEPT ![s] = [t \in Tickets |-> cells[t].held]]
  /\ pending' = [pending EXCEPT ![s] = {t \in Tickets : cells[t].pending}]

(***************************************************************************)
(* _read_master on a SnapshotMsg: ingest_snapshot for every slave, the     *)
(* commands sent, then the queued symbol-info requests popped and sent.    *)
(***************************************************************************)
ReadSnapshot(curr, now) ==
  LET cells == [s \in Slaves |-> [t \in Tickets |->
                 HandleDiff(Context(s), t, prev[t], curr[t], Cell(s, t), now)]]
      asks  == [s \in Slaves |->
                 Asked(cells[s]) \ (infoInflight[s] \cup confirmedMissing[s])]
      request == [s \in Slaves |-> infoRequests[s] \cup asks[s]]
  IN  /\ prev' = curr
      /\ lastNow' = now
      /\ table' = [s \in Slaves |-> [t \in Tickets |-> cells[s][t].record]]
      /\ held' = [s \in Slaves |-> [t \in Tickets |-> cells[s][t].held]]
      /\ pending' = [s \in Slaves |-> {t \in Tickets : cells[s][t].pending}]
      /\ commands' = [s \in Slaves |->
                        commands[s] \cup Sent(s, Emitted(cells[s]))]
      /\ infoInflight' = [s \in Slaves |-> infoInflight[s] \cup asks[s]]
      /\ infoRequests' = [s \in Slaves |-> {}]
      /\ asked' = [s \in Slaves |-> IF up[s] /\ request[s] # {}
                                      THEN Append(asked[s], request[s])
                                      ELSE asked[s]]
      /\ UNCHANGED << config, symbolInfos, balance, confirmedMissing, up,
                      recovered >>

(***************************************************************************)
(* _dispatch_slave on an AckMsg: apply_ack, and the command a held event   *)
(* becomes is sent.  fill is the volume the worker reports.                *)
(***************************************************************************)
ApplyAck(s, cmd, ok, slave_ticket, fill) ==
  LET t     == cmd.ticket
      freed == Freed(cmd, ok, slave_ticket, fill, table[s][t])
      cell  == IF held[s][t] = None THEN freed
               ELSE Rederive(Context(s), t, held[s][t], freed, lastNow)
      asks  == cell.asks \ (infoInflight[s] \cup confirmedMissing[s])
  IN  /\ up[s] /\ recovered[s]
      /\ cmd \in commands[s]
      /\ table' = [table EXCEPT ![s][t] = cell.record]
      /\ held' = [held EXCEPT ![s][t] = cell.held]
      /\ pending' = [pending EXCEPT ![s] = IF cell.pending THEN @ \cup {t}
                                                           ELSE @ \ {t}]
      /\ commands' = [commands EXCEPT ![s] = (@ \ {cmd}) \cup cell.commands]
      /\ infoInflight' = [infoInflight EXCEPT ![s] = @ \cup asks]
      /\ infoRequests' = [infoRequests EXCEPT ![s] = @ \cup asks]
      /\ UNCHANGED << prev, lastNow, config, symbolInfos, balance,
                      confirmedMissing, up, recovered, asked >>

(***************************************************************************)
(* _dispatch_slave on the SymbolInfoMsg that answers a request: the        *)
(* requested symbols not found are confirmed missing, and every event held *)
(* for another reason than an unanswered command is derived again.         *)
(***************************************************************************)
ApplySymbolInfo(s, found) ==
  LET req   == Head(asked[s])
      ctx   == [Context(s) EXCEPT !.infos = @ \cup found,
                                  !.missing = @ \cup (req \ found)]
      cells == [t \in Tickets |->
                 IF held[s][t] # None /\ t \notin pending[s]
                   THEN Rederive(ctx, t, held[s][t],
                                 [Cell(s, t) EXCEPT !.held = None], lastNow)
                   ELSE Cell(s, t)]
      still == infoInflight[s] \ req
      asks  == Asked(cells) \ (still \cup ctx.missing)
  IN  /\ up[s] /\ recovered[s]
      /\ asked[s] # << >>
      /\ found \subseteq req
      /\ symbolInfos' = [symbolInfos EXCEPT ![s] = ctx.infos]
      /\ confirmedMissing' = [confirmedMissing EXCEPT ![s] = ctx.missing]
      /\ Store(s, cells)
      /\ commands' = [commands EXCEPT ![s] = @ \cup Emitted(cells)]
      /\ infoInflight' = [infoInflight EXCEPT ![s] = still \cup asks]
      /\ infoRequests' = [infoRequests EXCEPT ![s] = @ \cup asks]
      /\ asked' = [asked EXCEPT ![s] = Tail(@)]
      /\ UNCHANGED << prev, lastNow, config, balance, up, recovered >>

(* The SymbolInfoMsg a worker sends unasked, on connect and after a        *)
(* reconfigure: infos for the symbols its map names, nothing re-derived.   *)
MappedSymbols(cfg) == {cfg.symbol_map[sym] : sym \in Symbols} \ {None}

ReportSymbolInfo(s, cfg, found) ==
  /\ up[s] /\ recovered[s]
  /\ found \subseteq MappedSymbols(cfg)
  /\ symbolInfos' = [symbolInfos EXCEPT ![s] = @ \cup found]
  /\ UNCHANGED << engineVars, config, table, balance, pending, held,
                  infoInflight, confirmedMissing, pipeVars >>

ApplyStatus(s, bal) ==
  /\ up[s] /\ recovered[s]
  /\ balance' = [balance EXCEPT ![s] = bal]
  /\ UNCHANGED << engineVars, config, table, symbolInfos, pending, held,
                  infoInflight, confirmedMissing, pipeVars >>

(* apply_recovery: seeded are the merged records of the worker's batch; a  *)
(* ticket already in the table is skipped.                                 *)
SeededTables ==
  [Tickets -> [slave_ticket : SlaveTickets, master_open_volume : Volumes,
               slave_open_volume : Fills] \cup {None}]

ApplyRecovery(s, seeded) ==
  /\ up[s] /\ ~recovered[s]
  /\ recovered' = [recovered EXCEPT ![s] = TRUE]
  /\ table' = [table EXCEPT ![s] = [t \in Tickets |->
                 IF table[s][t] # None THEN table[s][t] ELSE seeded[t]]]
  /\ UNCHANGED << engineVars, config, symbolInfos, balance, pending, held,
                  infoInflight, confirmedMissing, up, commands, asked >>

(* The worker dies: the manager finds the pipe closed, and what the worker *)
(* had not answered is lost.                                               *)
LoseWorker(s) ==
  /\ up[s]
  /\ up' = [up EXCEPT ![s] = FALSE]
  /\ commands' = [commands EXCEPT ![s] = {}]
  /\ asked' = [asked EXCEPT ![s] = << >>]
  /\ UNCHANGED << engineVars, slaveVars, recovered >>

(* _restart: reset_slave, then a new worker on a new pipe.  The queue of   *)
(* symbol-info requests not sent yet is not cleared.                       *)
RestartWorker(s) ==
  /\ ~up[s]
  /\ up' = [up EXCEPT ![s] = TRUE]
  /\ recovered' = [recovered EXCEPT ![s] = FALSE]
  /\ table' = [table EXCEPT ![s] = [t \in Tickets |-> None]]
  /\ pending' = [pending EXCEPT ![s] = {}]
  /\ held' = [held EXCEPT ![s] = [t \in Tickets |-> None]]
  /\ infoInflight' = [infoInflight EXCEPT ![s] = {}]
  /\ UNCHANGED << engineVars, config, symbolInfos, balance, confirmedMissing,
                  commands, asked >>

UpdateSlaveConfig(s, cfg) ==
  /\ config' = [config EXCEPT ![s] = cfg]
  /\ UNCHANGED << engineVars, table, symbolInfos, balance, pending, held,
                  infoInflight, confirmedMissing, pipeVars >>

-----------------------------------------------------------------------------
(* Controller.start spawns the master only after every slave has reported  *)
(* its recovery records, its symbol infos and its balance.                 *)
Init ==
  /\ prev = [t \in Tickets |-> None]
  /\ lastNow = 0
  /\ infoRequests = [s \in Slaves |-> {}]
  /\ config \in [Slaves -> Configs]
  /\ table \in [Slaves -> SeededTables]
  /\ symbolInfos \in [Slaves -> SUBSET Symbols]
  /\ \A s \in Slaves : symbolInfos[s] \subseteq MappedSymbols(config[s])
  /\ balance \in [Slaves -> Balances]
  /\ pending = [s \in Slaves |-> {}]
  /\ held = [s \in Slaves |-> [t \in Tickets |-> None]]
  /\ infoInflight = [s \in Slaves |-> {}]
  /\ confirmedMissing = [s \in Slaves |-> {}]
  /\ up = [s \in Slaves |-> TRUE]
  /\ recovered = [s \in Slaves |-> TRUE]
  /\ commands = [s \in Slaves |-> {}]
  /\ asked = [s \in Slaves |-> << >>]

Snapshots == [Tickets -> Position \cup {None}]

ReadSomeSnapshot == \E curr \in Snapshots, now \in Times : ReadSnapshot(curr, now)

ApplyAckOf(s, t) ==
  \E cmd \in commands[s], ok \in BOOLEAN, st \in SlaveTickets, fill \in Fills :
    cmd.ticket = t /\ ApplyAck(s, cmd, ok, st, fill)

ApplySomeSymbolInfo(s) == \E found \in SUBSET Symbols : ApplySymbolInfo(s, found)

Next ==
  \/ ReadSomeSnapshot
  \/ \E s \in Slaves :
       \/ \E t \in Tickets : ApplyAckOf(s, t)
       \/ ApplySomeSymbolInfo(s)
       \/ \E cfg \in Configs, found \in SUBSET Symbols :
            ReportSymbolInfo(s, cfg, found)
       \/ \E bal \in Balances : ApplyStatus(s, bal)
       \/ \E seeded \in SeededTables : ApplyRecovery(s, seeded)
       \/ LoseWorker(s)
       \/ RestartWorker(s)
       \/ \E cfg \in Configs : UpdateSlaveConfig(s, cfg)

Spec == Init /\ [][Next]_vars

-----------------------------------------------------------------------------
(* Safety.                                                                 *)

TypeOK ==
  /\ prev \in [Tickets -> Position \cup {None}]
  /\ lastNow \in Nat
  /\ infoRequests \in [Slaves -> SUBSET Symbols]
  /\ config \in [Slaves -> Config]
  /\ table \in [Slaves -> [Tickets -> Record \cup {None}]]
  /\ symbolInfos \in [Slaves -> SUBSET Symbols]
  /\ balance \in [Slaves -> Int]
  /\ pending \in [Slaves -> SUBSET Tickets]
  /\ held \in [Slaves -> [Tickets -> Event \cup {None}]]
  /\ infoInflight \in [Slaves -> SUBSET Symbols]
  /\ confirmedMissing \in [Slaves -> SUBSET Symbols]
  /\ up \in [Slaves -> BOOLEAN]
  /\ recovered \in [Slaves -> BOOLEAN]
  /\ commands \in [Slaves -> SUBSET Command]
  /\ asked \in [Slaves -> Seq(SUBSET Symbols)]

(* pending is exactly the set of tickets whose worker owes an answer, and  *)
(* it never owes two for one ticket: a MODIFY cannot overtake or cross the *)
(* OPEN or PARTIAL_CLOSE of its own position, and no ticket stays blocked  *)
(* for an answer that nobody will send (unless the worker is down).        *)
OneCommandPerTicket ==
  \A s \in Slaves :
    /\ \A c, d \in commands[s] : c.ticket = d.ticket => c = d
    /\ \A c \in commands[s] : c.ticket \in pending[s]
    /\ up[s] => \A t \in pending[s] : \E c \in commands[s] : c.ticket = t

(* What is on its way agrees with the table: an OPEN has its optimistic    *)
(* record, every other command names the slave position of the record it   *)
(* was derived from, and no record disappears under an unanswered command. *)
CommandMatchesRecord ==
  \A s \in Slaves :
    /\ \A c \in commands[s] :
         /\ table[s][c.ticket] # None
         /\ table[s][c.ticket].slave_ticket =
              IF c.action = "OPEN" THEN 0 ELSE c.slave_ticket
    /\ \A t \in pending[s] : table[s][t] # None

(* The marker a failed OPEN leaves (slave_ticket 0) keeps the trade from   *)
(* being opened again; it goes when the master closes the position, also   *)
(* when the close is seen before the failure is.  A marker that stayed     *)
(* would block the ticket for good.                                        *)
MarkerHasMaster ==
  \A s \in Slaves, t \in Tickets :
    (table[s][t] # None /\ table[s][t].slave_ticket = 0) =>
      /\ held[s][t] = None => prev[t] # None
      /\ held[s][t] # None => t \in pending[s]

(* What is held back is the master's latest word on the ticket: a CLOSE    *)
(* if and only if the position is gone, else its latest SL/TP, and a       *)
(* volume the position has not fallen below since.                         *)
HeldIsLatest ==
  \A s \in Slaves, t \in Tickets :
    LET ev == held[s][t]
    IN  ev # None =>
          /\ ev.kind = "CLOSE" <=> prev[t] = None
          /\ ev.kind # "CLOSE" => /\ ev.position.sltp = prev[t].sltp
                                  /\ ev.position.volume <= prev[t].volume

(* An event held for symbol info always has a reply to wait for: some      *)
(* symbol is in flight, and every symbol in flight is queued for the next  *)
(* snapshot or asked of the worker (unless the worker is down).            *)
NoStuckHold ==
  \A s \in Slaves :
    /\ (\E t \in Tickets : held[s][t] # None /\ t \notin pending[s])
         => infoInflight[s] # {}
    /\ up[s] => \A sym \in infoInflight[s] :
                  \/ sym \in infoRequests[s]
                  \/ \E i \in DOMAIN asked[s] : sym \in asked[s][i]

-----------------------------------------------------------------------------
(* The engine implements the linkage protocol of CopyLink: no ticket is    *)
(* opened twice, no command goes to another position than the one linked,  *)
(* and a link comes and goes only with the answers to its own commands.    *)
LinkOf(s, t) == IF table[s][t] = None THEN None ELSE table[s][t].slave_ticket

BusyOf(s, t) ==
  IF t \notin pending[s] THEN "idle"
  ELSE IF \E c \in commands[s] : c.ticket = t
         THEN (CHOOSE c \in commands[s] : c.ticket = t).action
         ELSE "lost"

Link == INSTANCE CopyLink WITH
  link <- [s \in Slaves |-> [t \in Tickets |-> LinkOf(s, t)]],
  busy <- [s \in Slaves |-> [t \in Tickets |-> BusyOf(s, t)]]

ImplementsCopyLink == Link!Spec

-----------------------------------------------------------------------------
(* Liveness.  The supervisor's thread keeps reading: the master sends a    *)
(* snapshot every interval, changed or not, so a queued request is sent    *)
(* with the next one.  A worker that lives answers.  Nothing makes a dead  *)
(* worker come back: one that failed fatally never does.                   *)
ReadWithRequests == (\E s \in Slaves : infoRequests[s] # {}) /\ ReadSomeSnapshot

Fairness ==
  /\ WF_vars(ReadWithRequests)
  /\ \A s \in Slaves :
       /\ \A t \in Tickets : WF_vars(ApplyAckOf(s, t))
       /\ WF_vars(ApplySomeSymbolInfo(s))
       /\ WF_vars(\E seeded \in SeededTables : ApplyRecovery(s, seeded))

FairSpec == Spec /\ Fairness

HeldIsReleased ==
  \A s \in Slaves, t \in Tickets :
    held[s][t] # None ~> (held[s][t] = None \/ ~up[s])

ClosedSettles ==
  \A s \in Slaves, t \in Tickets :
    (prev[t] = None /\ t \in pending[s])
      ~> (t \notin pending[s] \/ prev[t] # None \/ ~up[s])

(* Nothing waits for good while its worker lives: every event held back is *)
(* released, to be derived again, and a position the master has closed     *)
(* settles (its last command, the CLOSE or what was on its way before it,  *)
(* is answered and nothing follows, unless the position comes back).       *)
TicketSettles == HeldIsReleased /\ ClosedSettles

-----------------------------------------------------------------------------
(* What the documents say of three situations the engine treats otherwise. *)

(* The design: "positions that closed on the master while the manager was  *)
(* down are detected as CLOSE on the first diff (if the slave still holds  *)
(* the position, it closes it)".                                           *)
ClosedWhileDownIsClosed ==
  [][(lastNow = 0 /\ lastNow' # 0) =>
       \A s \in Slaves, t \in Tickets :
         (up[s] /\ LinkOf(s, t) \in SlaveTickets /\ prev'[t] = None) =>
           \E cmd \in commands'[s] : cmd.ticket = t /\ cmd.action = "CLOSE"]_vars

(* README: the first trade on a symbol whose info is fetched on demand "is *)
(* held for a moment while the manager asks the slave terminal, then       *)
(* copied": when it is released, it is opened, unless its NEW event would  *)
(* be skipped anyway.                                                      *)
HeldTradeIsCopied ==
  [][\A s \in Slaves, t \in Tickets :
       (/\ up[s] /\ up'[s] /\ prev' = prev /\ prev[t] # None
        /\ held[s][t] # None /\ t \notin pending[s] /\ table[s][t] = None
        /\ held'[s][t] = None)
         => \/ table'[s][t] # None
            \/ DeriveNew([config |-> config'[s], infos |-> symbolInfos'[s],
                          missing |-> confirmedMissing'[s],
                          balance |-> balance'[s]],
                         t, prev[t], None, lastNow).action = "SKIP"]_vars

(* README: "a partial close on the master closes the same fraction on the  *)
(* slave": a PARTIAL held back is sent, or superseded by a further PARTIAL *)
(* or the CLOSE, as long as the worker lives.                              *)
HeldPartialIsKept ==
  [][\A s \in Slaves, t \in Tickets :
       (up[s] /\ up'[s] /\ held[s][t] # None /\ t \in pending[s]
          /\ LinkOf(s, t) \in SlaveTickets /\ held[s][t].kind = "PARTIAL")
         => \/ held'[s][t] # None /\ held'[s][t].kind \in {"PARTIAL", "CLOSE"}
            \/ \E cmd \in commands'[s] : cmd.ticket = t /\ cmd.action = "PARTIAL_CLOSE"
            \/ table'[s][t] = None]_vars

(* README: restart recovery "does not duplicate copied positions already   *)
(* open on a slave"; the design: on reconnect the table is rebuilt from    *)
(* the recovery records, "no duplicated trades".  The first snapshot makes *)
(* a NEW of every position: no slave is told to open any of them before it *)
(* has said which ones it has.                                             *)
OpensAfterRecovery ==
  [][(lastNow = 0 /\ lastNow' # 0) =>
       \A s \in Slaves : (up[s] /\ ~recovered[s]) =>
         \A cmd \in commands'[s] : cmd.action # "OPEN"]_vars
=============================================================================
