----------------------------- MODULE CopySystem -----------------------------
(***************************************************************************)
(* The copier end to end: the master's terminal and worker, the engine and *)
(* the routing of CopyEngine, and the slaves' workers and terminals.       *)
(*                                                                         *)
(* CopyEngine takes any snapshot, any answer and any recovery records.     *)
(* Here they are what the terminals hold: snapshots wait in the master's   *)
(* pipe, a command is executed some time before its answer is read, and    *)
(* what a lost worker has done is known from its terminal's positions      *)
(* only.  Workers are lost and restarted, the master's worker loses what   *)
(* it has sent, and the manager is stopped and started again.              *)
(*                                                                         *)
(* Simplifications: a command is executed in one step, for all legs or for *)
(* none (SlaveWorker has the attempts); volumes are those in the comment,  *)
(* the live volume of a copy is left out; nobody edits the configuration;  *)
(* the manager stops and starts in one step, and the master may trade      *)
(* before its first snapshot.                                              *)
(***************************************************************************)
EXTENDS CopyEngine, FiniteSetsExt

CONSTANTS
  MaxSnapshots,   \* bound: snapshots unread in the master's pipe
  MaxCrashes,     \* bound: lost workers and manager restarts
  Reports,        \* what a slave may report of its map's symbols on start
  Failing,        \* actions whose commands can fail on a slave
  EarlyLoss,      \* a slave's worker may be lost before the first snapshot
  Glitches        \* the master's positions_get may answer None

ASSUME SystemConstants ==
  /\ MaxSnapshots \in Nat \ {0} /\ MaxCrashes \in Nat
  /\ Reports \subseteq SUBSET Symbols
  /\ Failing \subseteq {"OPEN", "MODIFY", "PARTIAL_CLOSE", "CLOSE"}
  /\ EarlyLoss \in BOOLEAN /\ Glitches \in BOOLEAN

VARIABLES
  master,      \* the master's positions
  gone,        \* tickets the master has closed: none is used again
  snapshots,   \* the master's pipe
  terminal,    \* the slaves' positions, [SlaveTickets -> Copy or None]
  spent,       \* slave tickets given out
  recovery,    \* the worker has connected: its RecoveryMsg, until it is read
  answers,     \* commands executed, with the answer in the pipe
  crashes,
  missed       \* ghost: <<slave, ticket, kind>> of events given up

outsideVars == << master, gone, snapshots, terminal, spent, recovery, answers,
                  crashes, missed >>
sysVars == << vars, outsideVars >>

(* A copied position: the comment's fields and the SL/TP.                  *)
Copy == [ticket : Tickets, mv : Volumes, sv : Int, sltp : Levels]

ASSUME NoneIsNoCopy == None \notin Copy

NoPositions == [t \in Tickets |-> None]

CopiesOf(s, t) ==
  {x \in SlaveTickets : terminal[s][x] # None /\ terminal[s][x].ticket = t}

(* build_recovery_records and the merge of seed_from_recovery.             *)
RecordOf(s, t) ==
  LET first == CHOOSE x \in CopiesOf(s, t) : TRUE
  IN  [slave_ticket |-> first, master_open_volume |-> terminal[s][first].mv,
       slave_open_volume |->
         MapThenSumSet(LAMBDA x : terminal[s][x].sv, CopiesOf(s, t))]

(* Mutants of Records: legs without a comment's volumes are not skipped;   *)
(* nothing is recovered.                                                   *)
RecordsWithoutVolume(s) ==
  [t \in Tickets |-> IF CopiesOf(s, t) = {} THEN None
                     ELSE [RecordOf(s, t) EXCEPT !.master_open_volume = 0]]

NothingRecovered(s) == NoPositions

Records(s) ==
  [t \in Tickets |-> IF CopiesOf(s, t) = {} THEN None ELSE RecordOf(s, t)]

-----------------------------------------------------------------------------
(* The trader on the master account: opens, changes, closes.               *)
MasterTrades(t) ==
  /\ \/ /\ master[t] = None /\ t \notin gone
        /\ \E pos \in Position : master' = [master EXCEPT ![t] = pos]
        /\ UNCHANGED gone
     \/ /\ master[t] # None
        /\ \E pos \in Position \ {master[t]} :
             pos.volume <= master[t].volume /\ master' = [master EXCEPT ![t] = pos]
        /\ UNCHANGED gone
     \/ /\ master[t] # None
        /\ master' = [master EXCEPT ![t] = None]
        /\ gone' = gone \cup {t}
  /\ UNCHANGED << vars, snapshots, terminal, spent, recovery, answers, crashes,
                  missed >>

(* _master_loop: a snapshot each interval.                                 *)
Sends ==
  /\ Len(snapshots) < MaxSnapshots
  /\ \E snap \in {master} \cup (IF Glitches THEN {NoPositions} ELSE {}) :
       snapshots' = Append(snapshots, snap)
  /\ UNCHANGED << vars, master, gone, terminal, spent, recovery, answers,
                  crashes, missed >>

(* Mutant of LosesMaster: the engine is told of an empty account.          *)
ForgetsMaster ==
  /\ snapshots # << >>
  /\ snapshots' = << NoPositions >>
  /\ UNCHANGED << vars, master, gone, terminal, spent, recovery, answers,
                  crashes, missed >>

(* The master's worker dies: its pipe is replaced by an empty one.         *)
LosesMaster ==
  /\ snapshots # << >>
  /\ snapshots' = << >>
  /\ UNCHANGED << vars, master, gone, terminal, spent, recovery, answers,
                  crashes, missed >>

-----------------------------------------------------------------------------
(* A slave's worker and terminal.                                          *)

(* slave_init: the records are those of the positions found now.           *)
Connects(s) ==
  /\ up[s] /\ recovery[s] = None
  /\ recovery' = [recovery EXCEPT ![s] = Records(s)]
  /\ UNCHANGED << vars, master, gone, snapshots, terminal, spent, answers,
                  crashes, missed >>

Answers(s, cmd, ok, slave_ticket, fill) ==
  answers' = [answers EXCEPT ![s] = @ \cup
    {[cmd |-> cmd, ok |-> ok, slave_ticket |-> slave_ticket, fill |-> fill]}]

(* execute_command: what it makes of the ticket's legs, or fails.          *)
Fails(s, cmd) ==
  \/ cmd.action \in Failing
  \/ cmd.action \in {"MODIFY", "PARTIAL_CLOSE"} /\ CopiesOf(s, cmd.ticket) = {}

Changed(cmd, copy) ==
  CASE cmd.action = "MODIFY"        -> [copy EXCEPT !.sltp = cmd.sltp]
    [] cmd.action = "PARTIAL_CLOSE" -> copy
    [] cmd.action = "CLOSE"         -> None

Executes(s, cmd) ==
  LET legs == CopiesOf(s, cmd.ticket)
  IN  /\ recovery[s] # None
      /\ \A a \in answers[s] : a.cmd # cmd
      /\ \/ /\ cmd.action = "OPEN"
            /\ \E x \in SlaveTickets \ spent[s] :
                 /\ terminal' = [terminal EXCEPT ![s][x] =
                      [ticket |-> cmd.ticket, mv |-> cmd.master_volume,
                       sv |-> cmd.volume, sltp |-> cmd.sltp]]
                 /\ spent' = [spent EXCEPT ![s] = @ \cup {x}]
                 /\ Answers(s, cmd, TRUE, x, cmd.volume)
         \/ /\ cmd.action # "OPEN" /\ (legs = {} => cmd.action = "CLOSE")
            /\ terminal' = [terminal EXCEPT ![s] = [x \in SlaveTickets |->
                 IF x \in legs THEN Changed(cmd, @[x]) ELSE @[x]]]
            /\ Answers(s, cmd, TRUE, cmd.slave_ticket, 0)
            /\ UNCHANGED spent
         \/ /\ Fails(s, cmd)
            /\ Answers(s, cmd, FALSE, 0, 0)
            /\ UNCHANGED << terminal, spent >>
      /\ UNCHANGED << vars, master, gone, snapshots, recovery, crashes, missed >>

(* The broker closes a copy: its SL or TP is reached, or a stop-out.       *)
BrokerCloses(s, x) ==
  /\ terminal[s][x] # None
  /\ terminal' = [terminal EXCEPT ![s][x] = None]
  /\ UNCHANGED << vars, master, gone, snapshots, spent, recovery, answers,
                  crashes, missed >>

-----------------------------------------------------------------------------
(* The supervisor's thread reads.                                          *)

(* The event that would bring the slave's copies of t to the master's      *)
(* position pos, when some copy is not there.                              *)
Owed(s, t, pos) ==
  {kind \in {"MODIFY", "CLOSE"} :
     /\ (kind = "CLOSE") = (pos = None)
     /\ \E x \in CopiesOf(s, t) : pos # None => terminal[s][x].sltp # pos.sltp}

(* Events a snapshot should have made, or makes in vain: before the first  *)
(* snapshot the master has closed or changed what the slave holds; while   *)
(* the slave's table is not recovered and no answer is awaited, an event   *)
(* finds no record; a PARTIAL replaces a MODIFY that is held back.         *)
Unseen(s, t, curr) ==
  IF lastNow = 0
    THEN {kind \in Owed(s, t, curr[t]) : kind = "CLOSE" => t \in gone}
  ELSE IF up[s] /\ held[s][t] # None
    THEN {kind \in {"MODIFY"} \cap {held[s][t].kind} :
            /\ Fires(prev[t], curr[t], "PARTIAL")
            /\ ~ Fires(prev[t], curr[t], "MODIFY")}
  ELSE IF up[s] /\ (recovered[s] \/ t \in pending[s]) THEN {}
  ELSE {kind \in Owed(s, t, curr[t]) : Fires(prev[t], curr[t], kind)}

(* A new change of the SL/TP makes a missed one good.                      *)
Outdated(curr) ==
  {m \in missed : m[3] = "MODIFY" /\ Fires(prev[m[2]], curr[m[2]], "MODIFY")}

ReadsSnapshot ==
  /\ snapshots # << >>
  /\ snapshots' = Tail(snapshots)
  /\ \E now \in Times : ReadSnapshot(Head(snapshots), now)
  /\ missed' = (missed \ Outdated(Head(snapshots))) \cup
       UNION {{<< s, t, kind >> : kind \in Unseen(s, t, Head(snapshots))} :
                s \in Slaves, t \in Tickets}
  /\ UNCHANGED << master, gone, terminal, spent, recovery, answers, crashes >>

(* A CLOSE or MODIFY that failed is not tried again, unless a later one is *)
(* held back behind it.                                                    *)
Refused(s, t, a) ==
  {kind \in {"MODIFY", "CLOSE"} \cap {a.cmd.action} :
     ~ a.ok /\ (held[s][t] = None \/ held[s][t].kind # kind)}

ReadsAnswer(s, t) ==
  \E a \in answers[s] :
    /\ a.cmd.ticket = t
    /\ answers' = [answers EXCEPT ![s] = @ \ {a}]
    /\ ApplyAck(s, a.cmd, a.ok, a.slave_ticket, a.fill)
    /\ missed' = missed \cup {<< s, t, kind >> : kind \in Refused(s, t, a)}
    /\ UNCHANGED << master, gone, snapshots, terminal, spent, recovery, crashes >>

ReadsRecovery(s) ==
  /\ recovery[s] # None
  /\ recovery' = [recovery EXCEPT ![s] = NoPositions]
  /\ ApplyRecovery(s, recovery[s])
  /\ UNCHANGED << master, gone, snapshots, terminal, spent, answers, crashes,
                  missed >>

(* The reply to a request names the symbols the terminal has.              *)
ReadsInfo(s) ==
  /\ recovery[s] # None
  /\ ApplySomeSymbolInfo(s)
  /\ UNCHANGED outsideVars

-----------------------------------------------------------------------------
(* Crashes.                                                                *)

(* The worker is lost with what was on its way to it or held back for it.  *)
LostKinds(s, t) ==
  Owed(s, t, prev[t]) \cap
    ((IF held[s][t] = None THEN {} ELSE {held[s][t].kind})
       \cup {c.action : c \in {c \in commands[s] : c.ticket = t}})

LosesWorker(s) ==
  /\ crashes < MaxCrashes /\ (EarlyLoss \/ lastNow # 0)
  /\ LoseWorker(s)
  /\ crashes' = crashes + 1
  /\ answers' = [answers EXCEPT ![s] = {}]
  /\ recovery' = [recovery EXCEPT ![s] = None]
  /\ missed' = missed \cup
       UNION {{<< s, t, kind >> : kind \in LostKinds(s, t)} : t \in Tickets}
  /\ UNCHANGED << master, gone, snapshots, terminal, spent >>

RestartsWorker(s) == RestartWorker(s) /\ UNCHANGED outsideVars

(* Controller.stop and start: a fresh engine, whose tables come from the   *)
(* terminals before the master is spawned.                                 *)
RestartsManager ==
  /\ crashes < MaxCrashes
  /\ crashes' = crashes + 1
  /\ prev' = NoPositions /\ lastNow' = 0
  /\ infoRequests' = [s \in Slaves |-> {}]
  /\ table' = [s \in Slaves |-> Records(s)]
  /\ symbolInfos' \in [Slaves -> Reports]
  /\ pending' = [s \in Slaves |-> {}]
  /\ held' = [s \in Slaves |-> NoPositions]
  /\ infoInflight' = [s \in Slaves |-> {}]
  /\ confirmedMissing' = [s \in Slaves |-> {}]
  /\ up' = [s \in Slaves |-> TRUE] /\ recovered' = [s \in Slaves |-> TRUE]
  /\ commands' = [s \in Slaves |-> {}] /\ asked' = [s \in Slaves |-> << >>]
  /\ snapshots' = << >>
  /\ answers' = [s \in Slaves |-> {}]
  /\ recovery' = [s \in Slaves |-> NoPositions]
  /\ missed' = {}
  /\ UNCHANGED << config, balance, master, gone, terminal, spent >>

-----------------------------------------------------------------------------
SysInit ==
  /\ Init
  /\ table = [s \in Slaves |-> NoPositions]
  /\ symbolInfos \in [Slaves -> Reports]
  /\ master = NoPositions /\ gone = {}
  /\ snapshots = << >>
  /\ terminal = [s \in Slaves |-> [x \in SlaveTickets |-> None]]
  /\ spent = [s \in Slaves |-> {}]
  /\ recovery = [s \in Slaves |-> NoPositions]
  /\ answers = [s \in Slaves |-> {}]
  /\ crashes = 0
  /\ missed = {}

SysNext ==
  \/ \E t \in Tickets : MasterTrades(t)
  \/ Sends \/ LosesMaster \/ ReadsSnapshot \/ RestartsManager
  \/ \E s \in Slaves :
       \/ Connects(s) \/ \E cmd \in commands[s] : Executes(s, cmd)
       \/ \E x \in SlaveTickets : BrokerCloses(s, x)
       \/ \E t \in Tickets : ReadsAnswer(s, t)
       \/ ReadsRecovery(s) \/ ReadsInfo(s)
       \/ LosesWorker(s) \/ RestartsWorker(s)

SysSpec == SysInit /\ [][SysNext]_sysVars

(* The master sends and the supervisor reads, again and again (a worker of *)
(* the master that dies is restarted); a slave's worker that lives         *)
(* connects, executes and answers.  Nothing restarts it for certain.       *)
Starts(s) == Connects(s) \/ ReadsRecovery(s)
Serves(s, t) == \/ ReadsAnswer(s, t)
                \/ \E cmd \in commands[s] : cmd.ticket = t /\ Executes(s, cmd)

SysFairness ==
  /\ WF_sysVars(Sends) /\ SF_sysVars(ReadsSnapshot)
  /\ \A s \in Slaves :
       /\ WF_sysVars(Starts(s)) /\ WF_sysVars(ReadsInfo(s))
       /\ \A t \in Tickets : WF_sysVars(Serves(s, t))

SysFairSpec == SysSpec /\ SysFairness

-----------------------------------------------------------------------------
SysTypeOK ==
  /\ master \in [Tickets -> Position \cup {None}]
  /\ gone \subseteq Tickets
  /\ snapshots \in Seq(Snapshots)
  /\ terminal \in [Slaves -> [SlaveTickets -> Copy \cup {None}]]
  /\ spent \in [Slaves -> SUBSET SlaveTickets]
  /\ \A s \in Slaves : recovery[s] = None \/ recovery[s] \in SeededTables
  /\ \A s \in Slaves : \A a \in answers[s] :
       /\ a.cmd \in commands[s] /\ a.ok \in BOOLEAN
       /\ a.slave_ticket \in SlaveTickets \cup {0}
  /\ crashes \in 0..MaxCrashes
  /\ missed \subseteq Slaves \X Tickets \X {"MODIFY", "CLOSE"}

(* README: restart recovery "does not duplicate copied positions already   *)
(* open on a slave": whatever is lost and restarted, a slave never holds   *)
(* two copies of one position of the master.                               *)
NoDuplicates ==
  \A s \in Slaves, t \in Tickets : Cardinality(CopiesOf(s, t)) <= 1

(* A slave is told to close a copy only when the master's position is      *)
(* closed, not because a snapshot was late, lost or read after a restart.  *)
ClosesOnlyClosed ==
  \A s \in Slaves : \A cmd \in commands[s] :
    cmd.action = "CLOSE" => cmd.ticket \in gone

(* A copy of a position the master has closed is closed in the end, across *)
(* restarts too, but for four cases, all named by missed: the CLOSE failed *)
(* on the slave; it was on its way to a worker that was lost, or held back *)
(* for it; it was seen before the records of a restarted worker were read; *)
(* the position was closed before the manager's first snapshot.            *)
ClosedIsClosed ==
  \A s \in Slaves, t \in Tickets :
    []<>(t \in gone => \/ CopiesOf(s, t) = {}
                       \/ ~up[s] \/ << s, t, "CLOSE" >> \in missed)

(* The SL/TP of a copy becomes the master's, however changes, partial      *)
(* closes, answers and snapshots overtake each other, unless the master    *)
(* changes it again, but for five cases, all named by missed until a later *)
(* change is read: the four of a CLOSE, of a MODIFY here, and a MODIFY     *)
(* held back that a partial close replaces.                                *)
SlTpFollows ==
  \A s \in Slaves, t \in Tickets, level \in Levels :
    []<>(master[t] # None /\ master[t].sltp = level =>
           \/ \A x \in CopiesOf(s, t) : terminal[s][x].sltp = level
           \/ ~up[s] \/ << s, t, "MODIFY" >> \in missed)

(* What the terminals can say is within what CopyEngine allows for: every  *)
(* step is one of its steps, a restart of the manager, or none, and what   *)
(* the terminals hold is what the engine's types say.                      *)
EngineIsDriven ==
  /\ Init /\ SysTypeOK
  /\ [][SysTypeOK' /\ (Next \/ RestartsManager \/ UNCHANGED vars)]_sysVars
=============================================================================
