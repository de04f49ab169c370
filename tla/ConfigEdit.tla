----------------------------- MODULE ConfigEdit -----------------------------
(***************************************************************************)
(* The slaves' configuration, from the main window's list                  *)
(* (manager/gui/main_window.py, slave_editor.py) through the controller    *)
(* (manager/app/controller.py) to its three users: the engine              *)
(* (CopyEngine.update_slave_config), the supervisor's handle, from which a *)
(* worker is started again, and the worker that runs.                      *)
(*                                                                         *)
(* Slaves are added, edited and removed at any time, copying or not.  The  *)
(* GUI's thread applies an edit in several steps; meanwhile the            *)
(* supervisor's thread may be replacing that slave's worker.               *)
(*                                                                         *)
(* Simplifications: a configuration is a value; the engine reads its       *)
(* amounts and its symbol mapper separately, the worker all of what it     *)
(* uses at once; the messages that carry a configuration (StartMsg,        *)
(* ReconfigureMsg) are that configuration; a Start that fails changes      *)
(* nothing; Stop waits for the supervisor's thread.                        *)
(***************************************************************************)
EXTENDS Naturals, SequencesExt

CONSTANTS
  Ids,           \* slave ids the user may type
  Terminals,
  Cfgs,          \* trading parameters
  MaxSlaves,     \* bound: rows of the list
  MaxInbox,      \* bound: messages unread by a worker
  DistinctIds,   \* the user gives every slave an id of its own
  None

AccountSpec == [id : Ids, terminal : Terminals, cfg : Cfgs]
SlaveState  == [amounts : Cfgs, mapper : Cfgs]
(* What the supervisor knows of the handle's worker: nothing bad, that its *)
(* pipe is closed (pipe is None), or that it failed for good (fatal).      *)
Handle == [config : Cfgs, phase : {"open", "spawned"}, terminal : Terminals,
           seen : {"alive", "gone", "fatal"}]
Worker == [cfg : Cfgs \cup {None}, inbox : Seq(Cfgs)]
(* The handle that the edit has looked up: the installed one, or one that a*)
(* restart has replaced since, with its pipe merely closed or None.        *)
Edit   == [id : Ids, cfg : Cfgs,
           step : {"amounts", "mapper", "lookup", "config", "test", "again", "send"},
           fetched : {"installed", "closed", "none"}]

ASSUME EditConstants ==
  /\ MaxSlaves \in Nat /\ MaxInbox \in Nat \ {0} /\ DistinctIds \in BOOLEAN
  /\ None \notin Cfgs /\ None \notin Terminals /\ None \notin Ids

ASSUME NoneIsNoRecord ==
  /\ None \notin SlaveState /\ None \notin Handle
  /\ None \notin Worker /\ None \notin Edit

VARIABLES
  slaves,     \* _slaves: the list, saved with every change
  running,    \* copying: the controller has a supervisor and an engine
  engine,     \* SlaveState.config and mapper of each slave, or None
  handle,     \* the supervisor's WorkerHandle, with its _restart's progress
  worker,     \* the worker's process, None if it is dead
  edit,       \* apply_slave_edit in progress on the GUI's thread
  started,    \* ghost: ids started whose row has not been removed since
  unheard     \* ghost: ids whose worker a restart installed amid the last
              \* edit, or was still to install at its end: it was not sent it

vars == << slaves, running, engine, handle, worker, edit, started, unheard >>

Nobody == [id \in Ids |-> None]
RowIds == {slaves[i].id : i \in DOMAIN slaves}

(* dict semantics: of two rows with one id, the later one counts.          *)
RowOf(id) ==
  slaves[CHOOSE i \in DOMAIN slaves :
           slaves[i].id = id /\ \A j \in DOMAIN slaves : slaves[j].id = id => j <= i]

Whole(cfg) == [amounts |-> cfg, mapper |-> cfg]
Booted(cfg) == [cfg |-> None, inbox |-> << cfg >>]
LastTold(id) == Last(<< worker[id].cfg >> \o worker[id].inbox)

-----------------------------------------------------------------------------
(* The slave editor: any id (a blank one is "s1", whatever the list has),  *)
(* any terminal; an edit is locked to the row's id and terminal.           *)
NewSpecs == {spec \in AccountSpec : DistinctIds => spec.id \notin RowIds}
EditedSpecs(spec) == {[spec EXCEPT !.cfg = cfg] : cfg \in Cfgs \ {spec.cfg}}

(* The main window.  An edit blocks its thread.                            *)
AddSlave ==
  /\ edit = None /\ Len(slaves) < MaxSlaves
  /\ \E spec \in NewSpecs : slaves' = Append(slaves, spec)
  /\ UNCHANGED << running, engine, handle, worker, edit, started, unheard >>

(* Nothing is told to a running supervisor.                                *)
RemoveSlave ==
  /\ edit = None
  /\ \E i \in DOMAIN slaves :
       /\ slaves' = RemoveAt(slaves, i)
       /\ started' = started \ {slaves[i].id}
  /\ UNCHANGED << running, engine, handle, worker, edit, unheard >>

(* While copying, the edit is applied (a slave the engine does not have    *)
(* raises a KeyError in it).                                               *)
EditSlave ==
  /\ edit = None
  /\ \E i \in DOMAIN slaves : \E new \in EditedSpecs(slaves[i]) :
       /\ slaves' = [slaves EXCEPT ![i] = new]
       /\ edit' = IF running /\ engine[new.id] # None
                    THEN [id |-> new.id, cfg |-> new.cfg, step |-> "amounts",
                          fetched |-> "none"]
                    ELSE None
  /\ UNCHANGED << running, engine, handle, worker, started, unheard >>

-----------------------------------------------------------------------------
(* Controller.start: terminals are checked to differ, ids are not.         *)
TerminalsDiffer ==
  \A i, j \in DOMAIN slaves :
    slaves[i].terminal = slaves[j].terminal => i = j

(* Mutant of Prepared: the terminals are not checked.                      *)
Unprepared == slaves # << >>

Prepared == slaves # << >> /\ TerminalsDiffer

Start ==
  /\ edit = None /\ ~running /\ Prepared
  /\ running' = TRUE
  /\ engine' = [id \in Ids |-> IF id \in RowIds THEN Whole(RowOf(id).cfg) ELSE None]
  /\ handle' = [id \in Ids |->
       IF id \in RowIds THEN [config |-> RowOf(id).cfg, phase |-> "open",
                              terminal |-> RowOf(id).terminal, seen |-> "alive"]
                        ELSE None]
  /\ worker' = [id \in Ids |->
                  IF id \in RowIds THEN Booted(RowOf(id).cfg) ELSE None]
  /\ started' = RowIds
  /\ UNCHANGED << slaves, edit, unheard >>

Stop ==
  /\ edit = None /\ running
  /\ \A id \in Ids : handle[id] # None => handle[id].phase = "open"
  /\ running' = FALSE
  /\ engine' = Nobody /\ handle' = Nobody /\ worker' = Nobody
  /\ started' = {} /\ unheard' = {}
  /\ UNCHANGED << slaves, edit >>

-----------------------------------------------------------------------------
(* apply_slave_edit, on the GUI's thread.                                  *)

(* Mutant of UpdateEngine: the mapper is not rebuilt.                      *)
KeepsMapper ==
  /\ edit # None /\ edit.step \in {"amounts"}
  /\ engine' = [engine EXCEPT ![edit.id][edit.step] = edit.cfg]
  /\ edit' = [edit EXCEPT !.step = "lookup"]
  /\ UNCHANGED << slaves, running, handle, worker, started, unheard >>

(* update_slave_config: field by field, the mapper last.                   *)
UpdateEngine ==
  /\ edit # None /\ edit.step \in {"amounts", "mapper"}
  /\ engine' = [engine EXCEPT ![edit.id][edit.step] = edit.cfg]
  /\ edit' = [edit EXCEPT !.step = IF @ = "amounts" THEN "mapper" ELSE "lookup"]
  /\ UNCHANGED << slaves, running, handle, worker, started, unheard >>

(* reconfigure_slave: the handle that is installed now, ...                *)
LookUp ==
  /\ edit # None /\ edit.step = "lookup"
  /\ edit' = [edit EXCEPT !.step = "config", !.fetched = "installed"]
  /\ UNCHANGED << slaves, running, engine, handle, worker, started, unheard >>

(* Mutant of UpdateHandle: the handle keeps the configuration of the start.*)
KeepsConfig ==
  /\ edit # None /\ edit.step = "config"
  /\ edit' = [edit EXCEPT !.step = "test"]
  /\ UNCHANGED << slaves, running, engine, handle, worker, started, unheard >>

(* ... its configuration, which the next worker is started with and which  *)
(* a handle shares with the one that replaces it, ...                      *)
UpdateHandle ==
  /\ edit # None /\ edit.step = "config"
  /\ handle' = [handle EXCEPT ![edit.id].config = edit.cfg]
  /\ edit' = [edit EXCEPT !.step = "test"]
  /\ UNCHANGED << slaves, running, engine, worker, started, unheard >>

(* The edit ends with nothing sent.  The worker that lives was overtaken by*)
(* it: spawned with the old configuration, and its handle not installed    *)
(* yet, or installed since the edit looked.                                *)
EndsUnsent ==
  LET id == edit.id
      overtaken == handle[id].phase = "spawned" \/ edit.fetched # "installed"
  IN  /\ edit' = None
      /\ unheard' = IF worker[id] # None /\ LastTold(id) # edit.cfg /\ overtaken
                      THEN unheard \cup {id} ELSE unheard \ {id}
      /\ UNCHANGED << slaves, running, engine, handle, worker, started >>

(* ... and unless the pipe of that handle is None, or it is fatal, ...     *)
Sendable == \/ edit.fetched = "closed"
            \/ edit.fetched = "installed" /\ handle[edit.id].seen = "alive"

TestPipe ==
  /\ edit # None /\ edit.step = "test"
  /\ IF Sendable
       THEN /\ edit' = [edit EXCEPT !.step = "again"]
            /\ UNCHANGED << slaves, running, engine, handle, worker, started,
                            unheard >>
       ELSE EndsUnsent

(* ... _send, which looks the handle up again ...                          *)
LookUpAgain ==
  /\ edit # None /\ edit.step = "again"
  /\ IF handle[edit.id].seen # "gone"
       THEN /\ edit' = [edit EXCEPT !.step = "send", !.fetched = "installed"]
            /\ UNCHANGED << slaves, running, engine, handle, worker, started,
                            unheard >>
       ELSE EndsUnsent

(* ... and writes to its pipe: what is written to that of a dead worker, or*)
(* to one that a restart has closed, is lost.                              *)
SendReconfigure ==
  LET id == edit.id
  IN  /\ edit # None /\ edit.step = "send"
      /\ IF edit.fetched = "installed" /\ handle[id].phase = "open"
              /\ worker[id] # None
           THEN /\ Len(worker[id].inbox) < MaxInbox
                /\ worker' = [worker EXCEPT ![id].inbox = Append(@, edit.cfg)]
                /\ edit' = None
                /\ unheard' = unheard \ {id}
                /\ UNCHANGED << slaves, running, engine, handle, started >>
           ELSE EndsUnsent

-----------------------------------------------------------------------------
(* A worker takes the next message: its StartMsg, or a ReconfigureMsg.     *)
WorkerReads(id) ==
  /\ worker[id] # None /\ worker[id].inbox # << >>
  /\ worker' = [worker EXCEPT ![id] = [cfg |-> Head(@.inbox), inbox |-> Tail(@.inbox)]]
  /\ UNCHANGED << slaves, running, engine, handle, edit, started, unheard >>

(* A worker dies, or hangs and is terminated.                              *)
WorkerDies(id) ==
  /\ worker[id] # None /\ handle[id].phase = "open"
  /\ worker' = [worker EXCEPT ![id] = None]
  /\ UNCHANGED << slaves, running, engine, handle, edit, started, unheard >>

(* The supervisor's thread finds a dead worker's pipe closed, after what   *)
(* the worker wrote last: that it failed for good, perhaps.                *)
FindsDead(id) ==
  /\ handle[id] # None /\ handle[id].phase = "open" /\ worker[id] = None
  /\ handle[id].seen = "alive"
  /\ \E found \in {"gone", "fatal"} :
       handle' = [handle EXCEPT ![id].seen = found]
  /\ UNCHANGED << slaves, running, engine, worker, edit, started, unheard >>

(* _restart, on the supervisor's thread.  Until the process is spawned a   *)
(* message to the old pipe, of a dead process or closed, is dropped.       *)

(* Mutant of RestartSpawns: the process is spawned without a configuration.*)
SpawnsBare(id) ==
  /\ handle[id] # None /\ handle[id].phase = "open" /\ worker[id] = None
  /\ handle[id].seen # "fatal"
  /\ handle' = [handle EXCEPT ![id].phase = "spawned"]
  /\ worker' = [worker EXCEPT ![id] = Booted(None)]
  /\ unheard' = unheard \ {id}
  /\ UNCHANGED << slaves, running, engine, edit, started >>

(* The process is spawned with the handle's configuration of now, ...      *)
RestartSpawns(id) ==
  /\ handle[id] # None /\ handle[id].phase = "open" /\ worker[id] = None
  /\ handle[id].seen # "fatal"
  /\ handle' = [handle EXCEPT ![id].phase = "spawned"]
  /\ worker' = [worker EXCEPT ![id] = Booted(handle[id].config)]
  /\ unheard' = unheard \ {id}
  /\ UNCHANGED << slaves, running, engine, edit, started >>

(* ... and the new handle, with the same configuration object, installed.  *)
RestartInstalls(id) ==
  /\ handle[id] # None /\ handle[id].phase = "spawned"
  /\ handle' = [handle EXCEPT ![id].phase = "open", ![id].seen = "alive"]
  /\ edit' = IF edit # None /\ edit.id = id /\ edit.fetched = "installed"
               THEN [edit EXCEPT !.fetched =
                       IF handle[id].seen = "alive" THEN "closed" ELSE "none"]
               ELSE edit
  /\ UNCHANGED << slaves, running, engine, worker, started, unheard >>

-----------------------------------------------------------------------------
Init ==
  /\ slaves = << >> /\ running = FALSE
  /\ engine = Nobody /\ handle = Nobody /\ worker = Nobody
  /\ edit = None /\ started = {} /\ unheard = {}

Gui == \/ AddSlave \/ RemoveSlave \/ EditSlave \/ Start \/ Stop
       \/ UpdateEngine \/ LookUp \/ UpdateHandle \/ TestPipe \/ LookUpAgain
       \/ SendReconfigure

Restart(id) == FindsDead(id) \/ RestartSpawns(id) \/ RestartInstalls(id)

Next == Gui \/ \E id \in Ids : WorkerReads(id) \/ WorkerDies(id) \/ Restart(id)

Spec == Init /\ [][Next]_vars

-----------------------------------------------------------------------------
TypeOK ==
  /\ slaves \in Seq(AccountSpec) /\ running \in BOOLEAN
  /\ engine \in [Ids -> SlaveState \cup {None}]
  /\ handle \in [Ids -> Handle \cup {None}]
  /\ worker \in [Ids -> Worker \cup {None}]
  /\ edit \in Edit \cup {None}
  /\ started \subseteq Ids /\ unheard \subseteq Ids

(* No two workers drive one terminal: each would see and close the other's *)
(* positions.                                                              *)
OneWorkerPerTerminal ==
  \A a, b \in Ids :
    (handle[a] # None /\ handle[b] # None
       /\ handle[a].terminal = handle[b].terminal) => a = b

CopiedAsListed(spec) ==
  /\ engine[spec.id] = Whole(spec.cfg)
  /\ handle[spec.id].config = spec.cfg
  /\ handle[spec.id].terminal = spec.terminal

(* Each slave of the list that copying was started with is copied to, in a *)
(* terminal no other worker drives, with the parameters the list shows,    *)
(* and its worker would be restarted with them: after any edits, removals, *)
(* additions and restarts, unless an edit is being applied.                *)
EverySlaveIsCopied ==
  /\ OneWorkerPerTerminal
  /\ (running /\ edit = None) =>
       \A i \in DOMAIN slaves :
         slaves[i].id \in started => CopiedAsListed(slaves[i])

(* A worker that has read all it was sent works with the parameters of the *)
(* list, also one that was restarted while they were edited ("a dead       *)
(* non-fatal worker is restarted by _health_check and picks up the edit"), *)
(* but for a worker that was spawned with the old ones and whose handle was*)
(* installed while the edit was under way, after it had looked the old     *)
(* handle up, or had still to be installed when it ended (unheard).        *)
WorkerHears ==
  edit = None =>
    \A i \in DOMAIN slaves :
      LET id == slaves[i].id
      IN  (/\ id \in started \ unheard /\ running
           /\ worker[id] # None /\ worker[id].inbox = << >>)
             => worker[id].cfg = slaves[i].cfg

-----------------------------------------------------------------------------
(* What the documents say and the code does not keep.                      *)

(* reconfigure_slave: a restarted worker picks up the edit, whenever it    *)
(* comes.                                                                  *)
EditIsHeard == edit = None => unheard = {}
=============================================================================
