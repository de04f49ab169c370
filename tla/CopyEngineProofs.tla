-------------------------- MODULE CopyEngineProofs --------------------------
(***************************************************************************)
(* Proofs about CopyEngine.  Every handler treats a ticket of a slave by   *)
(* one of two functions of its cell, HandleDiff and Rederive.  What they   *)
(* can do to a cell is settled once (GoodStep); each action then preserves *)
(* the invariant because it does that to some cells and nothing to others. *)
(* The second part shows in the same way (LinkStep) that the engine        *)
(* implements CopyLink.                                                    *)
(***************************************************************************)
EXTENDS CopyEngine, LotSizingProofs

Cells == [record : Record \cup {None}, held : Event \cup {None},
          pending : BOOLEAN, commands : SUBSET Command, asks : SUBSET Symbols]

Contexts == [config : Config, infos : SUBSET Symbols, missing : SUBSET Symbols,
             balance : Int]

Quiet(x) == x.commands = {} /\ x.asks = {}

(* The event agrees with the master's position c (None: no position).      *)
Agrees(ev, c) ==
  /\ ev.kind = "CLOSE" <=> c = None
  /\ ev.kind # "CLOSE" => /\ ev.position.sltp = c.sltp
                          /\ ev.position.volume <= c.volume

IsMarker(rec) == rec # None /\ rec.slave_ticket = 0

MarkerOK(x, c) ==
  IsMarker(x.record) => /\ x.held = None => c # None
                        /\ x.held # None => x.pending

CellOK(x, c) ==
  /\ x.pending => x.record # None
  /\ MarkerOK(x, c)
  /\ x.held # None => Agrees(x.held, c)

LinkedCommand == ModifyCommand \cup PartialCommand \cup CloseCommand

(* cmd is what the engine may send for a ticket with record rec.           *)
Matches(cmd, t, rec) ==
  /\ cmd \in Command
  /\ cmd.ticket = t
  /\ rec # None
  /\ rec.slave_ticket = IF cmd.action = "OPEN" THEN 0 ELSE cmd.slave_ticket

(* What handling events may make of the cell x of ticket t, the master's   *)
(* position being c.                                                       *)
GoodStep(ctx, t, c, x, y) ==
  /\ y \in Cells
  /\ CellOK(y, c)
  /\ \/ y.commands = {} /\ y.pending = x.pending
     \/ ~x.pending /\ y.pending /\ \E cmd \in Command :
          y.commands = {cmd} /\ Matches(cmd, t, y.record)
  /\ x.pending => y.record = x.record
  /\ (y.held # None /\ ~y.pending) =>
        (x.held # None /\ ~x.pending) \/ (\E sym \in y.asks : sym \notin ctx.missing)

-----------------------------------------------------------------------------
LEMMA ConstantTypes ==
  /\ Volumes \subseteq Int
  /\ SlaveTickets \subseteq Int
  /\ \A st \in SlaveTickets : st # 0
  /\ \A sym \in Symbols : /\ InfoOf[sym].volume_step \in Int
                          /\ InfoOf[sym].volume_min \in Int
<1>1. Volumes \subseteq Nat \ {0} /\ SlaveTickets \subseteq Nat \ {0}
  BY ConstantsOK
<1>2. InfoOf \in [Symbols -> [volume_step : Nat \ {0}, volume_min : Nat \ {0},
                              volume_max : Nat \ {0}]]
  BY ConstantsOK
<1> QED
  BY <1>1, <1>2

LEMMA ResolveType ==
  ASSUME NEW ctx \in Contexts, NEW sym \in Symbols
  PROVE  Resolve(ctx, sym) \in Symbols \cup {None}
  BY DEF Resolve, Contexts, Config

(* What derive_command can answer, and when.                               *)
LEMMA DeriveCases ==
  ASSUME NEW ctx \in Contexts, NEW t \in Tickets, NEW ev \in Event,
         NEW rec \in Record \cup {None}, NEW now
  PROVE  LET d == Derive(ctx, t, ev, rec, now)
         IN  \/ d = Skip
             \/ /\ ev.kind = "NEW" /\ rec = None
                /\ \E sym \in Symbols \ ctx.missing : d = AwaitInfo(sym)
             \/ /\ ev.kind = "NEW" /\ rec = None
                /\ d \in OpenCommand /\ d.ticket = t
             \/ /\ ev.kind # "NEW" /\ rec # None
                /\ d \in LinkedCommand /\ d.ticket = t
                /\ rec.slave_ticket = d.slave_ticket
<1> DEFINE d == Derive(ctx, t, ev, rec, now)
<1>1. CASE ev.kind = "NEW"
  <2> DEFINE sym  == Resolve(ctx, SymbolOf[t])
             pos  == ev.position
             lots == CalculateSlaveLot(ctx.config, pos.volume, ctx.balance, InfoOf[sym])
  <2>1. SymbolOf[t] \in Symbols /\ sym \in Symbols \cup {None}
    BY ResolveType, ConstantsOK
  <2>2. pos.volume \in Volumes /\ pos.volume \in Int /\ pos.sltp \in Levels
    <3>1. pos \in Position
      BY DEF Event
    <3>2. pos.volume \in Volumes /\ pos.sltp \in Levels
      BY <3>1 DEF Position
    <3> QED
      BY <3>2, ConstantTypes
  <2>3. d = DeriveNew(ctx, t, pos, rec, now)
    BY <1>1 DEF Derive
  <2>4. CASE rec # None \/ sym = None
    BY <2>3, <2>4 DEF DeriveNew
  <2>5. CASE rec = None /\ sym # None
    <3>1. sym \in Symbols
      BY <2>1, <2>5
    <3>2. InfoOf[sym].volume_step \in Int /\ InfoOf[sym].volume_min \in Int
      BY <3>1, ConstantTypes
    <3>3. ctx.config \in Config /\ ctx.balance \in Int
      BY DEF Contexts
    <3>4. lots \in Int
      BY <3>2, <3>3, <2>2, SlaveLotInt DEF Config
    <3>5. \/ d = Skip
          \/ sym \notin ctx.missing /\ d = AwaitInfo(sym)
          \/ d = [action |-> "OPEN", ticket |-> t, symbol |-> sym,
                  volume |-> lots, sltp |-> pos.sltp, master_volume |-> pos.volume]
      BY <2>3, <2>5 DEF DeriveNew
    <3> QED
      BY <1>1, <2>2, <2>5, <3>1, <3>4, <3>5 DEF OpenCommand
  <2> QED
    BY <2>1, <2>4, <2>5
<1>2. CASE ev.kind # "NEW"
  <2>1. d = DeriveLinked(t, ev, rec)
    BY <1>2 DEF Derive
  <2>2. CASE rec = None \/ rec.slave_ticket = 0
    BY <2>1, <2>2 DEF DeriveLinked
  <2>3. CASE rec # None /\ rec.slave_ticket # 0
    <3>1. rec \in Record /\ rec.slave_ticket \in SlaveTickets
          /\ rec.master_open_volume \in Volumes /\ rec.slave_open_volume \in Int
      BY <2>3 DEF Record
    <3>2. ev.position.volume \in Volumes /\ ev.position.sltp \in Levels
          /\ ev.kind \in {"NEW", "MODIFY", "PARTIAL", "CLOSE"}
      BY DEF Event, Position
    <3>3. CASE ev.kind = "MODIFY"
      BY <1>2, <2>1, <2>3, <3>1, <3>2, <3>3 DEF DeriveLinked, LinkedCommand, ModifyCommand
    <3>4. CASE ev.kind = "PARTIAL"
      BY <1>2, <2>1, <2>3, <3>1, <3>2, <3>4 DEF DeriveLinked, LinkedCommand, PartialCommand
    <3>5. CASE ev.kind = "CLOSE"
      BY <1>2, <2>1, <2>3, <3>1, <3>2, <3>5 DEF DeriveLinked, LinkedCommand, CloseCommand
    <3> QED
      BY <1>2, <3>2, <3>3, <3>4, <3>5
  <2> QED
    BY <2>2, <2>3
<1> QED
  BY <1>1, <1>2

-----------------------------------------------------------------------------
(* _rederive on a ticket that is free (nothing unanswered, nothing held).  *)
LEMMA RederiveGood ==
  ASSUME NEW ctx \in Contexts, NEW t \in Tickets, NEW ev \in Event, NEW now,
         NEW c, NEW x \in Cells, Quiet(x), ~x.pending, x.held = None,
         Agrees(ev, c)
  PROVE  LET y == Rederive(ctx, t, ev, x, now)
         IN  /\ GoodStep(ctx, t, c, x, y)
             /\ ~y.pending => y.commands = {}
             /\ ev.kind # "NEW" => y.held = None /\ y.asks = {}
             /\ (ev.kind # "NEW" /\ ev.kind # "CLOSE" /\ ~y.pending) => y = x
<1> DEFINE rec == x.record
           d   == Derive(ctx, t, ev, rec, now)
           y   == Rederive(ctx, t, ev, x, now)
<1>x. /\ x = [record |-> x.record, held |-> x.held, pending |-> x.pending,
             commands |-> x.commands, asks |-> x.asks]
      /\ rec \in Record \cup {None}
  BY DEF Cells
<1>n. None \notin Event /\ None \notin Record /\ ev # None
  BY NoneIsNoValue
<1>1. CASE d = Skip
  <2>1. y = IF ev.kind = "CLOSE" /\ rec # None /\ rec.slave_ticket = 0
              THEN [x EXCEPT !.record = None] ELSE x
    BY <1>1 DEF Rederive, Skip
  <2>2. CASE ev.kind = "CLOSE" /\ rec # None /\ rec.slave_ticket = 0
    <3>1. y = [x EXCEPT !.record = None]
      BY <2>1, <2>2
    <3>2. /\ y \in Cells /\ y.record = None /\ y.held = None
          /\ y.pending = x.pending /\ y.commands = {} /\ y.asks = {}
      BY <3>1, <1>x DEF Cells, Quiet
    <3> QED
      BY <3>2, <2>2 DEF GoodStep, CellOK, MarkerOK, IsMarker
  <2>3. CASE ~(ev.kind = "CLOSE" /\ rec # None /\ rec.slave_ticket = 0)
    <3>1. y = x
      BY <2>1, <2>3
    <3>2. IsMarker(rec) => c # None
      BY <2>3 DEF IsMarker, Agrees
    <3> QED
      BY <3>1, <3>2 DEF GoodStep, CellOK, MarkerOK, Quiet
  <2> QED
    BY <2>2, <2>3
<1>2. CASE ev.kind = "NEW" /\ rec = None /\ \E sym \in Symbols \ ctx.missing : d = AwaitInfo(sym)
  <2>1. PICK sym \in Symbols \ ctx.missing : d = AwaitInfo(sym)
    BY <1>2
  <2>2. y = [record |-> None, held |-> ev, pending |-> x.pending,
             commands |-> {}, asks |-> {sym}]
    <3>1. y = [x EXCEPT !.held = ev, !.asks = {sym}]
      BY <2>1 DEF Rederive, AwaitInfo
    <3> QED
      BY <3>1, <1>x, <1>2 DEF Quiet
  <2>3. /\ y \in Cells /\ y.record = None /\ y.held = ev
        /\ y.pending = x.pending /\ y.commands = {} /\ y.asks = {sym}
    BY <2>2, <1>x DEF Cells
  <2> QED
    BY <2>1, <2>3, <1>2 DEF GoodStep, CellOK, MarkerOK, IsMarker
<1>3. CASE ev.kind = "NEW" /\ rec = None /\ d \in OpenCommand /\ d.ticket = t
  <2>1. d.action = "OPEN" /\ d.volume \in Int /\ d \in Command
    BY <1>3 DEF OpenCommand, Command
  <2> DEFINE new == [slave_ticket |-> 0, master_open_volume |-> ev.position.volume,
                     slave_open_volume |-> d.volume]
  <2>2. y = [record |-> new, held |-> None, pending |-> TRUE,
             commands |-> {d}, asks |-> {}]
    <3>1. y = [x EXCEPT !.pending = TRUE, !.commands = @ \cup {d}, !.record = new]
      BY <2>1 DEF Rederive
    <3> QED
      BY <3>1, <1>x DEF Quiet
  <2>3. ev.position.volume \in Volumes
    BY DEF Event, Position
  <2>4. new \in Record
    BY <2>1, <2>3 DEF Record
  <2>5. /\ y \in Cells /\ y.record = new /\ y.held = None
        /\ y.pending = TRUE /\ y.commands = {d} /\ y.asks = {}
    BY <2>1, <2>2, <2>4 DEF Cells
  <2>6. new # None /\ new.slave_ticket = 0 /\ c # None
    BY <2>4, <1>n, <1>3 DEF Agrees
  <2>7. Matches(d, t, new)
    BY <1>3, <2>1, <2>6 DEF Matches
  <2>8. CellOK(y, c)
    BY <2>5, <2>6 DEF CellOK, MarkerOK
  <2> QED
    BY <1>3, <2>1, <2>5, <2>7, <2>8 DEF GoodStep
<1>4. CASE /\ ev.kind # "NEW" /\ rec # None
           /\ d \in LinkedCommand /\ d.ticket = t
           /\ rec.slave_ticket = d.slave_ticket
  <2>1. /\ d.action \in {"MODIFY", "PARTIAL_CLOSE", "CLOSE"}
        /\ d \in Command /\ d.slave_ticket \in SlaveTickets
    BY <1>4 DEF LinkedCommand, ModifyCommand, PartialCommand, CloseCommand, Command
  <2>2. y = [record |-> rec, held |-> None, pending |-> TRUE,
             commands |-> {d}, asks |-> {}]
    <3>1. y = [x EXCEPT !.pending = TRUE, !.commands = @ \cup {d}]
      BY <2>1 DEF Rederive
    <3> QED
      BY <3>1, <1>x DEF Quiet
  <2>3. /\ y \in Cells /\ y.record = rec /\ y.held = None
        /\ y.pending = TRUE /\ y.commands = {d} /\ y.asks = {}
    BY <2>1, <2>2, <1>x DEF Cells
  <2>4. Matches(d, t, rec) /\ ~IsMarker(rec)
    BY <1>4, <2>1, ConstantTypes DEF Matches, IsMarker
  <2>5. CellOK(y, c)
    BY <2>3, <2>4, <1>4 DEF CellOK, MarkerOK
  <2> QED
    BY <1>4, <2>1, <2>3, <2>4, <2>5 DEF GoodStep
<1> HIDE DEF d
<1>5. \/ d = Skip
      \/ /\ ev.kind = "NEW" /\ rec = None
         /\ \E sym \in Symbols \ ctx.missing : d = AwaitInfo(sym)
      \/ ev.kind = "NEW" /\ rec = None /\ d \in OpenCommand /\ d.ticket = t
      \/ /\ ev.kind # "NEW" /\ rec # None /\ d \in LinkedCommand /\ d.ticket = t
         /\ rec.slave_ticket = d.slave_ticket
  BY <1>x, DeriveCases DEF d
<1> QED
  BY <1>1, <1>2, <1>3, <1>4, <1>5

(* _handle_event, for an event that agrees with the snapshot.              *)
LEMMA HandleEventGood ==
  ASSUME NEW ctx \in Contexts, NEW t \in Tickets, NEW ev \in Event, NEW now,
         NEW p, NEW c, NEW x \in Cells, Quiet(x), CellOK(x, p), Agrees(ev, c)
  PROVE  GoodStep(ctx, t, c, x, HandleEvent(ctx, t, ev, x, now))
<1>n. ev # None
  BY NoneIsNoValue
<1>1. CASE x.pending \/ x.held # None
  <2>1. HandleEvent(ctx, t, ev, x, now) = [x EXCEPT !.held = ev]
    BY <1>1 DEF HandleEvent
  <2> DEFINE y == [x EXCEPT !.held = ev]
  <2>2. /\ y \in Cells /\ y.record = x.record /\ y.held = ev
        /\ y.pending = x.pending /\ y.commands = {} /\ y.asks = {}
    BY DEF Cells, Quiet
  <2>3. CellOK(y, c)
    BY <2>2, <1>1, <1>n DEF CellOK, MarkerOK
  <2> HIDE DEF y
  <2>4. GoodStep(ctx, t, c, x, y)
    BY <2>2, <2>3, <1>1 DEF GoodStep
  <2> QED
    BY <2>1, <2>4 DEF y
<1>2. CASE ~(x.pending \/ x.held # None)
  BY <1>2, RederiveGood DEF HandleEvent
<1> QED
  BY <1>1, <1>2

(* All the events one snapshot has for a ticket.                           *)
LEMMA HandleDiffGood ==
  ASSUME NEW ctx \in Contexts, NEW t \in Tickets, NEW now,
         NEW p \in Position \cup {None}, NEW c \in Position \cup {None},
         NEW x \in Cells, Quiet(x), CellOK(x, p)
  PROVE  GoodStep(ctx, t, c, x, HandleDiff(ctx, t, p, c, x, now))
<1> DEFINE Ev(kind, pos) == [kind |-> kind, position |-> pos]
           y == HandleDiff(ctx, t, p, c, x, now)
<1>n. None \notin Position
  BY NoneIsNoValue
<1>v. \A q \in Position : q.volume \in Int
  BY ConstantTypes DEF Position
<1>1. CASE p = None /\ c = None
  <2>1. y = x
    BY <1>1 DEF HandleDiff, Fires
  <2> QED
    BY <1>1, <2>1 DEF GoodStep, Quiet
<1>2. CASE p = None /\ c # None
  <2>1. y = HandleEvent(ctx, t, Ev("NEW", c), x, now)
    BY <1>2 DEF HandleDiff, Fires
  <2>2. Ev("NEW", c) \in Event /\ Agrees(Ev("NEW", c), c)
    BY <1>2, <1>v DEF Event, Agrees
  <2> QED
    BY <2>1, <2>2, HandleEventGood
<1>3. CASE p # None /\ c = None
  <2>1. y = HandleEvent(ctx, t, Ev("CLOSE", p), x, now)
    BY <1>3 DEF HandleDiff, Fires
  <2>2. Ev("CLOSE", p) \in Event /\ Agrees(Ev("CLOSE", p), c)
    BY <1>3 DEF Event, Agrees
  <2> QED
    BY <2>1, <2>2, HandleEventGood
<1>4. CASE p # None /\ c # None
  <2>0. /\ p \in Position /\ c \in Position
        /\ \A kind \in {"PARTIAL", "MODIFY"} :
              Ev(kind, c) \in Event /\ Agrees(Ev(kind, c), c)
    BY <1>4, <1>v DEF Event, Agrees
  <2>1. CASE ~(c.volume < p.volume) /\ c.sltp = p.sltp
    <3>1. y = x
      BY <1>4, <2>1 DEF HandleDiff, Fires
    <3>2. p.volume <= c.volume
      BY <2>0, <2>1, <1>v
    <3>3. x.held # None => Agrees(x.held, c)
      <4> SUFFICES ASSUME x.held # None PROVE Agrees(x.held, c)
        OBVIOUS
      <4>1. x.held \in Event /\ Agrees(x.held, p)
        BY DEF Cells, CellOK
      <4>2. x.held.position.volume \in Int
        BY <4>1, <1>v DEF Event
      <4> QED
        BY <4>1, <4>2, <3>2, <2>0, <2>1, <1>4, <1>v DEF Agrees
    <3>4. CellOK(x, c)
      BY <3>3, <1>4 DEF CellOK, MarkerOK
    <3> QED
      BY <3>1, <3>4 DEF GoodStep, Quiet
  <2>2. CASE c.volume < p.volume /\ c.sltp = p.sltp
    <3>1. y = HandleEvent(ctx, t, Ev("PARTIAL", c), x, now)
      BY <1>4, <2>2 DEF HandleDiff, Fires
    <3> QED
      BY <3>1, <2>0, HandleEventGood
  <2>3. CASE ~(c.volume < p.volume) /\ c.sltp # p.sltp
    <3>1. y = HandleEvent(ctx, t, Ev("MODIFY", c), x, now)
      BY <1>4, <2>3 DEF HandleDiff, Fires
    <3> QED
      BY <3>1, <2>0, HandleEventGood
  <2>4. CASE c.volume < p.volume /\ c.sltp # p.sltp
    <3> DEFINE z == HandleEvent(ctx, t, Ev("PARTIAL", c), x, now)
    <3>1. y = HandleEvent(ctx, t, Ev("MODIFY", c), z, now)
      BY <1>4, <2>4 DEF HandleDiff, Fires
    <3>2. CASE x.pending \/ x.held # None
      <4>1. z = [x EXCEPT !.held = Ev("PARTIAL", c)]
        BY <3>2 DEF HandleEvent
      <4>2. /\ z.pending = x.pending /\ z.held # None
            /\ [z EXCEPT !.held = Ev("MODIFY", c)]
                 = [x EXCEPT !.held = Ev("MODIFY", c)]
        BY <4>1, <2>0, NoneIsNoValue DEF Cells
      <4>3. y = [x EXCEPT !.held = Ev("MODIFY", c)]
        BY <3>1, <4>2 DEF HandleEvent
      <4>4. y = HandleEvent(ctx, t, Ev("MODIFY", c), x, now)
        BY <4>3, <3>2 DEF HandleEvent
      <4> QED
        BY <4>4, <2>0, HandleEventGood
    <3>3. CASE ~x.pending /\ x.held = None
      <4>1. z = Rederive(ctx, t, Ev("PARTIAL", c), x, now)
        BY <3>3 DEF HandleEvent
      <4>2. /\ GoodStep(ctx, t, c, x, z)
            /\ z.held = None /\ z.asks = {}
            /\ ~z.pending => z = x
        BY <4>1, <3>3, <2>0, RederiveGood, SMTT(20)
      <4>3. CASE ~z.pending
        <5>1. y = HandleEvent(ctx, t, Ev("MODIFY", c), x, now)
          BY <3>1, <4>2, <4>3
        <5> QED
          BY <5>1, <2>0, HandleEventGood
      <4>4. CASE z.pending
        <5> HIDE DEF z
        <5>1. y = [z EXCEPT !.held = Ev("MODIFY", c)]
          BY <3>1, <4>4 DEF HandleEvent
        <5>2. z \in Cells
          BY <4>2 DEF GoodStep
        <5> DEFINE w == [z EXCEPT !.held = Ev("MODIFY", c)]
        <5>3. /\ w \in Cells /\ w.record = z.record /\ w.held = Ev("MODIFY", c)
              /\ w.pending = z.pending /\ w.commands = z.commands /\ w.asks = {}
          BY <5>2, <4>2, <2>0 DEF Cells
        <5>4. CellOK(w, c)
          BY <5>3, <4>2, <4>4, <2>0 DEF GoodStep, CellOK, MarkerOK
        <5> HIDE DEF w
        <5>5. GoodStep(ctx, t, c, x, w)
          BY <5>3, <5>4, <4>2, <4>4 DEF GoodStep
        <5> QED
          BY <5>1, <5>5 DEF w
      <4> QED
        BY <4>3, <4>4
    <3> QED
      BY <3>2, <3>3
  <2> QED
    BY <2>1, <2>2, <2>3, <2>4
<1> QED
  BY <1>1, <1>2, <1>3, <1>4

-----------------------------------------------------------------------------
(* The inductive invariant.  CellsOK gathers what the safety properties    *)
(* say of one ticket, CommandsOK what they say of the commands under way;  *)
(* DownIsSilent is what they need of the pipes.                            *)
CellsOK == \A s \in Slaves, t \in Tickets : CellOK(Cell(s, t), prev[t])

CommandsOK ==
  \A s \in Slaves :
    /\ \A c, d \in commands[s] : c.ticket = d.ticket => c = d
    /\ \A c \in commands[s] :
         c.ticket \in pending[s] /\ Matches(c, c.ticket, table[s][c.ticket])
    /\ up[s] => \A t \in pending[s] : \E c \in commands[s] : c.ticket = t

DownIsSilent ==
  \A s \in Slaves : ~up[s] => commands[s] = {} /\ asked[s] = << >>

IInv == TypeOK /\ CellsOK /\ CommandsOK /\ NoStuckHold /\ DownIsSilent

LEMMA CommandTicket == \A c \in Command : c.ticket \in Tickets
  BY DEF Command, OpenCommand, ModifyCommand, PartialCommand, CloseCommand

LEMMA CellTypes ==
  ASSUME TypeOK, NEW s \in Slaves
  PROVE  /\ Context(s) \in Contexts
         /\ \A t \in Tickets : Cell(s, t) \in Cells /\ Quiet(Cell(s, t))
  BY DEF TypeOK, Context, Contexts, Cell, Cells, Quiet

(* The invariant implies the properties the runs check.                    *)
LEMMA IInvImplies ==
  ASSUME IInv
  PROVE  /\ OneCommandPerTicket
         /\ CommandMatchesRecord
         /\ MarkerHasMaster
         /\ HeldIsLatest
         /\ NoStuckHold
<1> USE DEF IInv
<1>1. OneCommandPerTicket
  BY DEF OneCommandPerTicket, CommandsOK
<1>2. CommandMatchesRecord
  <2> SUFFICES ASSUME NEW s \in Slaves
               PROVE  /\ \A c \in commands[s] :
                           /\ table[s][c.ticket] # None
                           /\ table[s][c.ticket].slave_ticket =
                                IF c.action = "OPEN" THEN 0 ELSE c.slave_ticket
                      /\ \A t \in pending[s] : table[s][t] # None
    BY DEF CommandMatchesRecord
  <2>1. \A c \in commands[s] : Matches(c, c.ticket, table[s][c.ticket])
    BY DEF CommandsOK
  <2>2. \A t \in pending[s] : t \in Tickets /\ CellOK(Cell(s, t), prev[t])
    BY DEF CellsOK, TypeOK
  <2> QED
    BY <2>1, <2>2 DEF Matches, CellOK, Cell
<1>3. MarkerHasMaster
  BY DEF CellsOK, CellOK, MarkerOK, IsMarker, Cell, MarkerHasMaster
<1>4. HeldIsLatest
  BY DEF CellsOK, CellOK, Agrees, Cell, HeldIsLatest
<1> QED
  BY <1>1, <1>2, <1>3, <1>4

(* A GoodStep of every ticket of a slave keeps its part of the invariant.  *)
LEMMA HoldAfterStep ==
  ASSUME NEW ctx, NEW t, NEW c, NEW x, NEW y, GoodStep(ctx, t, c, x, y),
         NEW inflight, (x.held # None /\ ~x.pending) => inflight # {}
  PROVE  (y.held # None /\ ~y.pending)
           => inflight \cup (y.asks \ (inflight \cup ctx.missing)) # {}
<1> SUFFICES ASSUME y.held # None /\ ~y.pending, inflight = {}
             PROVE  y.asks \ ctx.missing # {}
  OBVIOUS
<1>1. \E sym \in y.asks : sym \notin ctx.missing
  BY DEF GoodStep
<1> QED
  BY <1>1

-----------------------------------------------------------------------------
LEMMA InitIInv == Init => IInv
<1> SUFFICES ASSUME Init PROVE IInv
  OBVIOUS
<1>1. \A r \in [slave_ticket : SlaveTickets, master_open_volume : Volumes,
                slave_open_volume : Fills] :
        r \in Record /\ r.slave_ticket # 0
  BY ConstantsOK, ConstantTypes DEF Record
<1>2. table \in [Slaves -> [Tickets -> Record \cup {None}]]
  <2>1. \A f \in SeededTables : f \in [Tickets -> Record \cup {None}]
    BY <1>1 DEF SeededTables
  <2> QED
    BY <2>1 DEF Init
<1>3. \A s \in Slaves, t \in Tickets : ~IsMarker(table[s][t])
  <2>1. \A f \in SeededTables, t \in Tickets : ~IsMarker(f[t])
    BY <1>1 DEF SeededTables, IsMarker
  <2> QED
    BY <2>1 DEF Init
<1>4. config \in [Slaves -> Config] /\ balance \in [Slaves -> Int]
  <2>1. Configs \subseteq Config /\ Balances \subseteq Int
    BY ConstantsOK
  <2> QED
    BY <2>1 DEF Init
<1>5. TypeOK
  BY <1>2, <1>4 DEF Init, TypeOK
<1>6. CellsOK
  BY <1>3 DEF Init, CellsOK, CellOK, MarkerOK, Cell
<1>7. CommandsOK /\ DownIsSilent /\ NoStuckHold
  BY DEF Init, CommandsOK, DownIsSilent, NoStuckHold
<1> QED
  BY <1>5, <1>6, <1>7 DEF IInv

-----------------------------------------------------------------------------
LEMMA ReadSnapshotIInv ==
  ASSUME IInv, NEW curr \in Snapshots, NEW now \in Times, ReadSnapshot(curr, now)
  PROVE  IInv'
<1> USE DEF IInv
<1> DEFINE Y(s, t) == HandleDiff(Context(s), t, prev[t], curr[t], Cell(s, t), now)
           asks(s) == (UNION {Y(s, t).asks : t \in Tickets})
                        \ (infoInflight[s] \cup confirmedMissing[s])
           request(s) == infoRequests[s] \cup asks(s)
           emitted(s) == UNION {Y(s, t).commands : t \in Tickets}
<1>1. \A s \in Slaves, t \in Tickets :
        GoodStep(Context(s), t, curr[t], Cell(s, t), Y(s, t))
  <2> SUFFICES ASSUME NEW s \in Slaves, NEW t \in Tickets
               PROVE  GoodStep(Context(s), t, curr[t], Cell(s, t), Y(s, t))
    OBVIOUS
  <2>1. /\ Context(s) \in Contexts /\ Cell(s, t) \in Cells /\ Quiet(Cell(s, t))
        /\ CellOK(Cell(s, t), prev[t])
    BY CellTypes DEF CellsOK
  <2>2. prev[t] \in Position \cup {None} /\ curr[t] \in Position \cup {None}
    BY DEF TypeOK, Snapshots
  <2> QED
    BY <2>1, <2>2, HandleDiffGood
<1>2. /\ prev' = curr /\ lastNow' = now
      /\ table' = [s \in Slaves |-> [t \in Tickets |-> Y(s, t).record]]
      /\ held' = [s \in Slaves |-> [t \in Tickets |-> Y(s, t).held]]
      /\ pending' = [s \in Slaves |-> {t \in Tickets : Y(s, t).pending}]
      /\ commands' = [s \in Slaves |-> commands[s] \cup Sent(s, emitted(s))]
      /\ infoInflight' = [s \in Slaves |-> infoInflight[s] \cup asks(s)]
      /\ infoRequests' = [s \in Slaves |-> {}]
      /\ asked' = [s \in Slaves |-> IF up[s] /\ request(s) # {}
                                      THEN Append(asked[s], request(s)) ELSE asked[s]]
      /\ UNCHANGED << config, symbolInfos, balance, confirmedMissing, up, recovered >>
  <2> DEFINE cells == [s \in Slaves |-> [t \in Tickets |-> Y(s, t)]]
             ask == [s \in Slaves |->
                      Asked(cells[s]) \ (infoInflight[s] \cup confirmedMissing[s])]
             req == [s \in Slaves |-> infoRequests[s] \cup ask[s]]
  <2>1. /\ prev' = curr /\ lastNow' = now
        /\ table' = [s \in Slaves |-> [t \in Tickets |-> cells[s][t].record]]
        /\ held' = [s \in Slaves |-> [t \in Tickets |-> cells[s][t].held]]
        /\ pending' = [s \in Slaves |-> {t \in Tickets : cells[s][t].pending}]
        /\ commands' = [s \in Slaves |-> commands[s] \cup Sent(s, Emitted(cells[s]))]
        /\ infoInflight' = [s \in Slaves |-> infoInflight[s] \cup ask[s]]
        /\ infoRequests' = [s \in Slaves |-> {}]
        /\ asked' = [s \in Slaves |-> IF up[s] /\ req[s] # {}
                                        THEN Append(asked[s], req[s]) ELSE asked[s]]
        /\ UNCHANGED << config, symbolInfos, balance, confirmedMissing, up, recovered >>
    BY DEF ReadSnapshot
  <2> HIDE DEF Y
  <2>2. \A s \in Slaves, t \in Tickets : cells[s][t] = Y(s, t)
    OBVIOUS
  <2> HIDE DEF cells
  <2>3. \A s \in Slaves : Emitted(cells[s]) = emitted(s) /\ ask[s] = asks(s)
    <3> SUFFICES ASSUME NEW s \in Slaves
                 PROVE  Emitted(cells[s]) = emitted(s) /\ ask[s] = asks(s)
      OBVIOUS
    <3>1. \A t \in Tickets : cells[s][t] = Y(s, t)
      BY <2>2
    <3>2. Emitted(cells[s]) = emitted(s)
      BY <3>1 DEF Emitted
    <3>3. Asked(cells[s]) = UNION {Y(s, t).asks : t \in Tickets}
      BY <3>1 DEF Asked
    <3>4. /\ ask[s] = Asked(cells[s]) \ (infoInflight[s] \cup confirmedMissing[s])
          /\ asks(s) = (UNION {Y(s, t).asks : t \in Tickets})
                        \ (infoInflight[s] \cup confirmedMissing[s])
      OBVIOUS
    <3> HIDE DEF ask, asks, emitted
    <3> QED
      BY <3>2, <3>3, <3>4
  <2>4. \A s \in Slaves : req[s] = request(s)
    BY <2>3
  <2> HIDE DEF ask, req, asks, request, emitted
  <2> QED
    BY <2>1, <2>2, <2>3, <2>4
<1> HIDE DEF Y
<1>3. \A s \in Slaves, t \in Tickets : Y(s, t) \in Cells /\ CellOK(Y(s, t), curr[t])
  BY <1>1 DEF GoodStep
<1>4. \A s \in Slaves : /\ asks(s) \subseteq Symbols
                         /\ emitted(s) \subseteq Command
  BY <1>3 DEF Cells
<1>5. \A s \in Slaves, t \in Tickets :
        /\ Cell(s, t)'.record = Y(s, t).record
        /\ Cell(s, t)'.held = Y(s, t).held
        /\ Cell(s, t)'.pending <=> Y(s, t).pending
  BY <1>2 DEF Cell
<1>6. TypeOK'
  <2>1. table' \in [Slaves -> [Tickets -> Record \cup {None}]]
        /\ held' \in [Slaves -> [Tickets -> Event \cup {None}]]
        /\ pending' \in [Slaves -> SUBSET Tickets]
    BY <1>2, <1>3 DEF Cells
  <2>2. commands' \in [Slaves -> SUBSET Command]
    BY <1>2, <1>4 DEF TypeOK, Sent
  <2>3. infoInflight' \in [Slaves -> SUBSET Symbols]
        /\ infoRequests' \in [Slaves -> SUBSET Symbols]
    BY <1>2, <1>4 DEF TypeOK
  <2>4. asked' \in [Slaves -> Seq(SUBSET Symbols)]
    <3>1. \A s \in Slaves : /\ asked[s] \in Seq(SUBSET Symbols)
                             /\ request(s) \in SUBSET Symbols
      BY <1>4 DEF TypeOK
    <3>2. \A s \in Slaves : Append(asked[s], request(s)) \in Seq(SUBSET Symbols)
      BY <3>1
    <3> HIDE DEF request
    <3> QED
      BY <1>2, <3>1, <3>2
  <2>5. prev' \in [Tickets -> Position \cup {None}] /\ lastNow' \in Nat
    BY <1>2, ConstantsOK DEF Snapshots
  <2> QED
    BY <2>1, <2>2, <2>3, <2>4, <2>5, <1>2 DEF TypeOK
<1>7. CellsOK'
  BY <1>2, <1>3, <1>5, ZenonT(40) DEF CellsOK, CellOK, MarkerOK
<1>8. CommandsOK'
  <2> SUFFICES ASSUME NEW s \in Slaves
               PROVE  /\ \A c, d \in commands'[s] : c.ticket = d.ticket => c = d
                      /\ \A c \in commands'[s] :
                           /\ c.ticket \in pending'[s]
                           /\ Matches(c, c.ticket, table'[s][c.ticket])
                      /\ up'[s] => \A t \in pending'[s] :
                                    \E c \in commands'[s] : c.ticket = t
    BY DEF CommandsOK
  <2>1. \A t \in Tickets :
          /\ \/ Y(s, t).commands = {} /\ (Y(s, t).pending <=> t \in pending[s])
             \/ t \notin pending[s] /\ Y(s, t).pending /\ \E cmd \in Command :
                  Y(s, t).commands = {cmd} /\ Matches(cmd, t, Y(s, t).record)
          /\ t \in pending[s] => Y(s, t).record = table[s][t]
    BY <1>1 DEF GoodStep, Cell
  <2>2. \A c \in commands[s] : /\ c.ticket \in Tickets /\ c.ticket \in pending[s]
                                /\ Matches(c, c.ticket, table[s][c.ticket])
    BY CommandTicket DEF CommandsOK, TypeOK
  <2>3. \A c \in emitted(s) : \E t \in Tickets :
          /\ c.ticket = t /\ t \notin pending[s] /\ Y(s, t).pending
          /\ Y(s, t).commands = {c} /\ Matches(c, t, Y(s, t).record)
    BY <2>1 DEF Matches
  <2>4. /\ pending'[s] = {t \in Tickets : Y(s, t).pending}
        /\ \A t \in Tickets : table'[s][t] = Y(s, t).record
        /\ commands'[s] = commands[s] \cup Sent(s, emitted(s))
        /\ up'[s] = up[s]
    BY <1>2
  <2>5. \A c \in commands'[s] : c \in commands[s] \/ c \in emitted(s)
    BY <2>4 DEF Sent
  <2>6. \A c, d \in commands'[s] : c.ticket = d.ticket => c = d
    <3> SUFFICES ASSUME NEW c \in commands'[s], NEW d \in commands'[s],
                        c.ticket = d.ticket
                 PROVE  c = d
      OBVIOUS
    <3>1. CASE c \in commands[s] /\ d \in commands[s]
      BY <3>1 DEF CommandsOK
    <3>2. CASE c \in emitted(s) /\ d \in emitted(s)
      BY <3>2, <2>3
    <3>3. CASE c \in commands[s] /\ d \in emitted(s)
      BY <3>3, <2>2, <2>3
    <3>4. CASE c \in emitted(s) /\ d \in commands[s]
      BY <3>4, <2>2, <2>3
    <3> QED
      BY <2>5, <3>1, <3>2, <3>3, <3>4
  <2>7. \A c \in commands'[s] : /\ c.ticket \in pending'[s]
                                 /\ Matches(c, c.ticket, table'[s][c.ticket])
    BY <2>1, <2>2, <2>3, <2>4, <2>5
  <2>8. up[s] => \A t \in pending'[s] : \E c \in commands'[s] : c.ticket = t
    <3> SUFFICES ASSUME up[s], NEW t \in Tickets, Y(s, t).pending
                 PROVE  \E c \in commands'[s] : c.ticket = t
      BY <2>4
    <3>1. CASE t \in pending[s]
      BY <3>1, <2>4 DEF CommandsOK
    <3>2. CASE t \notin pending[s]
      <4>1. PICK cmd \in Command : Y(s, t).commands = {cmd} /\ Matches(cmd, t, Y(s, t).record)
        BY <2>1, <3>2
      <4> QED
        BY <4>1, <2>4 DEF Sent, Matches
    <3> QED
      BY <3>1, <3>2
  <2> QED
    BY <2>4, <2>6, <2>7, <2>8
<1>9. NoStuckHold'
  <2> SUFFICES ASSUME NEW s \in Slaves
               PROVE  /\ (\E t \in Tickets : held'[s][t] # None /\ t \notin pending'[s])
                           => infoInflight'[s] # {}
                      /\ up'[s] => \A sym \in infoInflight'[s] :
                           \/ sym \in infoRequests'[s]
                           \/ \E i \in DOMAIN asked'[s] : sym \in asked'[s][i]
    BY DEF NoStuckHold
  <2>1. ASSUME NEW t \in Tickets, held'[s][t] # None, t \notin pending'[s]
        PROVE  infoInflight'[s] # {}
    <3>1. Y(s, t).held # None /\ ~Y(s, t).pending
      BY <1>2, <2>1
    <3>2. (held[s][t] # None /\ t \notin pending[s]) => infoInflight[s] # {}
      BY DEF NoStuckHold
    <3>3. infoInflight[s] \cup (Y(s, t).asks \ (infoInflight[s] \cup confirmedMissing[s])) # {}
      <4>1. GoodStep(Context(s), t, curr[t], Cell(s, t), Y(s, t))
        BY <1>1
      <4>2. Context(s).missing = confirmedMissing[s]
        BY DEF Context
      <4>3. (Cell(s, t).held # None /\ ~Cell(s, t).pending) => infoInflight[s] # {}
        BY <3>2 DEF Cell
      <4> QED
        BY <3>1, <4>1, <4>2, <4>3, HoldAfterStep
    <3>4. Y(s, t).asks \ (infoInflight[s] \cup confirmedMissing[s]) \subseteq asks(s)
      <4>1. Y(s, t).asks \in {Y(s, u).asks : u \in Tickets}
        BY <2>1
      <4> QED
        BY <4>1
    <3> HIDE DEF asks
    <3>5. infoInflight'[s] = infoInflight[s] \cup asks(s)
      BY <1>2
    <3> QED
      BY <3>3, <3>4, <3>5
  <2>2. ASSUME up'[s], NEW sym \in infoInflight'[s]
        PROVE  \E i \in DOMAIN asked'[s] : sym \in asked'[s][i]
    <3>1. /\ up[s] /\ asked[s] \in Seq(SUBSET Symbols)
          /\ sym \in infoInflight[s] \/ sym \in asks(s)
      BY <1>2, <2>2 DEF TypeOK
    <3>2. sym \in request(s) \/ \E i \in DOMAIN asked[s] : sym \in asked[s][i]
      BY <3>1 DEF NoStuckHold
    <3> HIDE DEF request
    <3>3. CASE request(s) # {}
      <4>1. asked'[s] = Append(asked[s], request(s))
        BY <1>2, <3>1, <3>3
      <4>2. /\ asked'[s][Len(asked[s]) + 1] = request(s)
            /\ Len(asked[s]) + 1 \in DOMAIN asked'[s]
            /\ \A i \in DOMAIN asked[s] : i \in DOMAIN asked'[s]
                                          /\ asked'[s][i] = asked[s][i]
        BY <3>1, <4>1
      <4> QED
        BY <3>2, <4>2
    <3>4. CASE request(s) = {}
      BY <1>2, <3>1, <3>2, <3>4
    <3> QED
      BY <3>3, <3>4
  <2> QED
    BY <2>1, <2>2
<1>10. DownIsSilent'
  BY <1>2 DEF DownIsSilent, Sent
<1> QED
  BY <1>6, <1>7, <1>8, <1>9, <1>10

-----------------------------------------------------------------------------
(* The other actions concern one slave: its part of the invariant is       *)
(* SlaveOK, and the other slaves' parts stay as they were.                 *)
SlaveOK(s) ==
  /\ \A t \in Tickets : CellOK(Cell(s, t), prev[t])
  /\ \A c, d \in commands[s] : c.ticket = d.ticket => c = d
  /\ \A c \in commands[s] :
       c.ticket \in pending[s] /\ Matches(c, c.ticket, table[s][c.ticket])
  /\ up[s] => \A t \in pending[s] : \E c \in commands[s] : c.ticket = t
  /\ (\E t \in Tickets : held[s][t] # None /\ t \notin pending[s])
       => infoInflight[s] # {}
  /\ up[s] => \A sym \in infoInflight[s] :
                \/ sym \in infoRequests[s]
                \/ \E i \in DOMAIN asked[s] : sym \in asked[s][i]
  /\ ~up[s] => commands[s] = {} /\ asked[s] = << >>

Same(s) ==
  /\ table'[s] = table[s] /\ held'[s] = held[s] /\ pending'[s] = pending[s]
  /\ commands'[s] = commands[s] /\ asked'[s] = asked[s] /\ up'[s] = up[s]
  /\ infoInflight'[s] = infoInflight[s] /\ infoRequests'[s] = infoRequests[s]

LEMMA IInvPerSlave ==
  ASSUME IInv
  PROVE  TypeOK /\ \A s \in Slaves : SlaveOK(s)
  BY DEF IInv, CellsOK, CommandsOK, NoStuckHold, DownIsSilent, SlaveOK

LEMMA SameKeepsSlaveOK ==
  ASSUME NEW s \in Slaves, SlaveOK(s), Same(s), prev' = prev
  PROVE  SlaveOK(s)'
<1>1. \A t \in Tickets : Cell(s, t)' = Cell(s, t)
  BY DEF Cell, Same
<1> QED
  BY <1>1 DEF SlaveOK, Same

LEMMA OneSlaveIInv ==
  ASSUME IInv, TypeOK', prev' = prev, NEW s \in Slaves, SlaveOK(s)',
         \A r \in Slaves \ {s} : Same(r)
  PROVE  IInv'
<1>1. \A r \in Slaves : SlaveOK(r)'
  BY IInvPerSlave, SameKeepsSlaveOK
<1> QED
  BY <1>1 DEF IInv, CellsOK, CommandsOK, NoStuckHold, DownIsSilent, SlaveOK

-----------------------------------------------------------------------------
LEMMA ApplyAckIInv ==
  ASSUME IInv, NEW s \in Slaves, NEW cmd \in commands[s], NEW ok \in BOOLEAN,
         NEW st \in SlaveTickets, NEW fill \in Fills,
         ApplyAck(s, cmd, ok, st, fill)
  PROVE  IInv'
<1> DEFINE t     == cmd.ticket
           rec   == AckedRecord(cmd, ok, st, fill, table[s][t])
           freed == [record |-> rec, held |-> None, pending |-> FALSE,
                     commands |-> {}, asks |-> {}]
           cell  == IF held[s][t] = None THEN freed
                    ELSE Rederive(Context(s), t, held[s][t], freed, lastNow)
           asks  == cell.asks \ (infoInflight[s] \cup confirmedMissing[s])
<1>0. /\ TypeOK /\ SlaveOK(s) /\ Context(s) \in Contexts
      /\ Context(s).missing = confirmedMissing[s]
  BY IInvPerSlave, CellTypes DEF Context
<1>1. t \in Tickets /\ t \in pending[s]
  BY <1>0, CommandTicket DEF SlaveOK, TypeOK
<1>2. /\ table[s][t] \in Record \cup {None} /\ held[s][t] \in Event \cup {None}
      /\ CellOK(Cell(s, t), prev[t])
  BY <1>0, <1>1 DEF TypeOK, SlaveOK
<1>3. rec \in Record \cup {None} /\ (IsMarker(rec) => rec = table[s][t])
  <2>1. CASE cmd.action = "OPEN" /\ ok /\ table[s][t] # None
    <3>1. rec = [table[s][t] EXCEPT !.slave_ticket = st, !.slave_open_volume = fill]
      BY <2>1 DEF AckedRecord
    <3>2. fill \in Int /\ st # 0
      BY ConstantsOK, ConstantTypes
    <3> QED
      BY <3>1, <3>2, <1>2, <2>1 DEF Record, IsMarker
  <2>2. CASE ~(cmd.action = "OPEN" /\ ok /\ table[s][t] # None)
    <3>1. rec = None \/ rec = table[s][t]
      BY <2>2 DEF AckedRecord
    <3> QED
      BY <3>1, <1>2 DEF IsMarker
  <2> QED
    BY <2>1, <2>2
<1> HIDE DEF rec
<1>4. freed \in Cells /\ Quiet(freed)
  BY <1>3 DEF Cells, Quiet
<1>5. /\ cell \in Cells /\ CellOK(cell, prev[t])
      /\ \/ cell.commands = {} /\ ~cell.pending
         \/ cell.pending /\ \E d \in Command :
              cell.commands = {d} /\ Matches(d, t, cell.record)
      /\ (cell.held # None /\ ~cell.pending) =>
           \E sym \in cell.asks : sym \notin confirmedMissing[s]
  <2>1. CASE held[s][t] = None
    <3>1. cell = freed
      BY <2>1
    <3>2. IsMarker(rec) => prev[t] # None
      BY <1>2, <1>3, <2>1 DEF CellOK, MarkerOK, Cell
    <3>3. /\ freed.record = rec /\ freed.held = None /\ freed.pending = FALSE
          /\ freed.commands = {}
      OBVIOUS
    <3> HIDE DEF cell, freed
    <3>4. CellOK(cell, prev[t])
      BY <3>1, <3>2, <3>3 DEF CellOK, MarkerOK
    <3> QED
      BY <3>1, <3>3, <3>4, <1>4
  <2>2. CASE held[s][t] # None
    <3>1. cell = Rederive(Context(s), t, held[s][t], freed, lastNow)
      BY <2>2
    <3>2. held[s][t] \in Event /\ Agrees(held[s][t], prev[t])
      BY <1>2, <2>2 DEF CellOK, Cell
    <3>3. freed.pending = FALSE /\ freed.held = None
      OBVIOUS
    <3> HIDE DEF freed
    <3>4. /\ GoodStep(Context(s), t, prev[t], freed, cell)
          /\ ~cell.pending => cell.commands = {}
      BY <1>0, <1>1, <1>4, <3>1, <3>2, <3>3, RederiveGood
    <3> HIDE DEF cell, t
    <3>5. /\ cell \in Cells /\ CellOK(cell, prev[t])
          /\ \/ cell.commands = {} /\ ~cell.pending
             \/ cell.pending /\ \E d \in Command :
                  cell.commands = {d} /\ Matches(d, t, cell.record)
      BY <3>3, <3>4 DEF GoodStep
    <3>6. (cell.held # None /\ ~cell.pending) =>
            \E sym \in cell.asks : sym \notin Context(s).missing
      BY <3>3, <3>4 DEF GoodStep
    <3> QED
      BY <3>5, <3>6, <1>0
  <2> QED
    BY <2>1, <2>2
<1>6. /\ up[s] /\ prev' = prev
      /\ table' = [table EXCEPT ![s][t] = cell.record]
      /\ held' = [held EXCEPT ![s][t] = cell.held]
      /\ pending' = [pending EXCEPT ![s] = IF cell.pending THEN @ \cup {t}
                                                           ELSE @ \ {t}]
      /\ commands' = [commands EXCEPT ![s] = (@ \ {cmd}) \cup cell.commands]
      /\ infoInflight' = [infoInflight EXCEPT ![s] = @ \cup asks]
      /\ infoRequests' = [infoRequests EXCEPT ![s] = @ \cup asks]
      /\ UNCHANGED << prev, lastNow, config, symbolInfos, balance,
                      confirmedMissing, up, recovered, asked >>
  BY DEF ApplyAck, Freed, rec
<1> HIDE DEF cell, t
<1>7. cell.record \in Record \cup {None} /\ cell.held \in Event \cup {None}
      /\ cell.commands \subseteq Command /\ asks \subseteq Symbols
  BY <1>5 DEF Cells
<1>a. asks = cell.asks \ (infoInflight[s] \cup confirmedMissing[s])
  OBVIOUS
<1> HIDE DEF asks
<1>8. TypeOK'
  BY <1>0, <1>1, <1>6, <1>7 DEF TypeOK
<1>9. \A r \in Slaves \ {s} : Same(r)
  BY <1>0, <1>6 DEF Same, TypeOK
<1>10. /\ table'[s] = [table[s] EXCEPT ![t] = cell.record]
       /\ held'[s] = [held[s] EXCEPT ![t] = cell.held]
       /\ pending'[s] = IF cell.pending THEN pending[s] \cup {t} ELSE pending[s] \ {t}
       /\ commands'[s] = (commands[s] \ {cmd}) \cup cell.commands
       /\ infoInflight'[s] = infoInflight[s] \cup asks
       /\ infoRequests'[s] = infoRequests[s] \cup asks
       /\ asked'[s] = asked[s] /\ up'[s]
  BY <1>0, <1>6 DEF TypeOK
<1>11. \A u \in Tickets :
         /\ table'[s][u] = IF u = t THEN cell.record ELSE table[s][u]
         /\ held'[s][u] = IF u = t THEN cell.held ELSE held[s][u]
         /\ u \in pending'[s] <=> IF u = t THEN cell.pending ELSE u \in pending[s]
  BY <1>0, <1>10, <1>1, <1>5 DEF TypeOK, Cells
<1>12. SlaveOK(s)'
  <2>1. \A u \in Tickets : CellOK(Cell(s, u)', prev[u])
    <3> SUFFICES ASSUME NEW u \in Tickets PROVE CellOK(Cell(s, u)', prev[u])
      OBVIOUS
    <3>1. CASE u = t
      <4>1. /\ Cell(s, u)'.record = cell.record /\ Cell(s, u)'.held = cell.held
            /\ Cell(s, u)'.pending <=> cell.pending
        BY <3>1, <1>11 DEF Cell
      <4> QED
        BY <4>1, <3>1, <1>5 DEF CellOK, MarkerOK
    <3>2. CASE u # t
      <4>1. CellOK(Cell(s, u), prev[u])
        BY <1>0 DEF SlaveOK
      <4> QED
        BY <4>1, <3>2, <1>11 DEF Cell, CellOK, MarkerOK
    <3> QED
      BY <3>1, <3>2
  <2>2. \A c \in commands[s] \ {cmd} : c.ticket \in Tickets /\ c.ticket # t
    BY <1>0, CommandTicket DEF SlaveOK, TypeOK, t
  <2>3. \A c \in cell.commands : c.ticket = t /\ cell.pending
                                 /\ Matches(c, t, cell.record)
    BY <1>5 DEF Matches
  <2>4. \A c, d \in commands'[s] : c.ticket = d.ticket => c = d
    BY <2>2, <2>3, <1>0, <1>10, <1>5 DEF SlaveOK
  <2>5. \A c \in commands'[s] : c.ticket \in pending'[s]
                                /\ Matches(c, c.ticket, table'[s][c.ticket])
    <3> SUFFICES ASSUME NEW c \in commands'[s]
                 PROVE  c.ticket \in pending'[s]
                        /\ Matches(c, c.ticket, table'[s][c.ticket])
      OBVIOUS
    <3>1. CASE c \in cell.commands
      BY <3>1, <2>3, <1>11, <1>1
    <3>2. CASE c \in commands[s] \ {cmd}
      BY <3>2, <2>2, <1>11, <1>0 DEF SlaveOK
    <3> QED
      BY <3>1, <3>2, <1>10
  <2>6. \A u \in pending'[s] : \E c \in commands'[s] : c.ticket = u
    <3> SUFFICES ASSUME NEW u \in pending'[s]
                 PROVE  \E c \in commands'[s] : c.ticket = u
      OBVIOUS
    <3>1. CASE u = t
      <4>1. cell.pending
        BY <3>1, <1>11, <1>1
      <4> QED
        BY <4>1, <3>1, <1>5, <1>10 DEF Matches
    <3>2. CASE u # t
      <4>1. u \in pending[s]
        BY <3>2, <1>10
      <4>2. PICK c \in commands[s] : c.ticket = u
        BY <4>1, <1>0, <1>6 DEF SlaveOK
      <4>3. c # cmd
        BY <4>2, <3>2 DEF t
      <4> QED
        BY <4>2, <4>3, <1>10
    <3> QED
      BY <3>1, <3>2
  <2>7. ASSUME NEW u \in Tickets, held'[s][u] # None, u \notin pending'[s]
        PROVE  infoInflight'[s] # {}
    <3>1. CASE u = t
      <4>1. PICK sym \in cell.asks : sym \notin confirmedMissing[s]
        BY <2>7, <3>1, <1>11, <1>5
      <4> QED
        BY <4>1, <1>10, <1>a
    <3>2. CASE u # t
      BY <2>7, <3>2, <1>11, <1>10, <1>0 DEF SlaveOK
    <3> QED
      BY <3>1, <3>2
  <2>8. \A sym \in infoInflight'[s] :
          \/ sym \in infoRequests'[s]
          \/ \E i \in DOMAIN asked'[s] : sym \in asked'[s][i]
    BY <1>0, <1>6, <1>10 DEF SlaveOK
  <2> QED
    BY <2>1, <2>4, <2>5, <2>6, <2>7, <2>8, <1>6, <1>10 DEF SlaveOK
<1> QED
  BY <1>6, <1>8, <1>9, <1>12, OneSlaveIInv

-----------------------------------------------------------------------------
LEMMA ApplySymbolInfoIInv ==
  ASSUME IInv, NEW s \in Slaves, NEW found \in SUBSET Symbols,
         ApplySymbolInfo(s, found)
  PROVE  IInv'
<1> DEFINE req  == Head(asked[s])
           ctx  == [Context(s) EXCEPT !.infos = @ \cup found,
                                      !.missing = @ \cup (req \ found)]
           free(t) == [Cell(s, t) EXCEPT !.held = None]
           Y(t) == IF held[s][t] # None /\ t \notin pending[s]
                     THEN Rederive(ctx, t, held[s][t], free(t), lastNow)
                     ELSE Cell(s, t)
           still == infoInflight[s] \ req
           missing == confirmedMissing[s] \cup (req \ found)
           asks == (UNION {Y(t).asks : t \in Tickets}) \ (still \cup missing)
           emitted == UNION {Y(t).commands : t \in Tickets}
<1>0. /\ TypeOK /\ SlaveOK(s) /\ Context(s) \in Contexts
      /\ \A t \in Tickets : Cell(s, t) \in Cells /\ Quiet(Cell(s, t))
  BY IInvPerSlave, CellTypes
<1>1. req \in SUBSET Symbols /\ asked[s] \in Seq(SUBSET Symbols) /\ asked[s] # << >>
  BY <1>0 DEF TypeOK, ApplySymbolInfo
<1>2. ctx \in Contexts /\ ctx.missing = missing
      /\ ctx.infos = symbolInfos[s] \cup found
  BY <1>0, <1>1 DEF Contexts, Context
<1>3. /\ up[s] /\ prev' = prev
      /\ symbolInfos' = [symbolInfos EXCEPT ![s] = @ \cup found]
      /\ confirmedMissing' = [confirmedMissing EXCEPT ![s] = missing]
      /\ table'   = [table EXCEPT ![s] = [t \in Tickets |-> Y(t).record]]
      /\ held'    = [held EXCEPT ![s] = [t \in Tickets |-> Y(t).held]]
      /\ pending' = [pending EXCEPT ![s] = {t \in Tickets : Y(t).pending}]
      /\ commands' = [commands EXCEPT ![s] = @ \cup emitted]
      /\ infoInflight' = [infoInflight EXCEPT ![s] = still \cup asks]
      /\ infoRequests' = [infoRequests EXCEPT ![s] = @ \cup asks]
      /\ asked' = [asked EXCEPT ![s] = Tail(@)]
      /\ UNCHANGED << prev, lastNow, config, balance, up, recovered >>
  <2> DEFINE cells == [t \in Tickets |-> Y(t)]
  <2>1. /\ up[s] /\ prev' = prev
        /\ symbolInfos' = [symbolInfos EXCEPT ![s] = ctx.infos]
        /\ confirmedMissing' = [confirmedMissing EXCEPT ![s] = ctx.missing]
        /\ Store(s, cells)
        /\ commands' = [commands EXCEPT ![s] = @ \cup Emitted(cells)]
        /\ infoInflight' = [infoInflight EXCEPT
             ![s] = still \cup (Asked(cells) \ (still \cup ctx.missing))]
        /\ infoRequests' = [infoRequests EXCEPT
             ![s] = @ \cup (Asked(cells) \ (still \cup ctx.missing))]
        /\ asked' = [asked EXCEPT ![s] = Tail(@)]
        /\ UNCHANGED << prev, lastNow, config, balance, up, recovered >>
    BY DEF ApplySymbolInfo
  <2> HIDE DEF Y, ctx
  <2>2. \A t \in Tickets : cells[t] = Y(t)
    OBVIOUS
  <2> HIDE DEF cells
  <2>3. Emitted(cells) = emitted
    BY <2>2 DEF Emitted
  <2>4. Asked(cells) \ (still \cup ctx.missing) = asks
    <3>1. Asked(cells) = UNION {Y(t).asks : t \in Tickets}
      BY <2>2 DEF Asked
    <3> QED
      BY <3>1, <1>2
  <2>5. Store(s, cells) =>
          /\ table'   = [table EXCEPT ![s] = [t \in Tickets |-> Y(t).record]]
          /\ held'    = [held EXCEPT ![s] = [t \in Tickets |-> Y(t).held]]
          /\ pending' = [pending EXCEPT ![s] = {t \in Tickets : Y(t).pending}]
    BY <2>2 DEF Store
  <2>6. symbolInfos' = [symbolInfos EXCEPT ![s] = @ \cup found]
    BY <2>1, <1>2
  <2> HIDE DEF asks, emitted, still, missing
  <2> QED
    BY <2>1, <2>3, <2>4, <2>5, <2>6, <1>2
<1>4. \A t \in Tickets :
        /\ Y(t) \in Cells /\ CellOK(Y(t), prev[t])
        /\ \/ Y(t).commands = {} /\ (Y(t).pending <=> t \in pending[s])
           \/ t \notin pending[s] /\ Y(t).pending /\ \E d \in Command :
                Y(t).commands = {d} /\ Matches(d, t, Y(t).record)
        /\ t \in pending[s] => Y(t).record = table[s][t]
        /\ (Y(t).held # None /\ ~Y(t).pending) =>
             \E sym \in Y(t).asks : sym \notin missing
  <2> SUFFICES ASSUME NEW t \in Tickets
               PROVE  /\ Y(t) \in Cells /\ CellOK(Y(t), prev[t])
                      /\ \/ Y(t).commands = {} /\ (Y(t).pending <=> t \in pending[s])
                         \/ t \notin pending[s] /\ Y(t).pending /\ \E d \in Command :
                              Y(t).commands = {d} /\ Matches(d, t, Y(t).record)
                      /\ t \in pending[s] => Y(t).record = table[s][t]
                      /\ (Y(t).held # None /\ ~Y(t).pending) =>
                           \E sym \in Y(t).asks : sym \notin missing
    OBVIOUS
  <2>0. Cell(s, t) \in Cells /\ Quiet(Cell(s, t)) /\ CellOK(Cell(s, t), prev[t])
    BY <1>0 DEF SlaveOK
  <2>1. CASE held[s][t] # None /\ t \notin pending[s]
    <3>1. /\ free(t) \in Cells /\ Quiet(free(t))
          /\ free(t).pending = FALSE /\ free(t).held = None
          /\ free(t).record = table[s][t]
      BY <2>0, <2>1 DEF Cell, Cells, Quiet
    <3>2. Y(t) = Rederive(ctx, t, held[s][t], free(t), lastNow)
      BY <2>1
    <3>3. held[s][t] \in Event /\ Agrees(held[s][t], prev[t])
      BY <2>0, <2>1 DEF CellOK, Cells, Cell
    <3> HIDE DEF free, ctx
    <3>4. GoodStep(ctx, t, prev[t], free(t), Y(t))
      BY <1>2, <3>1, <3>2, <3>3, RederiveGood
    <3> HIDE DEF Y
    <3>5. /\ Y(t) \in Cells /\ CellOK(Y(t), prev[t])
          /\ \/ Y(t).commands = {} /\ (Y(t).pending <=> t \in pending[s])
             \/ t \notin pending[s] /\ Y(t).pending /\ \E d \in Command :
                  Y(t).commands = {d} /\ Matches(d, t, Y(t).record)
      BY <3>1, <3>4, <2>1 DEF GoodStep
    <3>6. (Y(t).held # None /\ ~Y(t).pending) =>
             \E sym \in Y(t).asks : sym \notin ctx.missing
      BY <3>1, <3>4 DEF GoodStep
    <3> QED
      BY <2>1, <3>5, <3>6, <1>2
  <2>2. CASE ~(held[s][t] # None /\ t \notin pending[s])
    <3>1. Y(t) = Cell(s, t)
      BY <2>2
    <3>2. /\ Cell(s, t).commands = {} /\ (Cell(s, t).pending <=> t \in pending[s])
          /\ Cell(s, t).record = table[s][t] /\ Cell(s, t).held = held[s][t]
      BY DEF Cell
    <3> HIDE DEF Y
    <3> QED
      BY <2>0, <2>2, <3>1, <3>2
  <2> QED
    BY <2>1, <2>2
<1> HIDE DEF Y, ctx, missing, req
<1>5. /\ asks \subseteq Symbols /\ emitted \subseteq Command
      /\ missing \subseteq Symbols
  BY <1>0, <1>1, <1>4 DEF Cells, missing, TypeOK
<1>m. \A t \in Tickets : \A sym \in Y(t).asks :
        sym \in asks \/ sym \in still \/ sym \in missing
  <2> SUFFICES ASSUME NEW t \in Tickets, NEW sym \in Y(t).asks
               PROVE  sym \in asks \/ sym \in still \/ sym \in missing
    OBVIOUS
  <2>1. Y(t).asks \in {Y(u).asks : u \in Tickets}
    OBVIOUS
  <2> QED
    BY <2>1
<1>e. /\ \A t \in Tickets : Y(t).commands \subseteq emitted
      /\ \A c \in emitted : \E t \in Tickets : c \in Y(t).commands
  OBVIOUS
<1> HIDE DEF asks, emitted
<1>6. TypeOK'
  <2>1. table' \in [Slaves -> [Tickets -> Record \cup {None}]]
        /\ held' \in [Slaves -> [Tickets -> Event \cup {None}]]
        /\ pending' \in [Slaves -> SUBSET Tickets]
    BY <1>0, <1>3, <1>4 DEF Cells, TypeOK
  <2>2. asked' \in [Slaves -> Seq(SUBSET Symbols)]
    BY <1>0, <1>1, <1>3 DEF TypeOK
  <2>3. /\ infoInflight' \in [Slaves -> SUBSET Symbols]
        /\ infoRequests' \in [Slaves -> SUBSET Symbols]
        /\ confirmedMissing' \in [Slaves -> SUBSET Symbols]
        /\ symbolInfos' \in [Slaves -> SUBSET Symbols]
        /\ commands' \in [Slaves -> SUBSET Command]
    BY <1>0, <1>3, <1>5 DEF TypeOK
  <2> QED
    BY <1>0, <1>3, <2>1, <2>2, <2>3 DEF TypeOK
<1>7. \A r \in Slaves \ {s} : Same(r)
  BY <1>0, <1>3 DEF Same, TypeOK
<1>8. /\ pending'[s] = {t \in Tickets : Y(t).pending}
      /\ commands'[s] = commands[s] \cup emitted
      /\ infoInflight'[s] = still \cup asks
      /\ infoRequests'[s] = infoRequests[s] \cup asks
      /\ asked'[s] = Tail(asked[s]) /\ up'[s]
  BY <1>0, <1>3 DEF TypeOK
<1>9. \A t \in Tickets :
        /\ table'[s][t] = Y(t).record /\ held'[s][t] = Y(t).held
        /\ Cell(s, t)'.record = Y(t).record /\ Cell(s, t)'.held = Y(t).held
        /\ Cell(s, t)'.pending <=> Y(t).pending
  BY <1>0, <1>3 DEF TypeOK, Cell
<1>10. SlaveOK(s)'
  <2>1. \A t \in Tickets : CellOK(Cell(s, t)', prev[t])
    BY <1>4, <1>9 DEF CellOK, MarkerOK
  <2>2. \A c \in commands[s] : /\ c.ticket \in Tickets /\ c.ticket \in pending[s]
                                /\ Matches(c, c.ticket, table[s][c.ticket])
    BY <1>0, CommandTicket DEF SlaveOK, TypeOK
  <2>3. \A c \in emitted : \E t \in Tickets :
          /\ c.ticket = t /\ t \notin pending[s] /\ Y(t).pending
          /\ Y(t).commands = {c} /\ Matches(c, t, Y(t).record)
    <3> SUFFICES ASSUME NEW c \in emitted
                 PROVE \E t \in Tickets :
                          /\ c.ticket = t /\ t \notin pending[s] /\ Y(t).pending
                          /\ Y(t).commands = {c} /\ Matches(c, t, Y(t).record)
      OBVIOUS
    <3>1. PICK t \in Tickets : c \in Y(t).commands
      BY <1>e
    <3> QED
      BY <3>1, <1>4 DEF Matches
  <2>4. \A c, d \in commands'[s] : c.ticket = d.ticket => c = d
    <3> SUFFICES ASSUME NEW c \in commands'[s], NEW d \in commands'[s],
                        c.ticket = d.ticket
                 PROVE  c = d
      OBVIOUS
    <3>1. CASE c \in commands[s] /\ d \in commands[s]
      BY <3>1, <1>0 DEF SlaveOK
    <3>2. CASE c \in emitted /\ d \in emitted
      BY <3>2, <2>3
    <3>3. CASE c \in commands[s] /\ d \in emitted
      BY <3>3, <2>2, <2>3
    <3>4. CASE c \in emitted /\ d \in commands[s]
      BY <3>4, <2>2, <2>3
    <3> QED
      BY <1>8, <3>1, <3>2, <3>3, <3>4
  <2>5. \A c \in commands'[s] : /\ c.ticket \in pending'[s]
                                 /\ Matches(c, c.ticket, table'[s][c.ticket])
    BY <2>2, <2>3, <1>4, <1>8, <1>9
  <2>6. \A t \in pending'[s] : \E c \in commands'[s] : c.ticket = t
    <3> SUFFICES ASSUME NEW t \in Tickets, Y(t).pending
                 PROVE  \E c \in commands'[s] : c.ticket = t
      BY <1>8
    <3>1. CASE t \in pending[s]
      BY <3>1, <1>0, <1>3, <1>8 DEF SlaveOK
    <3>2. CASE t \notin pending[s]
      <4>1. PICK cmd \in Command : Y(t).commands = {cmd} /\ Matches(cmd, t, Y(t).record)
        BY <1>4, <3>2
      <4> QED
        BY <4>1, <1>8, <1>e DEF Matches
    <3> QED
      BY <3>1, <3>2
  <2>7. ASSUME NEW t \in Tickets, held'[s][t] # None, t \notin pending'[s]
        PROVE  infoInflight'[s] # {}
    <3>1. PICK sym \in Y(t).asks : sym \notin missing
      BY <2>7, <1>4, <1>8, <1>9
    <3> QED
      BY <3>1, <1>m, <1>8
  <2>8. ASSUME NEW sym \in infoInflight'[s]
        PROVE  \/ sym \in infoRequests'[s]
               \/ \E i \in DOMAIN asked'[s] : sym \in asked'[s][i]
    <3>1. CASE sym \in asks
      BY <3>1, <1>8
    <3>2. CASE sym \in still /\ sym \notin infoRequests[s]
      <4>1. sym \in infoInflight[s] /\ sym \notin asked[s][1]
        BY <3>2, <1>1 DEF req
      <4>2. PICK i \in DOMAIN asked[s] : sym \in asked[s][i]
        BY <4>1, <3>2, <1>0, <1>3 DEF SlaveOK
      <4>3. i - 1 \in DOMAIN Tail(asked[s]) /\ Tail(asked[s])[i - 1] = asked[s][i]
        BY <1>1, <4>1, <4>2
      <4> QED
        BY <4>2, <4>3, <1>8
    <3> QED
      BY <2>8, <3>1, <3>2, <1>8
  <2> QED
    BY <2>1, <2>4, <2>5, <2>6, <2>7, <2>8, <1>3, <1>8 DEF SlaveOK
<1> QED
  BY <1>3, <1>6, <1>7, <1>10, OneSlaveIInv

-----------------------------------------------------------------------------
LEMMA ReportIInv ==
  ASSUME IInv, NEW s \in Slaves,
         \/ \E cfg \in Configs, found \in SUBSET Symbols :
              ReportSymbolInfo(s, cfg, found)
         \/ \E bal \in Balances : ApplyStatus(s, bal)
         \/ \E cfg \in Configs : UpdateSlaveConfig(s, cfg)
  PROVE  IInv'
<1>1. /\ UNCHANGED << engineVars, table, pending, held, infoInflight,
                      confirmedMissing, pipeVars >>
  BY DEF ReportSymbolInfo, ApplyStatus, UpdateSlaveConfig
<1>2. TypeOK'
  <2>1. symbolInfos' \in [Slaves -> SUBSET Symbols]
    BY IInvPerSlave, ZenonT(40) DEF TypeOK, ReportSymbolInfo, ApplyStatus, UpdateSlaveConfig
  <2>2. balance' \in [Slaves -> Int]
    BY IInvPerSlave, ConstantsOK
       DEF TypeOK, ReportSymbolInfo, ApplyStatus, UpdateSlaveConfig
  <2>3. config' \in [Slaves -> Config]
    BY IInvPerSlave, ConstantsOK
       DEF TypeOK, ReportSymbolInfo, ApplyStatus, UpdateSlaveConfig
  <2> QED
    BY <1>1, <2>1, <2>2, <2>3, IInvPerSlave DEF TypeOK, engineVars, pipeVars
<1>3. prev' = prev /\ \A r \in Slaves : Same(r)
  BY <1>1 DEF engineVars, pipeVars, Same
<1>4. SlaveOK(s)'
  BY <1>3, IInvPerSlave, SameKeepsSlaveOK
<1> QED
  BY <1>2, <1>3, <1>4, OneSlaveIInv

LEMMA ApplyRecoveryIInv ==
  ASSUME IInv, NEW s \in Slaves, NEW seeded \in SeededTables,
         ApplyRecovery(s, seeded)
  PROVE  IInv'
<1> DEFINE seed(t) == IF table[s][t] # None THEN table[s][t] ELSE seeded[t]
<1>0. TypeOK /\ SlaveOK(s)
  BY IInvPerSlave
<1>1. \A t \in Tickets : seeded[t] \in Record \cup {None} /\ ~IsMarker(seeded[t])
  <2>1. \A r \in [slave_ticket : SlaveTickets, master_open_volume : Volumes,
                  slave_open_volume : Fills] :
          r \in Record /\ r.slave_ticket # 0
    BY ConstantsOK, ConstantTypes DEF Record
  <2> QED
    BY <2>1 DEF SeededTables, IsMarker
<1>2. /\ table' = [table EXCEPT ![s] = [t \in Tickets |-> seed(t)]]
      /\ UNCHANGED << engineVars, config, symbolInfos, balance, pending, held,
                      infoInflight, confirmedMissing, up, commands, asked >>
      /\ recovered' = [recovered EXCEPT ![s] = TRUE]
  BY DEF ApplyRecovery
<1>3. \A t \in Tickets :
        /\ seed(t) \in Record \cup {None}
        /\ IsMarker(seed(t)) => seed(t) = table[s][t]
        /\ table[s][t] # None => seed(t) = table[s][t]
  BY <1>0, <1>1 DEF TypeOK, IsMarker
<1> HIDE DEF seed
<1>4. TypeOK'
  BY <1>0, <1>2, <1>3 DEF TypeOK, engineVars
<1>5. \A t \in Tickets : table'[s][t] = seed(t)
  BY <1>0, <1>2 DEF TypeOK
<1>6. /\ prev' = prev /\ \A r \in Slaves \ {s} : Same(r)
      /\ UNCHANGED << held, pending, commands, asked, up, infoInflight, infoRequests >>
  BY <1>0, <1>2 DEF Same, TypeOK, engineVars
<1>7. SlaveOK(s)'
  <2>1. \A t \in Tickets : CellOK(Cell(s, t)', prev[t])
    <3> SUFFICES ASSUME NEW t \in Tickets PROVE CellOK(Cell(s, t)', prev[t])
      OBVIOUS
    <3>1. CellOK(Cell(s, t), prev[t])
      BY <1>0 DEF SlaveOK
    <3>2. /\ Cell(s, t)'.record = seed(t) /\ Cell(s, t)'.held = Cell(s, t).held
          /\ Cell(s, t)'.pending = Cell(s, t).pending
          /\ Cell(s, t).record = table[s][t]
      BY <1>5, <1>6 DEF Cell
    <3> QED
      BY <1>3, <3>1, <3>2 DEF CellOK, MarkerOK
  <2>2. \A c \in commands[s] : table'[s][c.ticket] = table[s][c.ticket]
    <3>1. \A c \in commands[s] : c.ticket \in Tickets /\ table[s][c.ticket] # None
      BY <1>0, CommandTicket DEF SlaveOK, TypeOK, Matches
    <3> QED
      BY <3>1, <1>3, <1>5
  <2> QED
    BY <2>1, <2>2, <1>0, <1>6 DEF SlaveOK
<1> QED
  BY <1>4, <1>6, <1>7, OneSlaveIInv

LEMMA LoseWorkerIInv ==
  ASSUME IInv, NEW s \in Slaves, LoseWorker(s)
  PROVE  IInv'
<1>0. TypeOK /\ SlaveOK(s)
  BY IInvPerSlave
<1>1. TypeOK'
  BY <1>0 DEF TypeOK, LoseWorker, engineVars, slaveVars
<1>2. /\ prev' = prev /\ \A r \in Slaves \ {s} : Same(r)
      /\ UNCHANGED << table, held, pending, infoInflight >>
      /\ commands'[s] = {} /\ asked'[s] = << >> /\ up'[s] = FALSE
  BY <1>0 DEF Same, TypeOK, LoseWorker, engineVars, slaveVars
<1>3. \A t \in Tickets : Cell(s, t)' = Cell(s, t)
  BY <1>2 DEF Cell
<1>4. SlaveOK(s)'
  BY <1>0, <1>2, <1>3 DEF SlaveOK
<1> QED
  BY <1>1, <1>2, <1>4, OneSlaveIInv

LEMMA RestartWorkerIInv ==
  ASSUME IInv, NEW s \in Slaves, RestartWorker(s)
  PROVE  IInv'
<1>0. TypeOK /\ SlaveOK(s)
  BY IInvPerSlave
<1>1. TypeOK'
  BY <1>0 DEF TypeOK, RestartWorker, engineVars
<1>2. /\ prev' = prev /\ \A r \in Slaves \ {s} : Same(r)
      /\ \A t \in Tickets : table'[s][t] = None /\ held'[s][t] = None
      /\ pending'[s] = {} /\ infoInflight'[s] = {}
      /\ commands'[s] = {} /\ up'[s]
  BY <1>0 DEF Same, TypeOK, RestartWorker, engineVars, SlaveOK
<1>3. \A t \in Tickets : CellOK(Cell(s, t)', prev[t])
  BY <1>2 DEF Cell, CellOK, MarkerOK, IsMarker
<1>4. SlaveOK(s)'
  BY <1>0, <1>2, <1>3 DEF SlaveOK
<1> QED
  BY <1>1, <1>2, <1>4, OneSlaveIInv

-----------------------------------------------------------------------------
LEMMA StepIInv == IInv /\ [Next]_vars => IInv'
<1> SUFFICES ASSUME IInv, [Next]_vars PROVE IInv'
  OBVIOUS
<1>1. ASSUME NEW curr \in Snapshots, NEW now \in Times, ReadSnapshot(curr, now)
      PROVE  IInv'
  BY <1>1, ReadSnapshotIInv
<1>2. ASSUME NEW s \in Slaves, NEW t \in Tickets, ApplyAckOf(s, t)
      PROVE  IInv'
  BY <1>2, ApplyAckIInv DEF ApplyAckOf
<1>3. ASSUME NEW s \in Slaves, NEW found \in SUBSET Symbols,
             ApplySymbolInfo(s, found)
      PROVE  IInv'
  BY <1>3, ApplySymbolInfoIInv
<1>4. ASSUME NEW s \in Slaves,
             \/ \E cfg \in Configs, found \in SUBSET Symbols :
                  ReportSymbolInfo(s, cfg, found)
             \/ \E bal \in Balances : ApplyStatus(s, bal)
             \/ \E cfg \in Configs : UpdateSlaveConfig(s, cfg)
      PROVE  IInv'
  BY <1>4, ReportIInv
<1>5. ASSUME NEW s \in Slaves, NEW seeded \in SeededTables,
             ApplyRecovery(s, seeded)
      PROVE  IInv'
  BY <1>5, ApplyRecoveryIInv
<1>6. ASSUME NEW s \in Slaves, LoseWorker(s) PROVE IInv'
  BY <1>6, LoseWorkerIInv
<1>7. ASSUME NEW s \in Slaves, RestartWorker(s) PROVE IInv'
  BY <1>7, RestartWorkerIInv
<1>8. CASE UNCHANGED vars
  <2>1. /\ prev' = prev /\ TypeOK' /\ \A r \in Slaves : Same(r)
    BY <1>8, IInvPerSlave
       DEF vars, engineVars, slaveVars, pipeVars, Same, TypeOK
  <2>2. \A r \in Slaves : SlaveOK(r)'
    BY <2>1, IInvPerSlave, SameKeepsSlaveOK
  <2> QED
    BY <2>1, <2>2 DEF IInv, CellsOK, CommandsOK, NoStuckHold, DownIsSilent, SlaveOK
<1> QED
  BY <1>1, <1>2, <1>3, <1>4, <1>5, <1>6, <1>7, <1>8
     DEF Next, ReadSomeSnapshot, ApplySomeSymbolInfo

(* The inductive invariant holds in every reachable state.                 *)
THEOREM Invariance == Spec => []IInv
<1>1. Init => IInv
  BY InitIInv
<1>2. IInv /\ [Next]_vars => IInv'
  BY StepIInv
<1> QED
  BY <1>1, <1>2, PTL DEF Spec

(* Every variable of the engine keeps its type: in particular a volume     *)
(* taken from the sizing arithmetic is always an integer number of lot     *)
(* units, and a record's slave ticket is 0 or one a terminal gave.         *)
THEOREM TypeCorrect == Spec => []TypeOK
<1>1. IInv => TypeOK
  BY DEF IInv
<1> QED
  BY <1>1, Invariance, PTL

(* Never two unanswered commands for one ticket of one slave, and no       *)
(* pending ticket without one while the worker is up (pending set of       *)
(* _rederive, apply_ack and reset_slave).                                  *)
THEOREM OneCommandAtATime == Spec => []OneCommandPerTicket
  BY IInvImplies, Invariance, PTL

(* A command on its way names the slave position its ticket's record names. *)
THEOREM CommandsMatchRecords == Spec => []CommandMatchesRecord
  BY IInvImplies, Invariance, PTL

(* A failed open's marker never outlives the master's position, whatever   *)
(* the order of the failed answer and the close.                           *)
THEOREM MarkersHaveMasters == Spec => []MarkerHasMaster
  BY IInvImplies, Invariance, PTL

(* An event held back agrees with the last snapshot read.                  *)
THEOREM HeldEventsAreLatest == Spec => []HeldIsLatest
  BY IInvImplies, Invariance, PTL

(* No event is held for symbol info that nobody was asked for.             *)
THEOREM NothingHeldForGood == Spec => []NoStuckHold
  BY IInvImplies, Invariance, PTL

-----------------------------------------------------------------------------
(***************************************************************************)
(* The refinement of CopyLink.  LinkStep is what handling events may make  *)
(* of a ticket's link and of the command it waits for: CopyLink's Acts, in *)
(* the terms of cells.                                                     *)
(***************************************************************************)
LinkStep(t, x, y) ==
  \/ /\ y.commands = {} /\ y.pending = x.pending
     /\ \/ y.record = x.record
        \/ ~x.pending /\ IsMarker(x.record) /\ y.record = None
  \/ /\ ~x.pending /\ y.pending = TRUE
     /\ \E cmd \in Command :
          /\ y.commands = {cmd} /\ cmd.ticket = t
          /\ \/ /\ x.record = None /\ cmd.action = "OPEN"
                /\ IsMarker(y.record)
             \/ /\ x.record # None /\ x.record.slave_ticket \in SlaveTickets
                /\ cmd.action \in {"MODIFY", "PARTIAL_CLOSE", "CLOSE"}
                /\ y.record = x.record

LEMMA RederiveLink ==
  ASSUME NEW ctx \in Contexts, NEW t \in Tickets, NEW ev \in Event, NEW now,
         NEW x \in Cells, Quiet(x), ~x.pending
  PROVE  LinkStep(t, x, Rederive(ctx, t, ev, x, now))
<1> DEFINE rec == x.record
           d   == Derive(ctx, t, ev, rec, now)
           y   == Rederive(ctx, t, ev, x, now)
<1>x. /\ x = [record |-> x.record, held |-> x.held, pending |-> x.pending,
             commands |-> x.commands, asks |-> x.asks]
      /\ rec \in Record \cup {None} /\ x.commands = {}
  BY DEF Cells, Quiet
<1> HIDE DEF d
<1>1. CASE d = Skip
  <2>1. y = IF ev.kind = "CLOSE" /\ rec # None /\ rec.slave_ticket = 0
              THEN [x EXCEPT !.record = None] ELSE x
    BY <1>1 DEF Rederive, Skip, d
  <2> QED
    BY <2>1, <1>x DEF LinkStep, IsMarker
<1>2. CASE \E sym \in Symbols : d = AwaitInfo(sym)
  <2>1. PICK sym \in Symbols : d = AwaitInfo(sym)
    BY <1>2
  <2>2. y = [x EXCEPT !.held = ev, !.asks = {sym}]
    BY <2>1 DEF Rederive, AwaitInfo, d
  <2> QED
    BY <2>2, <1>x DEF LinkStep
<1>3. CASE rec = None /\ d \in OpenCommand /\ d.ticket = t
  <2>1. d.action = "OPEN" /\ d \in Command /\ d.volume \in Int
    BY <1>3 DEF OpenCommand, Command
  <2> DEFINE new == [slave_ticket |-> 0, master_open_volume |-> ev.position.volume,
                     slave_open_volume |-> d.volume]
  <2>2. y = [x EXCEPT !.pending = TRUE, !.commands = @ \cup {d}, !.record = new]
    BY <2>1 DEF Rederive, d
  <2>3. new \in Record
    BY <2>1 DEF Record, Event, Position
  <2>4. IsMarker(new)
    BY <2>3, NoneIsNoValue DEF IsMarker
  <2>5. y.pending = TRUE /\ y.commands = {d} /\ y.record = new
    BY <2>2, <1>x
  <2> QED
    BY <2>1, <2>4, <2>5, <1>3 DEF LinkStep
<1>4. CASE /\ rec # None /\ d \in LinkedCommand /\ d.ticket = t
           /\ rec.slave_ticket = d.slave_ticket
  <2>1. /\ d.action \in {"MODIFY", "PARTIAL_CLOSE", "CLOSE"}
        /\ d \in Command /\ d.slave_ticket \in SlaveTickets
    BY <1>4 DEF LinkedCommand, ModifyCommand, PartialCommand, CloseCommand, Command
  <2>2. y = [x EXCEPT !.pending = TRUE, !.commands = @ \cup {d}]
    BY <2>1 DEF Rederive, d
  <2>3. y.pending = TRUE /\ y.commands = {d} /\ y.record = rec
    BY <2>2, <1>x
  <2> QED
    BY <2>1, <2>3, <1>4 DEF LinkStep
<1> QED
  BY <1>1, <1>2, <1>3, <1>4, <1>x, DeriveCases DEF d

(* A pending cell, or one with an event held, only holds the next one.     *)
LEMMA HandleEventLink ==
  ASSUME NEW ctx \in Contexts, NEW t \in Tickets, NEW ev \in Event, NEW now,
         NEW x \in Cells, Quiet(x)
  PROVE  LinkStep(t, x, HandleEvent(ctx, t, ev, x, now))
<1>1. CASE x.pending \/ x.held # None
  <2>1. HandleEvent(ctx, t, ev, x, now) = [x EXCEPT !.held = ev]
    BY <1>1 DEF HandleEvent
  <2>2. LinkStep(t, x, [x EXCEPT !.held = ev])
    BY DEF LinkStep, Cells, Quiet
  <2> QED
    BY <2>1, <2>2
<1>2. CASE ~(x.pending \/ x.held # None)
  BY <1>2, RederiveLink DEF HandleEvent
<1> QED
  BY <1>1, <1>2

LEMMA HandleDiffLink ==
  ASSUME NEW ctx \in Contexts, NEW t \in Tickets, NEW now,
         NEW p \in Position \cup {None}, NEW c \in Position \cup {None},
         NEW x \in Cells, Quiet(x)
  PROVE  LinkStep(t, x, HandleDiff(ctx, t, p, c, x, now))
<1> DEFINE Ev(kind, pos) == [kind |-> kind, position |-> pos]
           y == HandleDiff(ctx, t, p, c, x, now)
           pos == IF c = None THEN p ELSE c
<1>1. CASE y = x
  BY <1>1 DEF LinkStep, Quiet
<1>2. CASE pos # None /\ \E kind \in {"NEW", "MODIFY", "PARTIAL", "CLOSE"} :
             y = HandleEvent(ctx, t, Ev(kind, pos), x, now)
  <2>1. PICK kind \in {"NEW", "MODIFY", "PARTIAL", "CLOSE"} :
          y = HandleEvent(ctx, t, Ev(kind, pos), x, now)
    BY <1>2
  <2>2. Ev(kind, pos) \in Event
    BY <1>2 DEF Event
  <2> QED
    BY <2>1, <2>2, HandleEventLink
<1>3. CASE /\ p # None /\ c # None /\ c.volume < p.volume /\ c.sltp # p.sltp
  <2> DEFINE z == HandleEvent(ctx, t, Ev("PARTIAL", c), x, now)
  <2>1. y = HandleEvent(ctx, t, Ev("MODIFY", c), z, now)
    BY <1>3 DEF HandleDiff, Fires
  <2>2. Ev("PARTIAL", c) \in Event /\ Ev("MODIFY", c) \in Event
    BY <1>3 DEF Event
  <2>3. z \in Cells /\ (~z.pending /\ z.held = None => z = x)
    <3>1. CASE x.pending \/ x.held # None
      <4>1. z = [x EXCEPT !.held = Ev("PARTIAL", c)]
        BY <3>1 DEF HandleEvent
      <4> QED
        BY <4>1, <2>2, NoneIsNoValue DEF Cells
    <3>2. CASE ~x.pending /\ x.held = None
      <4>1. z = Rederive(ctx, t, Ev("PARTIAL", c), x, now)
        BY <3>2 DEF HandleEvent
      <4>2. Agrees(Ev("PARTIAL", c), c)
        <5>1. c.volume \in Int
          BY <1>3, ConstantTypes DEF Position
        <5> QED
          BY <1>3, <5>1 DEF Agrees
      <4> HIDE DEF z
      <4>3. GoodStep(ctx, t, c, x, z) /\ (~z.pending => z = x)
        BY <4>1, <4>2, <3>2, <2>2, RederiveGood
      <4> QED
        BY <4>3 DEF GoodStep
    <3> QED
      BY <3>1, <3>2 DEF Cells
  <2>4. LinkStep(t, x, z)
    BY <2>2, HandleEventLink
  <2> HIDE DEF z
  <2>5. CASE z.pending \/ z.held # None
    <3>1. y = [z EXCEPT !.held = Ev("MODIFY", c)]
      BY <2>1, <2>5 DEF HandleEvent
    <3>2. /\ y.record = z.record /\ y.pending = z.pending
          /\ y.commands = z.commands
      BY <3>1, <2>3 DEF Cells
    <3> QED
      BY <3>2, <2>4 DEF LinkStep
  <2>6. CASE ~z.pending /\ z.held = None
    BY <2>1, <2>2, <2>3, <2>6, HandleEventLink
  <2> QED
    BY <2>5, <2>6
<1>4. \/ y = x
      \/ /\ pos # None
         /\ \E kind \in {"NEW", "MODIFY", "PARTIAL", "CLOSE"} :
              y = HandleEvent(ctx, t, Ev(kind, pos), x, now)
      \/ p # None /\ c # None /\ c.volume < p.volume /\ c.sltp # p.sltp
  <2>1. CASE p = None \/ c = None
    BY <2>1 DEF HandleDiff, Fires
  <2>2. CASE p # None /\ c # None
    BY <2>2 DEF HandleDiff, Fires
  <2> QED
    BY <2>1, <2>2
<1> QED
  BY <1>1, <1>2, <1>3, <1>4

-----------------------------------------------------------------------------
(* The abstract state of a cell: the command in C for its ticket, if any.  *)
LinkIn(rec) == IF rec = None THEN None ELSE rec.slave_ticket

BusyIn(p, C, t) ==
  IF ~p THEN "idle"
  ELSE IF \E c \in C : c.ticket = t
         THEN (CHOOSE c \in C : c.ticket = t).action ELSE "lost"

Abstract(x, C, t) == << LinkIn(x.record), BusyIn(x.pending, C, t) >>

LEMMA BusyCases ==
  ASSUME NEW t, NEW C, NEW p \in BOOLEAN
  PROVE  /\ ~p => BusyIn(p, C, t) = "idle"
         /\ (p /\ \A c \in C : c.ticket # t) => BusyIn(p, C, t) = "lost"
         /\ \A c \in C :
              (p /\ c.ticket = t /\ \A d \in C : d.ticket = t => d = c)
                => BusyIn(p, C, t) = c.action
<1>1. ~p => BusyIn(p, C, t) = "idle"
  BY DEF BusyIn
<1>2. (p /\ \A c \in C : c.ticket # t) => BusyIn(p, C, t) = "lost"
  BY DEF BusyIn
<1>3. ASSUME NEW c \in C, p, c.ticket = t, \A d \in C : d.ticket = t => d = c
      PROVE  BusyIn(p, C, t) = c.action
  <2>1. (CHOOSE d \in C : d.ticket = t) = c
    BY <1>3
  <2> QED
    BY <1>3, <2>1 DEF BusyIn
<1> QED
  BY <1>1, <1>2, <1>3

LEMMA BusySame ==
  ASSUME NEW t, NEW C, NEW D, NEW p \in BOOLEAN,
         \A c \in C : c.ticket = t => c \in D,
         \A c \in D : c.ticket = t => c \in C
  PROVE  BusyIn(p, C, t) = BusyIn(p, D, t)
<1>1. {c \in C : c.ticket = t} = {c \in D : c.ticket = t}
  OBVIOUS
<1>2. \A c : (c \in C /\ c.ticket = t) <=> (c \in D /\ c.ticket = t)
  OBVIOUS
<1>3. (CHOOSE c \in C : c.ticket = t) = (CHOOSE c \in D : c.ticket = t)
  BY <1>2
<1> QED
  BY <1>2, <1>3 DEF BusyIn

(* A step of a cell is a step of its abstraction: C and D are the commands *)
(* under way before and after, open says whether the pipe took the new one.*)
LEMMA LinkStepActs ==
  ASSUME NEW t \in Tickets, NEW x \in Cells, NEW y \in Cells, LinkStep(t, x, y),
         NEW C, NEW D, NEW open \in BOOLEAN,
         ~x.pending => \A c \in C : c.ticket # t,
         \A c \in C : c.ticket = t => c \in D,
         \A c \in D : c.ticket = t => c \in C \/ (open /\ c \in y.commands),
         open => y.commands \subseteq D
  PROVE  Link!Acts(Abstract(x, C, t), Abstract(y, D, t))
<1> USE DEF Link!Acts, Link!Opens, Link!Routes, Link!Drops, Link!State,
            Link!Idle, Abstract
<1>0. x.pending \in BOOLEAN /\ y.pending \in BOOLEAN
  BY DEF Cells
<1>1. CASE y.commands = {} /\ y.pending = x.pending
  <2>1. BusyIn(x.pending, C, t) = BusyIn(y.pending, D, t)
    BY <1>0, <1>1, BusySame
  <2>2. CASE y.record = x.record
    BY <2>1, <2>2
  <2>3. CASE ~x.pending /\ IsMarker(x.record) /\ y.record = None
    <3>1. BusyIn(x.pending, C, t) = "idle" /\ BusyIn(y.pending, D, t) = "idle"
      BY <2>1, <2>3, <1>0, BusyCases
    <3>2. LinkIn(x.record) = 0 /\ LinkIn(y.record) = None
      BY <2>3 DEF LinkIn, IsMarker
    <3> QED
      BY <3>1, <3>2
  <2> QED
    BY <1>1, <2>2, <2>3 DEF LinkStep
<1>2. CASE ~(y.commands = {} /\ y.pending = x.pending)
  <2>1. PICK cmd \in Command :
          /\ y.commands = {cmd} /\ cmd.ticket = t
          /\ \/ /\ x.record = None /\ cmd.action = "OPEN"
                /\ IsMarker(y.record)
             \/ /\ x.record # None /\ x.record.slave_ticket \in SlaveTickets
                /\ cmd.action \in {"MODIFY", "PARTIAL_CLOSE", "CLOSE"}
                /\ y.record = x.record
    BY <1>2 DEF LinkStep
  <2>2. ~x.pending /\ y.pending = TRUE
    BY <1>2 DEF LinkStep
  <2>3. BusyIn(x.pending, C, t) = "idle"
    BY <1>0, <2>2, BusyCases
  <2>4. BusyIn(y.pending, D, t) = IF open THEN cmd.action ELSE "lost"
    <3>1. CASE open
      <4>1. cmd \in D /\ \A d \in D : d.ticket = t => d = cmd
        BY <2>1, <2>2, <3>1
      <4>2. BusyIn(y.pending, D, t) = cmd.action
        BY <4>1, <2>1, <2>2, <1>0, BusyCases
      <4> QED
        BY <4>2, <3>1
    <3>2. CASE ~open
      <4>1. \A d \in D : d.ticket # t
        BY <2>2, <3>2
      <4>2. BusyIn(y.pending, D, t) = "lost"
        BY <4>1, <2>2, <1>0, BusyCases
      <4> QED
        BY <4>2, <3>2
    <3> QED
      BY <3>1, <3>2
  <2>5. CASE x.record = None /\ cmd.action = "OPEN" /\ IsMarker(y.record)
    <3>1. LinkIn(x.record) = None /\ LinkIn(y.record) = 0
      BY <2>5 DEF LinkIn, IsMarker
    <3> QED
      BY <3>1, <2>3, <2>4, <2>5
  <2>6. CASE /\ x.record # None /\ x.record.slave_ticket \in SlaveTickets
             /\ cmd.action \in {"MODIFY", "PARTIAL_CLOSE", "CLOSE"}
             /\ y.record = x.record
    <3>1. /\ LinkIn(x.record) = x.record.slave_ticket
          /\ LinkIn(y.record) = x.record.slave_ticket
      BY <2>6 DEF LinkIn
    <3> QED
      BY <3>1, <2>3, <2>4, <2>6
  <2> QED
    BY <2>1, <2>5, <2>6
<1> QED
  BY <1>1, <1>2

-----------------------------------------------------------------------------
(* CopyLink's Now and Then of a ticket, in the engine's variables.         *)
LEMMA LinkMapping ==
  ASSUME TypeOK, TypeOK', NEW s \in Slaves, NEW t \in Tickets
  PROVE  /\ Link!Now(s, t) = Abstract(Cell(s, t), commands[s], t)
         /\ Link!Then(s, t) = Abstract(Cell(s, t)', commands'[s], t)
<1>1. /\ Link!Now(s, t) = << LinkOf(s, t), BusyOf(s, t) >>
      /\ Link!Then(s, t) = << LinkOf(s, t)', BusyOf(s, t)' >>
  BY DEF Link!Now, Link!Then, Link!State
<1>2. /\ LinkOf(s, t) = LinkIn(Cell(s, t).record)
      /\ LinkOf(s, t)' = LinkIn(Cell(s, t)'.record)
  BY DEF LinkOf, LinkIn, Cell
<1>3. /\ BusyOf(s, t) = BusyIn(Cell(s, t).pending, commands[s], t)
      /\ BusyOf(s, t)' = BusyIn(Cell(s, t)'.pending, commands'[s], t)
  BY DEF BusyOf, BusyIn, Cell
<1> QED
  BY <1>1, <1>2, <1>3 DEF Abstract

(* A ticket whose cell and command are left alone.                         *)
LEMMA LinkStays ==
  ASSUME TypeOK, TypeOK', NEW s \in Slaves, NEW t \in Tickets,
         table'[s][t] = table[s][t], t \in pending'[s] <=> t \in pending[s],
         \A c \in commands[s] : c.ticket = t => c \in commands'[s],
         \A c \in commands'[s] : c.ticket = t => c \in commands[s]
  PROVE  Link!Then(s, t) = Link!Now(s, t)
<1>1. /\ Cell(s, t)'.record = Cell(s, t).record
      /\ Cell(s, t)'.pending = Cell(s, t).pending
      /\ Cell(s, t).pending \in BOOLEAN
  BY DEF Cell
<1>2. BusyIn(Cell(s, t).pending, commands[s], t)
        = BusyIn(Cell(s, t).pending, commands'[s], t)
  BY <1>1, BusySame
<1> QED
  BY <1>1, <1>2, LinkMapping DEF Abstract

LEMMA OthersStay ==
  ASSUME TypeOK, TypeOK', NEW s \in Slaves, \A r \in Slaves \ {s} : Same(r)
  PROVE  Link!Others(s)
  BY LinkStays DEF Link!Others, Same

-----------------------------------------------------------------------------
(* A ticket that is not pending has no command under way.                  *)
LEMMA FreeHasNone ==
  ASSUME NEW s \in Slaves, NEW t \in Tickets, SlaveOK(s), ~Cell(s, t).pending
  PROVE  \A c \in commands[s] : c.ticket # t
<1>1. t \notin pending[s]
  BY DEF Cell
<1>2. \A c \in commands[s] : c.ticket \in pending[s]
  BY DEF SlaveOK
<1> QED
  BY <1>1, <1>2

(* A snapshot is an Event of the protocol: every ticket of every slave     *)
(* makes a LinkStep.                                                       *)
LEMMA ReadSnapshotLink ==
  ASSUME IInv, TypeOK', NEW curr \in Snapshots, NEW now \in Times,
         ReadSnapshot(curr, now)
  PROVE  Link!Event
<1> DEFINE Y(s, t) == HandleDiff(Context(s), t, prev[t], curr[t], Cell(s, t), now)
           cells == [s \in Slaves |-> [t \in Tickets |-> Y(s, t)]]
<1>0. TypeOK /\ \A s \in Slaves : SlaveOK(s)
  BY IInvPerSlave
<1>1. \A s \in Slaves, t \in Tickets :
        LinkStep(t, Cell(s, t), Y(s, t)) /\ Y(s, t) \in Cells
  <2> SUFFICES ASSUME NEW s \in Slaves, NEW t \in Tickets
               PROVE  LinkStep(t, Cell(s, t), Y(s, t)) /\ Y(s, t) \in Cells
    OBVIOUS
  <2>1. /\ Context(s) \in Contexts /\ Cell(s, t) \in Cells /\ Quiet(Cell(s, t))
        /\ CellOK(Cell(s, t), prev[t])
    BY <1>0, CellTypes DEF SlaveOK
  <2>2. prev[t] \in Position \cup {None} /\ curr[t] \in Position \cup {None}
    BY <1>0 DEF TypeOK, Snapshots
  <2>3. LinkStep(t, Cell(s, t), Y(s, t))
    BY <2>1, <2>2, HandleDiffLink
  <2>4. GoodStep(Context(s), t, curr[t], Cell(s, t), Y(s, t))
    BY <2>1, <2>2, HandleDiffGood
  <2> QED
    BY <2>3, <2>4 DEF GoodStep
<1>2. /\ table' = [s \in Slaves |-> [t \in Tickets |-> cells[s][t].record]]
      /\ pending' = [s \in Slaves |-> {t \in Tickets : cells[s][t].pending}]
      /\ commands' = [s \in Slaves |-> commands[s] \cup Sent(s, Emitted(cells[s]))]
  BY DEF ReadSnapshot
<1> HIDE DEF Y
<1>3. \A s \in Slaves, t \in Tickets : cells[s][t] = Y(s, t)
  OBVIOUS
<1> HIDE DEF cells
<1> SUFFICES ASSUME NEW s \in Slaves, NEW t \in Tickets
             PROVE  Link!Acts(Link!Now(s, t), Link!Then(s, t))
  BY DEF Link!Event
<1>4. /\ Cell(s, t)'.record = Y(s, t).record
      /\ Cell(s, t)'.pending <=> Y(s, t).pending
  BY <1>2, <1>3 DEF Cell
<1>5. Link!Acts(Abstract(Cell(s, t), commands[s], t),
                Abstract(Y(s, t), commands'[s], t))
  <2>1. \A c \in Emitted(cells[s]) : c.ticket = t => c \in Y(s, t).commands
    <3> SUFFICES ASSUME NEW u \in Tickets, NEW c \in cells[s][u].commands,
                        c.ticket = t
                 PROVE  c \in Y(s, t).commands
      BY DEF Emitted
    <3>1. c.ticket = u
      BY <1>1, <1>3 DEF LinkStep
    <3> QED
      BY <3>1, <1>3
  <2>2. Y(s, t).commands \subseteq Emitted(cells[s])
    BY <1>3 DEF Emitted
  <2>3. commands'[s] = commands[s] \cup Sent(s, Emitted(cells[s]))
    BY <1>2
  <2>4. ~Cell(s, t).pending => \A c \in commands[s] : c.ticket # t
    BY <1>0, FreeHasNone
  <2>5. /\ up[s] \in BOOLEAN /\ Cell(s, t) \in Cells /\ Y(s, t) \in Cells
        /\ LinkStep(t, Cell(s, t), Y(s, t))
    BY <1>0, <1>1, CellTypes DEF TypeOK
  <2>6. /\ \A c \in commands[s] : c.ticket = t => c \in commands'[s]
        /\ \A c \in commands'[s] : c.ticket = t =>
             c \in commands[s] \/ (up[s] /\ c \in Y(s, t).commands)
        /\ up[s] => Y(s, t).commands \subseteq commands'[s]
    BY <2>1, <2>2, <2>3 DEF Sent
  <2> QED
    BY <2>4, <2>5, <2>6, LinkStepActs
<1>6. Abstract(Y(s, t), commands'[s], t) = Abstract(Cell(s, t)', commands'[s], t)
  BY <1>4 DEF Abstract, BusyIn
<1> QED
  BY <1>0, <1>5, <1>6, LinkMapping

(* Symbol info releases the events held for it: an Event again, in which   *)
(* the other slaves take no part.                                          *)
LEMMA ApplySymbolInfoLink ==
  ASSUME IInv, TypeOK', NEW s \in Slaves, NEW found \in SUBSET Symbols,
         ApplySymbolInfo(s, found)
  PROVE  Link!Event
<1> DEFINE req  == Head(asked[s])
           ctx  == [Context(s) EXCEPT !.infos = @ \cup found,
                                      !.missing = @ \cup (req \ found)]
           free(t) == [Cell(s, t) EXCEPT !.held = None]
           Y(t) == IF held[s][t] # None /\ t \notin pending[s]
                     THEN Rederive(ctx, t, held[s][t], free(t), lastNow)
                     ELSE Cell(s, t)
           cells == [t \in Tickets |-> Y(t)]
<1>0. /\ TypeOK /\ SlaveOK(s) /\ Context(s) \in Contexts
      /\ \A t \in Tickets : Cell(s, t) \in Cells /\ Quiet(Cell(s, t))
  BY IInvPerSlave, CellTypes
<1>1. ctx \in Contexts
  <2>1. req \in SUBSET Symbols
    BY <1>0 DEF TypeOK, ApplySymbolInfo
  <2> QED
    BY <1>0, <2>1 DEF Contexts, Context
<1>2. /\ up[s]
      /\ table' = [table EXCEPT ![s] = [t \in Tickets |-> cells[t].record]]
      /\ pending' = [pending EXCEPT ![s] = {t \in Tickets : cells[t].pending}]
      /\ commands' = [commands EXCEPT ![s] = @ \cup Emitted(cells)]
  BY DEF ApplySymbolInfo, Store
<1>3. \A t \in Tickets : LinkStep(t, Cell(s, t), Y(t)) /\ Y(t) \in Cells
  <2> SUFFICES ASSUME NEW t \in Tickets
               PROVE  LinkStep(t, Cell(s, t), Y(t)) /\ Y(t) \in Cells
    OBVIOUS
  <2>1. CASE held[s][t] # None /\ t \notin pending[s]
    <3>1. /\ free(t) \in Cells /\ Quiet(free(t))
          /\ free(t).pending = FALSE /\ free(t).held = None
          /\ free(t).record = Cell(s, t).record
          /\ Cell(s, t).pending = FALSE
      BY <1>0, <2>1 DEF Cell, Cells, Quiet
    <3>2. Y(t) = Rederive(ctx, t, held[s][t], free(t), lastNow)
      BY <2>1
    <3>3. held[s][t] \in Event /\ Agrees(held[s][t], prev[t])
      <4>1. held[s][t] \in Event
        BY <1>0, <2>1 DEF TypeOK
      <4>2. CellOK(Cell(s, t), prev[t])
        BY <1>0 DEF SlaveOK
      <4> QED
        BY <4>1, <4>2, <2>1 DEF CellOK, Cell
    <3> HIDE DEF free, ctx
    <3>4. LinkStep(t, free(t), Y(t))
      BY <1>1, <3>1, <3>2, <3>3, RederiveLink
    <3>5. GoodStep(ctx, t, prev[t], free(t), Y(t))
      BY <1>1, <3>1, <3>2, <3>3, RederiveGood
    <3> HIDE DEF Y
    <3> QED
      BY <3>1, <3>4, <3>5 DEF LinkStep, GoodStep
  <2>2. CASE ~(held[s][t] # None /\ t \notin pending[s])
    BY <1>0, <2>2 DEF LinkStep, Quiet
  <2> QED
    BY <2>1, <2>2
<1> HIDE DEF Y, ctx, req
<1>4. \A t \in Tickets : cells[t] = Y(t)
  OBVIOUS
<1> HIDE DEF cells
<1>5. ASSUME NEW t \in Tickets
      PROVE  Link!Acts(Link!Now(s, t), Link!Then(s, t))
  <2>1. /\ Cell(s, t)'.record = Y(t).record
        /\ Cell(s, t)'.pending <=> Y(t).pending
    <3>1. table'[s][t] = Y(t).record /\ (t \in pending'[s] <=> Y(t).pending)
      BY <1>0, <1>2, <1>4 DEF TypeOK
    <3> QED
      BY <3>1 DEF Cell
  <2>2. \A c \in Emitted(cells) : c.ticket = t => c \in Y(t).commands
    <3> SUFFICES ASSUME NEW u \in Tickets, NEW c \in cells[u].commands,
                        c.ticket = t
                 PROVE  c \in Y(t).commands
      BY DEF Emitted
    <3>1. c.ticket = u
      BY <1>0, <1>3, <1>4 DEF LinkStep
    <3> QED
      BY <3>1, <1>4
  <2>3. Y(t).commands \subseteq Emitted(cells)
    BY <1>4 DEF Emitted
  <2>4. commands'[s] = commands[s] \cup Emitted(cells)
    BY <1>0, <1>2 DEF TypeOK
  <2>5. ~Cell(s, t).pending => \A c \in commands[s] : c.ticket # t
    BY <1>0, FreeHasNone
  <2>6. Link!Acts(Abstract(Cell(s, t), commands[s], t),
                  Abstract(Y(t), commands'[s], t))
    <3>1. /\ \A c \in commands[s] : c.ticket = t => c \in commands'[s]
          /\ \A c \in commands'[s] : c.ticket = t =>
               c \in commands[s] \/ (TRUE /\ c \in Y(t).commands)
          /\ TRUE => Y(t).commands \subseteq commands'[s]
      BY <2>2, <2>3, <2>4
    <3> QED
      BY <1>0, <1>3, <2>5, <3>1, LinkStepActs
  <2>7. Abstract(Y(t), commands'[s], t) = Abstract(Cell(s, t)', commands'[s], t)
    BY <2>1 DEF Abstract, BusyIn
  <2> QED
    BY <1>0, <2>6, <2>7, LinkMapping
<1>6. ASSUME NEW r \in Slaves \ {s}, NEW t \in Tickets
      PROVE  Link!Acts(Link!Now(r, t), Link!Then(r, t))
  <2>1. /\ table'[r] = table[r] /\ pending'[r] = pending[r]
        /\ commands'[r] = commands[r]
    BY <1>0, <1>2 DEF TypeOK
  <2> QED
    BY <1>0, <2>1, LinkStays DEF Link!Acts
<1> QED
  BY <1>5, <1>6 DEF Link!Event

(* An answer ends the wait of its ticket, links or unlinks it, and what    *)
(* was held is an event of a ticket that is free again.                    *)
LEMMA ApplyAckLink ==
  ASSUME IInv, TypeOK', NEW s \in Slaves, NEW cmd \in commands[s],
         NEW ok \in BOOLEAN, NEW st \in SlaveTickets, NEW fill \in Fills,
         ApplyAck(s, cmd, ok, st, fill)
  PROVE  Link!Answer(s, cmd.ticket)
<1> DEFINE t     == cmd.ticket
           rec   == AckedRecord(cmd, ok, st, fill, table[s][t])
           freed == [record |-> rec, held |-> None, pending |-> FALSE,
                     commands |-> {}, asks |-> {}]
           cell  == IF held[s][t] = None THEN freed
                    ELSE Rederive(Context(s), t, held[s][t], freed, lastNow)
           l     == LinkIn(rec)
           left  == commands[s] \ {cmd}
<1>0. TypeOK /\ SlaveOK(s) /\ Context(s) \in Contexts
  BY IInvPerSlave, CellTypes
<1>1. t \in Tickets /\ t \in pending[s] /\ cmd \in Command
  BY <1>0, CommandTicket DEF SlaveOK, TypeOK
<1>2. /\ table[s][t] \in Record /\ table[s][t] # None
      /\ held[s][t] \in Event \cup {None}
      /\ CellOK(Cell(s, t), prev[t]) /\ Matches(cmd, t, table[s][t])
  <2>1. Matches(cmd, t, table[s][t]) /\ CellOK(Cell(s, t), prev[t])
    BY <1>0, <1>1 DEF SlaveOK
  <2>2. table[s][t] \in Record \cup {None} /\ held[s][t] \in Event \cup {None}
    BY <1>0, <1>1 DEF TypeOK
  <2> QED
    BY <2>1, <2>2 DEF Matches
<1>3. /\ cmd.action \in {"OPEN", "MODIFY", "PARTIAL_CLOSE", "CLOSE"}
      /\ cmd.action # "OPEN" => cmd.slave_ticket \in SlaveTickets
  BY <1>1 DEF Command, OpenCommand, ModifyCommand, PartialCommand, CloseCommand
<1>4. Link!Now(s, t) = << table[s][t].slave_ticket, cmd.action >>
  <2>1. /\ Cell(s, t).pending /\ Cell(s, t).pending \in BOOLEAN
        /\ LinkIn(Cell(s, t).record) = table[s][t].slave_ticket
    BY <1>1, <1>2 DEF Cell, LinkIn
  <2>2. \A d \in commands[s] : d.ticket = t => d = cmd
    BY <1>0 DEF SlaveOK
  <2>3. BusyIn(Cell(s, t).pending, commands[s], t) = cmd.action
    <3>1. (CHOOSE d \in commands[s] : d.ticket = t) = cmd
      BY <2>2
    <3> QED
      BY <2>1, <3>1 DEF BusyIn
  <2> QED
    BY <1>0, <1>1, <2>1, <2>3, LinkMapping DEF Abstract
<1>5. /\ rec \in Record \cup {None} /\ l \in SlaveTickets \cup {0, None}
      /\ Link!Answers(Link!Now(s, t), Link!Idle(l))
  <2> USE DEF Link!Answers, Link!State, Link!Idle
  <2>1. CASE cmd.action = "OPEN" /\ ok
    <3>1. rec = [table[s][t] EXCEPT !.slave_ticket = st, !.slave_open_volume = fill]
      BY <2>1, <1>2 DEF AckedRecord
    <3>2. rec \in Record /\ rec # None /\ rec.slave_ticket = st
      BY <3>1, <1>2, ConstantsOK, NoneIsNoValue, ZenonT(40) DEF Record
    <3> HIDE DEF rec
    <3>3. l = st
      BY <3>2 DEF LinkIn
    <3>4. Link!Now(s, t) = << 0, "OPEN" >>
      BY <1>2, <1>4, <2>1 DEF Matches
    <3> HIDE DEF l
    <3> QED
      BY <3>2, <3>3, <3>4
  <2>2. CASE cmd.action = "OPEN" /\ ~ok
    <3>1. rec = table[s][t]
      BY <2>2 DEF AckedRecord
    <3> HIDE DEF rec
    <3>2. Link!Now(s, t) = << 0, "OPEN" >> /\ l = 0
      BY <1>2, <1>4, <2>2, <3>1 DEF Matches, LinkIn
    <3> HIDE DEF l
    <3> QED
      BY <3>1, <3>2, <1>2
  <2>3. CASE cmd.action = "CLOSE" /\ ok
    <3>1. rec = None
      BY <2>3 DEF AckedRecord
    <3> HIDE DEF rec
    <3>2. /\ l = None /\ table[s][t].slave_ticket \in SlaveTickets
          /\ Link!Now(s, t) = << table[s][t].slave_ticket, "CLOSE" >>
      BY <1>2, <1>3, <1>4, <2>3, <3>1 DEF Matches, LinkIn
    <3> HIDE DEF l
    <3> QED
      BY <3>1, <3>2
  <2>4. CASE cmd.action # "OPEN" /\ ~(cmd.action = "CLOSE" /\ ok)
    <3>1. rec = table[s][t]
      BY <2>4 DEF AckedRecord
    <3> HIDE DEF rec
    <3>2. l = table[s][t].slave_ticket /\ l \in SlaveTickets
      BY <1>2, <1>3, <2>4, <3>1 DEF Matches, LinkIn
    <3>3. Link!Now(s, t) = << l, cmd.action >>
      BY <3>2, <1>4
    <3> HIDE DEF l
    <3> QED
      BY <1>2, <1>3, <2>4, <3>1, <3>2, <3>3
  <2> QED
    BY <2>1, <2>2, <2>3, <2>4
<1>6. /\ table' = [table EXCEPT ![s][t] = cell.record]
      /\ pending' = [pending EXCEPT ![s] = IF cell.pending THEN @ \cup {t}
                                                           ELSE @ \ {t}]
      /\ commands' = [commands EXCEPT ![s] = left \cup cell.commands]
  BY DEF ApplyAck, Freed
<1> HIDE DEF rec
<1>7. freed \in Cells /\ Quiet(freed) /\ freed.pending = FALSE
      /\ freed.held = None /\ freed.commands = {} /\ freed.record = rec
  BY <1>5 DEF Cells, Quiet
<1> HIDE DEF freed
<1>8. LinkStep(t, freed, cell) /\ cell \in Cells
  <2>1. CASE held[s][t] = None
    BY <2>1, <1>7 DEF LinkStep
  <2>2. CASE held[s][t] # None
    <3>1. held[s][t] \in Event /\ Agrees(held[s][t], prev[t])
      BY <1>2, <2>2 DEF CellOK, Cell
    <3>2. cell = Rederive(Context(s), t, held[s][t], freed, lastNow)
      BY <2>2
    <3>3. LinkStep(t, freed, cell)
      BY <1>0, <1>1, <1>7, <3>1, <3>2, RederiveLink
    <3>4. GoodStep(Context(s), t, prev[t], freed, cell)
      BY <1>0, <1>1, <1>7, <3>1, <3>2, RederiveGood
    <3> QED
      BY <3>3, <3>4 DEF GoodStep
  <2> QED
    BY <2>1, <2>2
<1> HIDE DEF cell, t
<1>9. /\ table'[s] = [table[s] EXCEPT ![t] = cell.record]
      /\ pending'[s] = IF cell.pending THEN pending[s] \cup {t} ELSE pending[s] \ {t}
      /\ commands'[s] = left \cup cell.commands
      /\ \A r \in Slaves \ {s} :
           /\ table'[r] = table[r] /\ pending'[r] = pending[r]
           /\ commands'[r] = commands[r]
  BY <1>0, <1>6 DEF TypeOK
<1>10. /\ \A c \in left : c.ticket # t
       /\ \A c \in cell.commands : c.ticket = t
  <2>1. \A c \in left : c.ticket # t
    BY <1>0 DEF SlaveOK, t
  <2> QED
    BY <2>1, <1>7, <1>8 DEF LinkStep
<1>11. Link!Acts(Link!Idle(l), Link!Then(s, t))
  <2>1. Link!Acts(Abstract(freed, left, t), Abstract(cell, commands'[s], t))
    <3>1. /\ \A c \in left : c.ticket = t => c \in commands'[s]
          /\ \A c \in commands'[s] : c.ticket = t =>
               c \in left \/ (TRUE /\ c \in cell.commands)
          /\ TRUE => cell.commands \subseteq commands'[s]
      BY <1>9
    <3> HIDE DEF left
    <3> QED
      BY <1>1, <1>7, <1>8, <1>10, <3>1, LinkStepActs
  <2>2. Abstract(freed, left, t) = Link!Idle(l)
    <3>1. freed.pending = FALSE /\ freed.record = rec
      BY <1>7
    <3>2. BusyIn(freed.pending, left, t) = "idle"
      BY <3>1 DEF BusyIn
    <3> QED
      BY <3>1, <3>2 DEF Abstract, Link!Idle, Link!State
  <2>3. /\ Cell(s, t)'.record = cell.record
        /\ Cell(s, t)'.pending <=> cell.pending
    <3>1. table'[s][t] = cell.record /\ (t \in pending'[s] <=> cell.pending)
      BY <1>0, <1>1, <1>9 DEF TypeOK
    <3> QED
      BY <3>1 DEF Cell
  <2>4. Abstract(cell, commands'[s], t) = Abstract(Cell(s, t)', commands'[s], t)
    BY <2>3 DEF Abstract, BusyIn
  <2> QED
    BY <1>0, <1>1, <2>1, <2>2, <2>4, LinkMapping
<1>12. ASSUME NEW r \in Slaves, NEW u \in Tickets, << r, u >> # << s, t >>
       PROVE  Link!Then(r, u) = Link!Now(r, u)
  <2>1. CASE r # s
    BY <2>1, <1>0, <1>9, LinkStays
  <2>2. CASE r = s /\ u # t
    <3>1. table'[s][u] = table[s][u] /\ (u \in pending'[s] <=> u \in pending[s])
      BY <2>2, <1>0, <1>1, <1>9 DEF TypeOK
    <3>2. /\ \A c \in commands[s] : c.ticket = u => c \in commands'[s]
          /\ \A c \in commands'[s] : c.ticket = u => c \in commands[s]
      BY <2>2, <1>9, <1>10 DEF t
    <3> QED
      BY <2>2, <1>0, <3>1, <3>2, LinkStays
  <2> QED
    BY <1>12, <2>1, <2>2
<1> HIDE DEF l
<1> QED
  BY <1>5, <1>11, <1>12 DEF Link!Answer, t

-----------------------------------------------------------------------------
LEMMA ApplyRecoveryLink ==
  ASSUME IInv, TypeOK', NEW s \in Slaves, NEW seeded \in SeededTables,
         ApplyRecovery(s, seeded)
  PROVE  Link!Recover(s)
<1>0. TypeOK /\ SlaveOK(s)
  BY IInvPerSlave
<1>1. /\ \A r \in Slaves \ {s} : Same(r)
      /\ commands' = commands /\ pending' = pending
      /\ \A t \in Tickets :
           table'[s][t] = IF table[s][t] # None THEN table[s][t] ELSE seeded[t]
  BY <1>0 DEF ApplyRecovery, Same, TypeOK, engineVars
<1>2. ASSUME NEW t \in Tickets
      PROVE  \/ Link!Then(s, t) = Link!Now(s, t)
             \/ /\ Link!Now(s, t) = Link!Idle(None)
                /\ \E l \in SlaveTickets : Link!Then(s, t) = Link!Idle(l)
  <2>1. CASE table'[s][t] = table[s][t]
    BY <2>1, <1>0, <1>1, LinkStays
  <2>2. CASE table'[s][t] # table[s][t]
    <3>1. /\ table[s][t] = None /\ table'[s][t] = seeded[t]
          /\ seeded[t] # None /\ seeded[t].slave_ticket \in SlaveTickets
      BY <2>2, <1>1 DEF SeededTables
    <3>2. ~Cell(s, t).pending
      <4>1. CellOK(Cell(s, t), prev[t]) /\ Cell(s, t).record = None
        BY <1>0, <3>1 DEF SlaveOK, Cell
      <4> QED
        BY <4>1 DEF CellOK
    <3>3. /\ Cell(s, t)'.record = seeded[t] /\ Cell(s, t).record = None
          /\ ~Cell(s, t)'.pending
      BY <1>1, <3>1, <3>2 DEF Cell
    <3>4. /\ Abstract(Cell(s, t), commands[s], t) = Link!Idle(None)
          /\ Abstract(Cell(s, t)', commands'[s], t)
               = Link!Idle(seeded[t].slave_ticket)
      BY <3>1, <3>2, <3>3 DEF Abstract, BusyIn, LinkIn, Link!Idle, Link!State
    <3> QED
      BY <1>0, <3>1, <3>4, LinkMapping
  <2> QED
    BY <2>1, <2>2
<1>3. Link!Others(s)
  BY <1>0, <1>1, OthersStay
<1> QED
  BY <1>2, <1>3 DEF Link!Recover

(* CopyLink's variables, by their value for one ticket.                    *)
LEMMA LinkValues ==
  ASSUME NEW s \in Slaves, NEW t \in Tickets
  PROVE  /\ [r \in Slaves |-> [u \in Tickets |-> LinkOf(r, u)]][s][t] = LinkOf(s, t)
         /\ [r \in Slaves |-> [u \in Tickets |-> BusyOf(r, u)]][s][t] = BusyOf(s, t)
         /\ [r \in Slaves |-> [u \in Tickets |-> LinkOf(r, u)]]'[s][t] = LinkOf(s, t)'
         /\ [r \in Slaves |-> [u \in Tickets |-> BusyOf(r, u)]]'[s][t] = BusyOf(s, t)'
  OBVIOUS

LEMMA BusyIdle ==
  ASSUME TypeOK, NEW s \in Slaves, NEW t \in Tickets
  PROVE  BusyOf(s, t) = "idle" <=> t \notin pending[s]
<1>1. ASSUME NEW c \in commands[s], c.ticket = t
      PROVE  (CHOOSE d \in commands[s] : d.ticket = t).action # "idle"
  <2>1. (CHOOSE d \in commands[s] : d.ticket = t) \in commands[s]
    BY <1>1
  <2>2. commands[s] \subseteq Command
    BY DEF TypeOK
  <2>3. \A d \in Command : d.action # "idle"
    BY DEF Command, OpenCommand, ModifyCommand, PartialCommand, CloseCommand
  <2> QED
    BY <2>1, <2>2, <2>3
<1> QED
  BY <1>1 DEF BusyOf

LEMMA LoseWorkerLink ==
  ASSUME IInv, TypeOK', NEW s \in Slaves, LoseWorker(s)
  PROVE  Link!Lose(s)
<1>0. TypeOK /\ SlaveOK(s)
  BY IInvPerSlave
<1>1. /\ \A r \in Slaves \ {s} : Same(r)
      /\ table' = table /\ pending' = pending /\ commands'[s] = {}
  BY <1>0 DEF LoseWorker, Same, TypeOK, engineVars, slaveVars
<1>2. ASSUME NEW t \in Tickets
      PROVE  /\ LinkOf(s, t)' = LinkOf(s, t)
             /\ BusyOf(s, t)' = IF BusyOf(s, t) = "idle" THEN "idle" ELSE "lost"
  <2>1. LinkOf(s, t)' = LinkOf(s, t)
    BY <1>1 DEF LinkOf
  <2>2. BusyOf(s, t)' = IF t \notin pending[s] THEN "idle" ELSE "lost"
    BY <1>1 DEF BusyOf
  <2> QED
    BY <2>1, <2>2, <1>0, BusyIdle
<1>3. Link!Others(s)
  BY <1>0, <1>1, OthersStay
<1> QED
  BY <1>2, <1>3, LinkValues DEF Link!Lose

LEMMA RestartWorkerLink ==
  ASSUME IInv, TypeOK', NEW s \in Slaves, RestartWorker(s)
  PROVE  Link!Restart(s)
<1>0. TypeOK /\ SlaveOK(s)
  BY IInvPerSlave
<1>1. /\ \A r \in Slaves \ {s} : Same(r)
      /\ \A t \in Tickets : table'[s][t] = None
      /\ pending'[s] = {} /\ commands[s] = {}
  BY <1>0 DEF RestartWorker, Same, TypeOK, engineVars, SlaveOK
<1>2. ASSUME NEW t \in Tickets
      PROVE  /\ BusyOf(s, t) \in {"idle", "lost"}
             /\ Link!Then(s, t) = Link!Idle(None)
  <2>1. BusyOf(s, t) \in {"idle", "lost"}
    BY <1>1 DEF BusyOf
  <2>2. LinkOf(s, t)' = None /\ BusyOf(s, t)' = "idle"
    BY <1>1 DEF LinkOf, BusyOf
  <2> QED
    BY <2>1, <2>2, LinkValues DEF Link!Then, Link!Idle, Link!State
<1>3. Link!Others(s)
  BY <1>0, <1>1, OthersStay
<1> QED
  BY <1>2, <1>3, LinkValues DEF Link!Restart

LEMMA LinkUnchanged ==
  ASSUME UNCHANGED << table, pending, commands >>
  PROVE  UNCHANGED Link!vars
  BY DEF Link!vars, LinkOf, BusyOf

-----------------------------------------------------------------------------
LEMMA InitLink == Init => Link!Init
<1> SUFFICES ASSUME Init PROVE Link!Init
  OBVIOUS
<1>1. \A s \in Slaves, t \in Tickets :
        LinkOf(s, t) \in SlaveTickets \cup {None}
  <2> SUFFICES ASSUME NEW s \in Slaves, NEW t \in Tickets
               PROVE  LinkOf(s, t) \in SlaveTickets \cup {None}
    OBVIOUS
  <2>1. table[s] \in SeededTables
    BY DEF Init
  <2> QED
    BY <2>1 DEF SeededTables, LinkOf
<1>2. \A s \in Slaves, t \in Tickets : BusyOf(s, t) = "idle"
  BY DEF Init, BusyOf
<1> QED
  BY <1>1, <1>2 DEF Link!Init

LEMMA StepLink ==
  ASSUME IInv, TypeOK', [Next]_vars
  PROVE  [Link!Next]_Link!vars
<1>1. ASSUME NEW curr \in Snapshots, NEW now \in Times, ReadSnapshot(curr, now)
      PROVE  Link!Next
  BY <1>1, ReadSnapshotLink DEF Link!Next
<1>2. ASSUME NEW s \in Slaves, NEW t \in Tickets, ApplyAckOf(s, t)
      PROVE  Link!Next
  <2>1. PICK cmd \in commands[s], ok \in BOOLEAN, st \in SlaveTickets, fill \in Fills :
          cmd.ticket = t /\ ApplyAck(s, cmd, ok, st, fill)
    BY <1>2 DEF ApplyAckOf
  <2>2. Link!Answer(s, t)
    BY <2>1, ApplyAckLink
  <2> QED
    BY <2>2 DEF Link!Next
<1>3. ASSUME NEW s \in Slaves, NEW found \in SUBSET Symbols,
             ApplySymbolInfo(s, found)
      PROVE  Link!Next
  BY <1>3, ApplySymbolInfoLink DEF Link!Next
<1>4. ASSUME NEW s \in Slaves,
             \/ \E cfg \in Configs, found \in SUBSET Symbols :
                  ReportSymbolInfo(s, cfg, found)
             \/ \E bal \in Balances : ApplyStatus(s, bal)
             \/ \E cfg \in Configs : UpdateSlaveConfig(s, cfg)
      PROVE  UNCHANGED Link!vars
  <2>1. UNCHANGED << table, pending, commands >>
    BY <1>4 DEF ReportSymbolInfo, ApplyStatus, UpdateSlaveConfig, pipeVars
  <2> QED
    BY <2>1, LinkUnchanged
<1>5. ASSUME NEW s \in Slaves, NEW seeded \in SeededTables,
             ApplyRecovery(s, seeded)
      PROVE  Link!Next
  BY <1>5, ApplyRecoveryLink DEF Link!Next
<1>6. ASSUME NEW s \in Slaves, LoseWorker(s) PROVE Link!Next
  BY <1>6, LoseWorkerLink DEF Link!Next
<1>7. ASSUME NEW s \in Slaves, RestartWorker(s) PROVE Link!Next
  BY <1>7, RestartWorkerLink DEF Link!Next
<1>8. CASE UNCHANGED vars
  <2>1. UNCHANGED << table, pending, commands >>
    BY <1>8 DEF vars, slaveVars, pipeVars
  <2> QED
    BY <2>1, LinkUnchanged
<1> QED
  BY <1>1, <1>2, <1>3, <1>4, <1>5, <1>6, <1>7, <1>8
     DEF Next, ReadSomeSnapshot, ApplySomeSymbolInfo

(* The engine implements the linkage protocol: every behaviour of the      *)
(* engine and its pipes is, ticket by ticket, one of CopyLink.  So no      *)
(* ticket is opened again while it is linked or its open unanswered, every *)
(* other command goes to the position the ticket is linked to, and a link  *)
(* comes and goes with the answers to its own commands only.               *)
THEOREM EngineImplementsLink == Spec => ImplementsCopyLink
<1>1. Init => Link!Init
  BY InitLink
<1>2. IInv /\ TypeOK' /\ [Next]_vars => [Link!Next]_Link!vars
  BY StepLink
<1> QED
  BY <1>1, <1>2, Invariance, TypeCorrect, PTL DEF Spec, ImplementsCopyLink, Link!Spec
=============================================================================
