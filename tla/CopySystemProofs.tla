-------------------------- MODULE CopySystemProofs --------------------------
(***************************************************************************)
(* Proofs about CopySystem, when no slave's worker is lost before the      *)
(* manager's first snapshot and the master's positions_get does not fail.  *)
(***************************************************************************)
EXTENDS CopySystem, CopyEngineProofs

-----------------------------------------------------------------------------
(* What the runs' SysTypeOK leaves out: volumes are sizes that a terminal  *)
(* fills, and an answer belongs to one unanswered command.                 *)
Answer == [cmd : Command, ok : BOOLEAN, slave_ticket : SlaveTickets \cup {0},
           fill : Fills \cup {0}]

Driven ==
  /\ config \in [Slaves -> Configs] /\ balance \in [Slaves -> Balances]
  /\ recovery \in [Slaves -> SeededTables \cup {None}]
  /\ \A s \in Slaves : \A c \in commands[s] : c.action = "OPEN" => c.volume \in Fills
  /\ \A s \in Slaves, x \in SlaveTickets :
       terminal[s][x] # None => terminal[s][x].sv \in Fills /\ x \in spent[s]

Answered ==
  /\ answers \in [Slaves -> SUBSET Answer]
  /\ \A s \in Slaves : \A a \in answers[s] :
       /\ a.cmd \in commands[s]
       /\ (a.ok /\ a.cmd.action = "OPEN") =>
            a.slave_ticket \in SlaveTickets /\ a.fill \in Fills
  /\ \A s \in Slaves : \A a, b \in answers[s] : a.cmd = b.cmd => a = b

(* From the i-th unread snapshot on, the master's position is closed.      *)
ClosedFrom(t, i) ==
  /\ t \in gone
  /\ \A j \in DOMAIN snapshots : j >= i => snapshots[j][t] = None

(* The position had been opened when the i-th unread snapshot was taken:   *)
(* from there on it is missing only because it was closed.                 *)
OpenedBy(t, i) ==
  /\ \A j \in DOMAIN snapshots : (j >= i /\ snapshots[j][t] = None) => ClosedFrom(t, j)
  /\ master[t] = None => t \in gone

Order ==
  \A t \in Tickets :
    /\ t \in gone => master[t] = None
    /\ prev[t] # None => OpenedBy(t, 1)
    /\ \A i \in DOMAIN snapshots : snapshots[i][t] # None => OpenedBy(t, i)

(* The engine may still find the position new.                             *)
Fresh(t) == prev[t] = None /\ ~ClosedFrom(t, 1)

(* Of a position it may find new, the engine has nothing under way, and a  *)
(* slave has a copy only before the manager's first snapshot: then it is   *)
(* in the table, and the position is known to be open.                     *)
FreshIsUntouched ==
  \A s \in Slaves, t \in Tickets : Fresh(t) =>
    /\ t \notin pending[s] /\ held[s][t] = None
    /\ CopiesOf(s, t) # {} => /\ lastNow = 0 /\ up[s] /\ recovered[s]
                              /\ table[s][t] # None /\ OpenedBy(t, 1)

(* At most one copy, and none while an OPEN is on its way or a NEW held.   *)
OneCopy ==
  \A s \in Slaves, t \in Tickets :
    /\ \A x, y \in CopiesOf(s, t) : x = y
    /\ \A c \in commands[s] :
         (c.ticket = t /\ c.action = "OPEN" /\ \A a \in answers[s] : a.cmd # c)
           => CopiesOf(s, t) = {}
    /\ (held[s][t] # None /\ held[s][t].kind = "NEW") =>
         t \notin pending[s] /\ (CopiesOf(s, t) = {} \/ table[s][t] # None)

SysInv ==
  /\ IInv /\ SysTypeOK /\ Driven /\ Answered
  /\ Order /\ FreshIsUntouched /\ OneCopy /\ ClosesOnlyClosed

-----------------------------------------------------------------------------
(* What the engine makes of an event.                                      *)

(* A terminal can fill every size the engine computes.                     *)
SizesAreFills ==
  \A cfg \in Configs, v \in Volumes, bal \in Balances, sym \in Symbols :
    LET lots == CalculateSlaveLot(cfg, v, bal, InfoOf[sym])
    IN  lots > 0 => lots \in Fills

Sized(ctx) == ctx.config \in Configs /\ ctx.balance \in Balances

(* Only a NEW is opened or held, if there is no record; only a CLOSE closes.*)
Says(ev, rec, y) ==
  /\ \A cmd \in y.commands :
       /\ cmd.action = "OPEN" =>
            ev.kind = "NEW" /\ rec = None /\ cmd.volume \in Fills
       /\ cmd.action = "CLOSE" => ev.kind = "CLOSE"
  /\ y.held # None => y.held = ev /\ ev.kind = "NEW" /\ rec = None /\ ~y.pending

LEMMA DeriveSays ==
  ASSUME SizesAreFills, NEW ctx \in Contexts, Sized(ctx), NEW t \in Tickets,
         NEW ev \in Event, NEW rec \in Record \cup {None}, NEW now
  PROVE  LET d == Derive(ctx, t, ev, rec, now)
         IN  /\ d.action = "OPEN" =>
                  ev.kind = "NEW" /\ rec = None /\ d.volume \in Fills
             /\ d.action = "CLOSE" => ev.kind = "CLOSE"
<1> DEFINE d == Derive(ctx, t, ev, rec, now)
<1>1. CASE ev.kind = "NEW"
  <2> DEFINE sym  == Resolve(ctx, SymbolOf[t])
             pos  == ev.position
             lots == CalculateSlaveLot(ctx.config, pos.volume, ctx.balance, InfoOf[sym])
  <2>1. SymbolOf[t] \in Symbols /\ sym \in Symbols \cup {None}
    BY ResolveType, ConstantsOK
  <2>2. pos.volume \in Volumes
    BY DEF Event, Position
  <2>3. d = DeriveNew(ctx, t, pos, rec, now)
    BY <1>1 DEF Derive
  <2>4. CASE rec # None \/ sym = None
    <3>1. d = Skip
      BY <2>3, <2>4 DEF DeriveNew
    <3> QED
      BY <3>1 DEF Skip
  <2>5. CASE rec = None /\ sym # None
    <3>1. sym \in Symbols
      BY <2>1, <2>5
    <3>2. lots > 0 => lots \in Fills
      BY <3>1, <2>2 DEF SizesAreFills, Sized
    <3>3. lots \in Int
      <4>1. InfoOf[sym].volume_step \in Int /\ InfoOf[sym].volume_min \in Int
        BY <3>1, ConstantTypes
      <4>2. ctx.config \in Config /\ ctx.balance \in Int /\ pos.volume \in Int
        BY <2>2, ConstantTypes DEF Contexts
      <4> QED
        BY <4>1, <4>2, SlaveLotInt DEF Config
    <3> HIDE DEF lots
    <3>4. \/ d = Skip
          \/ d = AwaitInfo(sym)
          \/ ~(lots <= 0) /\ d = [action |-> "OPEN", ticket |-> t, symbol |-> sym,
                  volume |-> lots, sltp |-> pos.sltp, master_volume |-> pos.volume]
      BY <2>3, <2>5 DEF DeriveNew, lots
    <3>5. CASE d = Skip \/ d = AwaitInfo(sym)
      BY <3>5 DEF Skip, AwaitInfo
    <3>6. CASE ~(lots <= 0) /\ d = [action |-> "OPEN", ticket |-> t, symbol |-> sym,
                  volume |-> lots, sltp |-> pos.sltp, master_volume |-> pos.volume]
      <4>1. d.action = "OPEN" /\ d.volume = lots
        BY <3>6
      <4>2. lots \in Fills
        BY <3>2, <3>3, <3>6
      <4> QED
        BY <4>1, <4>2, <2>5, <1>1
    <3> QED
      BY <3>4, <3>5, <3>6
  <2> QED
    BY <2>1, <2>4, <2>5
<1>2. CASE ev.kind # "NEW"
  <2>1. d = DeriveLinked(t, ev, rec)
    BY <1>2 DEF Derive
  <2>2. ev.kind \in {"MODIFY", "PARTIAL", "CLOSE"}
    BY <1>2 DEF Event
  <2> QED
    BY <2>1, <2>2 DEF DeriveLinked, Skip
<1> QED
  BY <1>1, <1>2

LEMMA RederiveSays ==
  ASSUME SizesAreFills, NEW ctx \in Contexts, Sized(ctx), NEW t \in Tickets,
         NEW ev \in Event, NEW now, NEW x \in Cells, Quiet(x), ~x.pending,
         x.held = None
  PROVE  LET y == Rederive(ctx, t, ev, x, now)
         IN  Says(ev, x.record, y) /\ (ev.kind = "NEW" /\ x.record # None => y = x)
<1> DEFINE rec == x.record
           d   == Derive(ctx, t, ev, rec, now)
           y   == Rederive(ctx, t, ev, x, now)
<1>x. /\ x = [record |-> x.record, held |-> x.held, pending |-> x.pending,
             commands |-> x.commands, asks |-> x.asks]
      /\ rec \in Record \cup {None} /\ x.commands = {}
  BY DEF Cells, Quiet
<1>d. /\ d.action = "OPEN" => ev.kind = "NEW" /\ rec = None /\ d.volume \in Fills
      /\ d.action = "CLOSE" => ev.kind = "CLOSE"
  BY <1>x, DeriveSays
<1>1. CASE d = Skip
  <2>1. y = IF ev.kind = "CLOSE" /\ rec # None /\ rec.slave_ticket = 0
              THEN [x EXCEPT !.record = None] ELSE x
    BY <1>1 DEF Rederive, Skip
  <2>2. y.commands = {} /\ y.held = None
    BY <2>1, <1>x
  <2> QED
    BY <2>1, <2>2 DEF Says
<1>2. CASE ev.kind = "NEW" /\ rec = None /\ \E sym \in Symbols \ ctx.missing : d = AwaitInfo(sym)
  <2>1. PICK sym \in Symbols : d = AwaitInfo(sym)
    BY <1>2
  <2>2. y = [x EXCEPT !.held = ev, !.asks = {sym}]
    BY <2>1 DEF Rederive, AwaitInfo
  <2>3. y.commands = {} /\ y.held = ev /\ y.pending = x.pending
    BY <2>2, <1>x
  <2> QED
    BY <2>3, <1>2 DEF Says
<1>3. CASE ev.kind = "NEW" /\ rec = None /\ d \in OpenCommand /\ d.ticket = t
  <2>1. d.action = "OPEN"
    BY <1>3 DEF OpenCommand
  <2> DEFINE new == [slave_ticket |-> 0, master_open_volume |-> ev.position.volume,
                     slave_open_volume |-> d.volume]
  <2>2. y = [x EXCEPT !.pending = TRUE, !.commands = @ \cup {d}, !.record = new]
    BY <2>1 DEF Rederive
  <2> HIDE DEF d
  <2>3. y.commands = {d} /\ y.held = None
    BY <2>2, <1>x
  <2> QED
    BY <2>1, <2>3, <1>d, <1>3 DEF Says
<1>4. CASE /\ ev.kind # "NEW" /\ rec # None
           /\ d \in LinkedCommand /\ d.ticket = t
           /\ rec.slave_ticket = d.slave_ticket
  <2>1. d.action \in {"MODIFY", "PARTIAL_CLOSE", "CLOSE"}
    BY <1>4 DEF LinkedCommand, ModifyCommand, PartialCommand, CloseCommand
  <2>2. y = [x EXCEPT !.pending = TRUE, !.commands = @ \cup {d}]
    BY <2>1 DEF Rederive
  <2> HIDE DEF d
  <2>3. y.commands = {d} /\ y.held = None
    BY <2>2, <1>x
  <2> QED
    BY <2>1, <2>3, <1>d, <1>4 DEF Says
<1>5. \/ d = Skip
      \/ /\ ev.kind = "NEW" /\ rec = None
         /\ \E sym \in Symbols \ ctx.missing : d = AwaitInfo(sym)
      \/ ev.kind = "NEW" /\ rec = None /\ d \in OpenCommand /\ d.ticket = t
      \/ /\ ev.kind # "NEW" /\ rec # None /\ d \in LinkedCommand /\ d.ticket = t
         /\ rec.slave_ticket = d.slave_ticket
  BY <1>x, DeriveCases
<1> HIDE DEF d
<1> QED
  BY <1>1, <1>2, <1>3, <1>4, <1>5

(* _handle_event: an event that must wait replaces what was held.          *)
HandleSays(ev, x, y) ==
  /\ \A cmd \in y.commands :
       /\ cmd.action = "OPEN" =>
            ev.kind = "NEW" /\ x.record = None /\ cmd.volume \in Fills
       /\ cmd.action = "CLOSE" => ev.kind = "CLOSE"
  /\ y.held # None => y.held = ev
  /\ (y.held # None /\ ~x.pending /\ x.held = None) => x.record = None /\ ~y.pending

LEMMA HandleEventSays ==
  ASSUME SizesAreFills, NEW ctx \in Contexts, Sized(ctx), NEW t \in Tickets,
         NEW ev \in Event, NEW now, NEW x \in Cells, Quiet(x)
  PROVE  HandleSays(ev, x, HandleEvent(ctx, t, ev, x, now))
<1>1. CASE x.pending \/ x.held # None
  <2>1. HandleEvent(ctx, t, ev, x, now) = [x EXCEPT !.held = ev]
    BY <1>1 DEF HandleEvent
  <2> DEFINE y == [x EXCEPT !.held = ev]
  <2>2. y.held = ev /\ y.commands = {}
    BY DEF Cells, Quiet
  <2> HIDE DEF y
  <2> QED
    BY <1>1, <2>1, <2>2 DEF HandleSays, y
<1>2. CASE ~(x.pending \/ x.held # None)
  <2> DEFINE y == Rederive(ctx, t, ev, x, now)
  <2>1. Says(ev, x.record, y)
    BY <1>2, RederiveSays
  <2>2. HandleEvent(ctx, t, ev, x, now) = y
    BY <1>2 DEF HandleEvent
  <2> HIDE DEF y
  <2> QED
    BY <2>1, <2>2 DEF Says, HandleSays
<1> QED
  BY <1>1, <1>2

DiffSays(p, c, x, y) ==
  /\ p = None /\ c = None => y = x
  /\ \A cmd \in y.commands :
       /\ cmd.action = "OPEN" =>
            p = None /\ c # None /\ x.record = None /\ cmd.volume \in Fills
       /\ cmd.action = "CLOSE" => p # None /\ c = None
  /\ (y.held # None /\ y.held.kind = "NEW") => y = x \/ (p = None /\ c # None)
  /\ (p = None /\ c # None /\ ~x.pending /\ x.held = None /\ y.held # None)
       => x.record = None /\ ~y.pending

LEMMA HandleDiffSays ==
  ASSUME SizesAreFills, NEW ctx \in Contexts, Sized(ctx), NEW t \in Tickets,
         NEW now, NEW p \in Position \cup {None}, NEW c \in Position \cup {None},
         NEW x \in Cells, Quiet(x), CellOK(x, p)
  PROVE  DiffSays(p, c, x, HandleDiff(ctx, t, p, c, x, now))
<1> DEFINE Ev(kind, pos) == [kind |-> kind, position |-> pos]
           y == HandleDiff(ctx, t, p, c, x, now)
           pos == IF c = None THEN p ELSE c
<1>1. CASE y = x
  <2>1. x.commands = {}
    BY DEF Quiet
  <2> HIDE DEF y
  <2>2. (p = None /\ c # None /\ ~x.pending /\ x.held = None) => y.held = None
    BY <1>1
  <2> QED
    BY <1>1, <2>1, <2>2 DEF DiffSays, y
<1>2. CASE pos # None /\ \E kind \in {"NEW", "MODIFY", "PARTIAL", "CLOSE"} :
             Fires(p, c, kind) /\ y = HandleEvent(ctx, t, Ev(kind, pos), x, now)
  <2>1. PICK kind \in {"NEW", "MODIFY", "PARTIAL", "CLOSE"} :
          Fires(p, c, kind) /\ y = HandleEvent(ctx, t, Ev(kind, pos), x, now)
    BY <1>2
  <2>2. Ev(kind, pos) \in Event
    BY <1>2 DEF Event
  <2>3. HandleSays(Ev(kind, pos), x, y)
    BY <2>1, <2>2, HandleEventSays
  <2>4. /\ kind = "NEW" <=> p = None /\ c # None
        /\ kind = "CLOSE" <=> p # None /\ c = None
        /\ ~(p = None /\ c = None)
    BY <2>1, <1>2 DEF Fires
  <2>5. Ev(kind, pos).kind = kind
    OBVIOUS
  <2> HIDE DEF y, Ev, pos
  <2> QED
    BY <2>3, <2>4, <2>5 DEF DiffSays, HandleSays, y
<1>3. CASE /\ p # None /\ c # None /\ c.volume < p.volume /\ c.sltp # p.sltp
  <2> DEFINE z == HandleEvent(ctx, t, Ev("PARTIAL", c), x, now)
  <2>1. y = HandleEvent(ctx, t, Ev("MODIFY", c), z, now)
    BY <1>3 DEF HandleDiff, Fires
  <2>2. Ev("PARTIAL", c) \in Event /\ Ev("MODIFY", c) \in Event
    BY <1>3 DEF Event
  <2>3. z \in Cells /\ (~z.pending /\ z.held = None => z = x)
    <3>1. CASE x.pending \/ x.held # None
      <4>1. z = [x EXCEPT !.held = Ev("PARTIAL", c)]
        BY <3>1 DEF HandleEvent
      <4> QED
        BY <4>1, <2>2, NoneIsNoValue DEF Cells
    <3>2. CASE ~x.pending /\ x.held = None
      <4>1. z = Rederive(ctx, t, Ev("PARTIAL", c), x, now)
        BY <3>2 DEF HandleEvent
      <4>2. Agrees(Ev("PARTIAL", c), c)
        <5>1. c.volume \in Int
          BY <1>3, ConstantTypes DEF Position
        <5> QED
          BY <1>3, <5>1 DEF Agrees
      <4> HIDE DEF z
      <4>3. GoodStep(ctx, t, c, x, z) /\ (~z.pending => z = x)
        BY <4>1, <4>2, <3>2, <2>2, RederiveGood
      <4> QED
        BY <4>3 DEF GoodStep
    <3> QED
      BY <3>1, <3>2 DEF Cells
  <2>4. HandleSays(Ev("PARTIAL", c), x, z)
    BY <2>2, HandleEventSays
  <2>5. /\ \A cmd \in z.commands : cmd.action \notin {"OPEN", "CLOSE"}
        /\ (z.held # None => z.held = Ev("PARTIAL", c))
    BY <2>4 DEF HandleSays
  <2>6. /\ \A cmd \in y.commands : cmd.action \notin {"OPEN", "CLOSE"}
        /\ y.held # None => y.held = Ev("MODIFY", c)
    <3> HIDE DEF z
    <3>1. CASE z.pending \/ z.held # None
      <4>1. y = [z EXCEPT !.held = Ev("MODIFY", c)]
        BY <2>1, <3>1 DEF HandleEvent
      <4>2. y.commands = z.commands /\ y.held = Ev("MODIFY", c)
        BY <4>1, <2>3 DEF Cells
      <4> QED
        BY <4>2, <2>5
    <3>2. CASE ~z.pending /\ z.held = None
      <4>1. HandleSays(Ev("MODIFY", c), x, y)
        BY <2>1, <2>2, <2>3, <3>2, HandleEventSays
      <4> HIDE DEF y
      <4> QED
        BY <4>1 DEF HandleSays
    <3> QED
      BY <3>1, <3>2
  <2>7. Ev("MODIFY", c).kind # "NEW"
    OBVIOUS
  <2> HIDE DEF y, z
  <2> QED
    BY <1>3, <2>6, <2>7 DEF DiffSays, y
<1>4. \/ y = x
      \/ /\ pos # None
         /\ \E kind \in {"NEW", "MODIFY", "PARTIAL", "CLOSE"} :
              Fires(p, c, kind) /\ y = HandleEvent(ctx, t, Ev(kind, pos), x, now)
      \/ p # None /\ c # None /\ c.volume < p.volume /\ c.sltp # p.sltp
  <2>1. CASE p = None \/ c = None
    BY <2>1 DEF HandleDiff, Fires
  <2>2. CASE p # None /\ c # None
    BY <2>2 DEF HandleDiff, Fires
  <2> QED
    BY <2>1, <2>2
<1> QED
  BY <1>1, <1>2, <1>3, <1>4

-----------------------------------------------------------------------------
(* What the engine's handlers do to the tickets, and what they send.       *)
Unmoved(s, t) ==
  /\ table'[s][t] = table[s][t] /\ held'[s][t] = held[s][t]
  /\ t \in pending'[s] <=> t \in pending[s]

LEMMA ContextSized ==
  ASSUME TypeOK, Driven, NEW s \in Slaves
  PROVE  Context(s) \in Contexts /\ Sized(Context(s))
<1>1. Context(s).config = config[s] /\ Context(s).balance = balance[s]
  BY DEF Context
<1> QED
  BY <1>1, CellTypes DEF Driven, Sized

LEMMA ReadSnapshotDoes ==
  ASSUME IInv, Driven, SizesAreFills, NEW curr \in Snapshots, NEW now \in Times,
         ReadSnapshot(curr, now)
  PROVE  \A s \in Slaves :
           /\ \A cmd \in commands'[s] \ commands[s] :
                LET t == cmd.ticket
                IN  /\ cmd.action = "OPEN" =>
                         /\ prev[t] = None /\ curr[t] # None
                         /\ table[s][t] = None /\ cmd.volume \in Fills
                    /\ cmd.action = "CLOSE" => prev[t] # None /\ curr[t] = None
           /\ \A t \in Tickets :
                /\ prev[t] = None /\ curr[t] = None => Unmoved(s, t)
                /\ (held'[s][t] # None /\ held'[s][t].kind = "NEW") =>
                     Unmoved(s, t) \/ (prev[t] = None /\ curr[t] # None)
                /\ (/\ prev[t] = None /\ curr[t] # None /\ t \notin pending[s]
                    /\ held[s][t] = None /\ held'[s][t] # None)
                     => t \notin pending'[s] /\ table[s][t] = None
<1> DEFINE Y(s, t) == HandleDiff(Context(s), t, prev[t], curr[t], Cell(s, t), now)
<1>1. /\ table' = [s \in Slaves |-> [t \in Tickets |-> Y(s, t).record]]
      /\ held' = [s \in Slaves |-> [t \in Tickets |-> Y(s, t).held]]
      /\ pending' = [s \in Slaves |-> {t \in Tickets : Y(s, t).pending}]
      /\ \A s \in Slaves : \A cmd \in commands'[s] \ commands[s] :
           \E t \in Tickets : cmd \in Y(s, t).commands
  <2> DEFINE cells == [s \in Slaves |-> [t \in Tickets |-> Y(s, t)]]
  <2>1. /\ table' = [s \in Slaves |-> [t \in Tickets |-> cells[s][t].record]]
        /\ held' = [s \in Slaves |-> [t \in Tickets |-> cells[s][t].held]]
        /\ pending' = [s \in Slaves |-> {t \in Tickets : cells[s][t].pending}]
        /\ commands' = [s \in Slaves |-> commands[s] \cup Sent(s, Emitted(cells[s]))]
    BY DEF ReadSnapshot
  <2> HIDE DEF Y
  <2>2. \A s \in Slaves, t \in Tickets : cells[s][t] = Y(s, t)
    OBVIOUS
  <2> HIDE DEF cells
  <2>3. \A s \in Slaves : \A cmd \in Sent(s, Emitted(cells[s])) :
          \E t \in Tickets : cmd \in Y(s, t).commands
    BY <2>2 DEF Sent, Emitted
  <2> QED
    BY <2>1, <2>2, <2>3
<1> SUFFICES ASSUME NEW s \in Slaves
             PROVE  /\ \A cmd \in commands'[s] \ commands[s] :
                         LET t == cmd.ticket
                         IN  /\ cmd.action = "OPEN" =>
                                  /\ prev[t] = None /\ curr[t] # None
                                  /\ table[s][t] = None /\ cmd.volume \in Fills
                             /\ cmd.action = "CLOSE" => prev[t] # None /\ curr[t] = None
                    /\ \A t \in Tickets :
                         /\ prev[t] = None /\ curr[t] = None => Unmoved(s, t)
                         /\ (held'[s][t] # None /\ held'[s][t].kind = "NEW") =>
                              Unmoved(s, t) \/ (prev[t] = None /\ curr[t] # None)
                         /\ (/\ prev[t] = None /\ curr[t] # None /\ t \notin pending[s]
                             /\ held[s][t] = None /\ held'[s][t] # None)
                              => t \notin pending'[s] /\ table[s][t] = None
  OBVIOUS
<1>2. \A t \in Tickets :
        /\ DiffSays(prev[t], curr[t], Cell(s, t), Y(s, t))
        /\ \A cmd \in Y(s, t).commands : cmd.ticket = t
  <2> SUFFICES ASSUME NEW t \in Tickets
               PROVE  /\ DiffSays(prev[t], curr[t], Cell(s, t), Y(s, t))
                      /\ \A cmd \in Y(s, t).commands : cmd.ticket = t
    OBVIOUS
  <2>1. /\ Context(s) \in Contexts /\ Sized(Context(s))
        /\ Cell(s, t) \in Cells /\ Quiet(Cell(s, t)) /\ CellOK(Cell(s, t), prev[t])
    BY CellTypes, ContextSized DEF IInv, CellsOK
  <2>2. prev[t] \in Position \cup {None} /\ curr[t] \in Position \cup {None}
    BY DEF IInv, TypeOK, Snapshots
  <2>3. GoodStep(Context(s), t, curr[t], Cell(s, t), Y(s, t))
    BY <2>1, <2>2, HandleDiffGood
  <2>4. DiffSays(prev[t], curr[t], Cell(s, t), Y(s, t))
    BY <2>1, <2>2, HandleDiffSays
  <2> HIDE DEF Y
  <2> QED
    BY <2>3, <2>4 DEF GoodStep, Matches
<1> HIDE DEF Y
<1>3. \A t \in Tickets :
        /\ table'[s][t] = Y(s, t).record /\ held'[s][t] = Y(s, t).held
        /\ t \in pending'[s] <=> Y(s, t).pending
        /\ Cell(s, t).record = table[s][t] /\ Cell(s, t).held = held[s][t]
        /\ Cell(s, t).pending <=> t \in pending[s]
  BY <1>1 DEF Cell
<1>4. \A t \in Tickets : Y(s, t) = Cell(s, t) => Unmoved(s, t)
  BY <1>3 DEF Unmoved
<1>5. ASSUME NEW cmd \in commands'[s] \ commands[s]
      PROVE  LET t == cmd.ticket
             IN  /\ cmd.action = "OPEN" =>
                      /\ prev[t] = None /\ curr[t] # None
                      /\ table[s][t] = None /\ cmd.volume \in Fills
                 /\ cmd.action = "CLOSE" => prev[t] # None /\ curr[t] = None
  <2>1. PICK t \in Tickets : cmd \in Y(s, t).commands
    BY <1>1
  <2>2. cmd.ticket = t
    BY <1>2, <2>1
  <2> QED
    BY <1>2, <1>3, <2>1, <2>2 DEF DiffSays
<1>6. ASSUME NEW t \in Tickets
      PROVE  /\ prev[t] = None /\ curr[t] = None => Unmoved(s, t)
             /\ (held'[s][t] # None /\ held'[s][t].kind = "NEW") =>
                  Unmoved(s, t) \/ (prev[t] = None /\ curr[t] # None)
             /\ (/\ prev[t] = None /\ curr[t] # None /\ t \notin pending[s]
                 /\ held[s][t] = None /\ held'[s][t] # None)
                  => t \notin pending'[s] /\ table[s][t] = None
  BY <1>2, <1>3, <1>4 DEF DiffSays
<1> QED
  BY <1>5, <1>6

(* A reply releases the event held for its ticket.                         *)
ReleasedBy(s, cmd) ==
  LET ev == held[s][cmd.ticket]
  IN  /\ ev # None
      /\ cmd.action = "OPEN" => ev.kind = "NEW" /\ cmd.volume \in Fills
      /\ cmd.action = "CLOSE" => ev.kind = "CLOSE"

LEMMA ApplyAckDoes ==
  ASSUME IInv, Driven, SizesAreFills, NEW s \in Slaves, NEW cmd \in commands[s],
         NEW ok \in BOOLEAN, NEW st \in SlaveTickets, NEW fill \in Fills,
         ApplyAck(s, cmd, ok, st, fill)
  PROVE  /\ \A r \in Slaves \ {s} : commands'[r] = commands[r]
         /\ \A c \in commands'[s] :
              c \in commands[s] \ {cmd} \/ (c.ticket = cmd.ticket /\ ReleasedBy(s, c))
         /\ \A r \in Slaves, t \in Tickets :
              (r # s \/ t # cmd.ticket) => Unmoved(r, t)
         /\ held'[s][cmd.ticket] # None =>
              /\ held'[s][cmd.ticket] = held[s][cmd.ticket]
              /\ held[s][cmd.ticket].kind = "NEW"
<1> DEFINE t     == cmd.ticket
           rec   == AckedRecord(cmd, ok, st, fill, table[s][t])
           freed == [record |-> rec, held |-> None, pending |-> FALSE,
                     commands |-> {}, asks |-> {}]
           cell  == IF held[s][t] = None THEN freed
                    ELSE Rederive(Context(s), t, held[s][t], freed, lastNow)
<1>0. /\ TypeOK /\ SlaveOK(s) /\ Context(s) \in Contexts /\ Sized(Context(s))
  BY IInvPerSlave, ContextSized
<1>1. t \in Tickets
  BY <1>0, CommandTicket DEF TypeOK
<1>2. table[s][t] \in Record \cup {None} /\ held[s][t] \in Event \cup {None}
  BY <1>0, <1>1 DEF TypeOK
<1>3. rec \in Record \cup {None}
  <2>1. CASE cmd.action = "OPEN" /\ ok /\ table[s][t] # None
    <3>1. rec = [table[s][t] EXCEPT !.slave_ticket = st, !.slave_open_volume = fill]
      BY <2>1 DEF AckedRecord
    <3>2. fill \in Int
      BY ConstantsOK
    <3> QED
      BY <3>1, <3>2, <1>2, <2>1 DEF Record
  <2>2. CASE ~(cmd.action = "OPEN" /\ ok /\ table[s][t] # None)
    <3>1. rec = None \/ rec = table[s][t]
      BY <2>2 DEF AckedRecord
    <3> QED
      BY <3>1, <1>2
  <2> QED
    BY <2>1, <2>2
<1>4. /\ table' = [table EXCEPT ![s][t] = cell.record]
      /\ held' = [held EXCEPT ![s][t] = cell.held]
      /\ pending' = [pending EXCEPT ![s] = IF cell.pending THEN @ \cup {t}
                                                           ELSE @ \ {t}]
      /\ commands' = [commands EXCEPT ![s] = (@ \ {cmd}) \cup cell.commands]
  BY DEF ApplyAck, Freed
<1> HIDE DEF rec
<1>5. /\ \A c \in cell.commands : c.ticket = t /\ ReleasedBy(s, c)
      /\ cell.held # None => cell.held = held[s][t] /\ held[s][t].kind = "NEW"
  <2>1. CASE held[s][t] = None
    BY <2>1
  <2>2. CASE held[s][t] # None
    <3>1. cell = Rederive(Context(s), t, held[s][t], freed, lastNow)
      BY <2>2
    <3>2. /\ freed \in Cells /\ Quiet(freed)
          /\ ~freed.pending /\ freed.held = None
      BY <1>3 DEF Cells, Quiet
    <3>3. Agrees(held[s][t], prev[t])
      BY <2>2, <1>0, <1>1 DEF SlaveOK, CellOK, Cell
    <3> HIDE DEF freed, cell
    <3>4. GoodStep(Context(s), t, prev[t], freed, cell)
      BY <3>1, <3>2, <3>3, <2>2, <1>0, <1>1, <1>2, RederiveGood
    <3>5. Says(held[s][t], freed.record, cell)
      BY <3>1, <3>2, <2>2, <1>0, <1>1, <1>2, RederiveSays
    <3>6. \A c \in cell.commands : c.ticket = t
      BY <3>4 DEF GoodStep, Matches
    <3> QED
      BY <3>5, <3>6, <2>2 DEF Says, ReleasedBy
  <2> QED
    BY <2>1, <2>2
<1> HIDE DEF cell, t
<1>6. /\ table \in [Slaves -> [Tickets -> Record \cup {None}]]
      /\ held \in [Slaves -> [Tickets -> Event \cup {None}]]
      /\ pending \in [Slaves -> SUBSET Tickets]
      /\ commands \in [Slaves -> SUBSET Command]
  BY <1>0 DEF TypeOK
<1>7. held'[s][t] = cell.held
  BY <1>1, <1>4, <1>6
<1>8. \A r \in Slaves, u \in Tickets : (r # s \/ u # t) => Unmoved(r, u)
  BY <1>1, <1>4, <1>6 DEF Unmoved
<1>9. /\ \A r \in Slaves \ {s} : commands'[r] = commands[r]
      /\ commands'[s] = (commands[s] \ {cmd}) \cup cell.commands
  BY <1>4, <1>6
<1> QED
  BY <1>5, <1>7, <1>8, <1>9 DEF t

LEMMA ApplySymbolInfoDoes ==
  ASSUME IInv, Driven, SizesAreFills, NEW s \in Slaves, NEW found \in SUBSET Symbols,
         ApplySymbolInfo(s, found)
  PROVE  /\ \A r \in Slaves \ {s} : commands'[r] = commands[r]
         /\ \A c \in commands'[s] \ commands[s] :
              /\ ReleasedBy(s, c) /\ c.ticket \notin pending[s]
              /\ c.action = "OPEN" => table[s][c.ticket] = None
         /\ \A r \in Slaves, t \in Tickets :
              \/ Unmoved(r, t)
              \/ /\ r = s /\ held[s][t] # None /\ t \notin pending[s]
                 /\ held'[s][t] # None =>
                      /\ held'[s][t] = held[s][t] /\ held[s][t].kind = "NEW"
                      /\ table[s][t] = None /\ t \notin pending'[s]
<1> DEFINE req  == Head(asked[s])
           ctx  == [Context(s) EXCEPT !.infos = @ \cup found,
                                      !.missing = @ \cup (req \ found)]
           free(t) == [Cell(s, t) EXCEPT !.held = None]
           Y(t) == IF held[s][t] # None /\ t \notin pending[s]
                     THEN Rederive(ctx, t, held[s][t], free(t), lastNow)
                     ELSE Cell(s, t)
<1>0. /\ TypeOK /\ SlaveOK(s) /\ Context(s) \in Contexts /\ Sized(Context(s))
      /\ \A t \in Tickets : Cell(s, t) \in Cells /\ Quiet(Cell(s, t))
  BY IInvPerSlave, CellTypes, ContextSized
<1>1. req \in SUBSET Symbols
  BY <1>0 DEF TypeOK, ApplySymbolInfo
<1>2. ctx \in Contexts /\ Sized(ctx)
  <2>1. ctx.config = Context(s).config /\ ctx.balance = Context(s).balance
    BY <1>0 DEF Contexts
  <2> HIDE DEF ctx
  <2>2. Sized(ctx)
    BY <1>0, <2>1 DEF Sized
  <2>3. ctx \in Contexts
    BY <1>0, <1>1 DEF Contexts, ctx
  <2> QED
    BY <2>2, <2>3
<1>3. /\ table'   = [table EXCEPT ![s] = [t \in Tickets |-> Y(t).record]]
      /\ held'    = [held EXCEPT ![s] = [t \in Tickets |-> Y(t).held]]
      /\ pending' = [pending EXCEPT ![s] = {t \in Tickets : Y(t).pending}]
      /\ commands' = [commands EXCEPT ![s] = @ \cup UNION {Y(t).commands : t \in Tickets}]
  <2> DEFINE cells == [t \in Tickets |-> Y(t)]
  <2>1. /\ Store(s, cells)
        /\ commands' = [commands EXCEPT ![s] = @ \cup Emitted(cells)]
    BY DEF ApplySymbolInfo
  <2> HIDE DEF Y
  <2>2. \A t \in Tickets : cells[t] = Y(t)
    OBVIOUS
  <2> HIDE DEF cells
  <2> QED
    BY <2>1, <2>2 DEF Store, Emitted
<1>4. ASSUME NEW t \in Tickets, held[s][t] # None, t \notin pending[s]
      PROVE  /\ Says(held[s][t], table[s][t], Y(t))
             /\ \A c \in Y(t).commands : c.ticket = t
  <2>1. /\ free(t) \in Cells /\ Quiet(free(t))
        /\ ~free(t).pending /\ free(t).held = None /\ free(t).record = table[s][t]
    BY <1>0, <1>4 DEF Cell, Cells, Quiet
  <2>2. Y(t) = Rederive(ctx, t, held[s][t], free(t), lastNow)
    BY <1>4
  <2>3. held[s][t] \in Event /\ Agrees(held[s][t], prev[t])
    <3>1. CellOK(Cell(s, t), prev[t]) /\ Cell(s, t).held = held[s][t]
      BY <1>0 DEF SlaveOK, Cell
    <3>2. held[s][t] \in Event \cup {None}
      BY <1>0 DEF TypeOK
    <3> QED
      BY <1>4, <3>1, <3>2 DEF CellOK
  <2> HIDE DEF free, ctx, Y
  <2>4. GoodStep(ctx, t, prev[t], free(t), Y(t))
    BY <1>2, <2>1, <2>2, <2>3, RederiveGood
  <2>5. Says(held[s][t], free(t).record, Y(t))
    BY <1>2, <2>1, <2>2, <2>3, RederiveSays
  <2> QED
    BY <2>1, <2>4, <2>5 DEF GoodStep, Matches
<1>5. ASSUME NEW t \in Tickets, ~(held[s][t] # None /\ t \notin pending[s])
      PROVE  Y(t) = Cell(s, t) /\ Y(t).commands = {}
  BY <1>5 DEF Cell
<1> HIDE DEF Y
<1>6. /\ table \in [Slaves -> [Tickets -> Record \cup {None}]]
      /\ held \in [Slaves -> [Tickets -> Event \cup {None}]]
      /\ pending \in [Slaves -> SUBSET Tickets]
      /\ commands \in [Slaves -> SUBSET Command]
  BY <1>0 DEF TypeOK
<1>7. \A r \in Slaves \ {s} :
        /\ commands'[r] = commands[r]
        /\ \A t \in Tickets : Unmoved(r, t)
  BY <1>3, <1>6 DEF Unmoved
<1>8. \A t \in Tickets :
        /\ table'[s][t] = Y(t).record /\ held'[s][t] = Y(t).held
        /\ t \in pending'[s] <=> Y(t).pending
  BY <1>3, <1>6
<1>9. ASSUME NEW t \in Tickets
      PROVE  \/ Unmoved(s, t)
             \/ /\ held[s][t] # None /\ t \notin pending[s]
                /\ held'[s][t] # None =>
                     /\ held'[s][t] = held[s][t] /\ held[s][t].kind = "NEW"
                     /\ table[s][t] = None /\ t \notin pending'[s]
  <2>1. CASE held[s][t] # None /\ t \notin pending[s]
    <3>1. Says(held[s][t], table[s][t], Y(t))
      BY <2>1, <1>4
    <3>2. held'[s][t] = Y(t).held /\ (t \in pending'[s] <=> Y(t).pending)
      BY <1>8
    <3> QED
      BY <2>1, <3>1, <3>2 DEF Says
  <2>2. CASE ~(held[s][t] # None /\ t \notin pending[s])
    <3>1. Y(t) = Cell(s, t)
      BY <2>2, <1>5
    <3>2. /\ Cell(s, t).record = table[s][t] /\ Cell(s, t).held = held[s][t]
          /\ Cell(s, t).pending <=> t \in pending[s]
      BY DEF Cell
    <3>3. Unmoved(s, t)
      BY <3>1, <3>2, <1>8 DEF Unmoved
    <3> QED
      BY <3>3
  <2> QED
    BY <2>1, <2>2
<1>10. ASSUME NEW c \in commands'[s] \ commands[s]
       PROVE  /\ ReleasedBy(s, c) /\ c.ticket \notin pending[s]
              /\ c.action = "OPEN" => table[s][c.ticket] = None
  <2>1. PICK t \in Tickets : c \in Y(t).commands
    BY <1>3, <1>6
  <2>2. held[s][t] # None /\ t \notin pending[s]
    BY <2>1, <1>5
  <2> QED
    BY <2>1, <2>2, <1>4 DEF Says, ReleasedBy
<1> QED
  BY <1>7, <1>9, <1>10

-----------------------------------------------------------------------------
(* The order in which a position is opened and closed, in the master's     *)
(* terminal, its pipe and the engine.                                      *)
Forward ==
  /\ gone \subseteq gone'
  /\ \A t \in Tickets : /\ ClosedFrom(t, 1) => ClosedFrom(t, 1)'
                        /\ OpenedBy(t, 1) => OpenedBy(t, 1)'

LEMMA MasterTradesOrder ==
  ASSUME SysTypeOK, Order, NEW u \in Tickets, MasterTrades(u)
  PROVE  Order' /\ Forward
<1>0. master \in [Tickets -> Position \cup {None}]
  BY DEF SysTypeOK
<1>1. /\ gone \subseteq gone' /\ snapshots' = snapshots /\ prev' = prev
      /\ \A t \in Tickets \ {u} : master'[t] = master[t] /\ (t \in gone' <=> t \in gone)
      /\ master[u] # None => (master'[u] = None => u \in gone')
      /\ u \in gone' => master'[u] = None
  <2>1. prev' = prev /\ snapshots' = snapshots
    BY DEF MasterTrades, vars, engineVars
  <2>2. PICK now \in Position \cup {None} : master' = [master EXCEPT ![u] = now]
    BY DEF MasterTrades
  <2>3. /\ \A t \in Tickets \ {u} : master'[t] = master[t]
        /\ master'[u] = now
    BY <1>0, <2>2
  <2>4. CASE now = None
    <3>1. gone' = gone \cup {u}
      BY <1>0, <2>3, <2>4, NoneIsNoValue DEF MasterTrades
    <3> QED
      BY <2>1, <2>3, <2>4, <3>1
  <2>5. CASE now # None
    <3>1. gone' = gone /\ u \notin gone
      BY <1>0, <2>3, <2>5 DEF MasterTrades, Order
    <3> QED
      BY <2>1, <2>3, <2>5, <3>1
  <2> QED
    BY <2>2, <2>4, <2>5
<1>2. \A t \in Tickets : t \in gone' => master'[t] = None
  BY <1>1 DEF Order
<1>3. \A t \in Tickets : (master[t] = None => t \in gone)
                           => (master'[t] = None => t \in gone')
  BY <1>1
<1>4. \A t \in Tickets, i \in Int : /\ ClosedFrom(t, i) => ClosedFrom(t, i)'
                                    /\ OpenedBy(t, i) => OpenedBy(t, i)'
  BY <1>1, <1>3 DEF ClosedFrom, OpenedBy
<1>5. \A i \in DOMAIN snapshots : i \in Int
  BY DEF SysTypeOK
<1>6. Order'
  BY <1>1, <1>2, <1>4, <1>5 DEF Order
<1> QED
  BY <1>1, <1>4, <1>6 DEF Forward

LEMMA SendsOrder ==
  ASSUME SysTypeOK, Order, ~Glitches, Sends
  PROVE  Order' /\ Forward
<1>0. snapshots \in Seq(Snapshots) /\ master \in Snapshots
  BY DEF SysTypeOK, Snapshots
<1>1. /\ snapshots' = Append(snapshots, master)
      /\ UNCHANGED << master, gone, prev >>
  BY DEF Sends, vars, engineVars
<1> DEFINE n == Len(snapshots)
<1>2. /\ n \in Nat /\ DOMAIN snapshots = 1..n /\ DOMAIN snapshots' = 1..(n + 1)
      /\ snapshots'[n + 1] = master
      /\ \A i \in 1..n : snapshots'[i] = snapshots[i]
  BY <1>0, <1>1
<1> HIDE DEF n
<1>3. \A j \in 1..(n + 1) : j \in 1..n \/ j = n + 1
  BY <1>2
<1>4. ASSUME NEW t \in Tickets, NEW i \in Int, ClosedFrom(t, i)
      PROVE  ClosedFrom(t, i)'
  <2>1. master[t] = None
    BY <1>4 DEF ClosedFrom, Order
  <2> QED
    BY <2>1, <1>1, <1>2, <1>3, <1>4 DEF ClosedFrom
<1>5. ASSUME NEW t \in Tickets, NEW i \in Int, OpenedBy(t, i)
      PROVE  OpenedBy(t, i)'
  <2>1. ASSUME NEW j \in 1..(n + 1), j >= i, snapshots'[j][t] = None
        PROVE  ClosedFrom(t, j)'
    <3>1. CASE j \in 1..n
      <4>1. ClosedFrom(t, j)
        BY <2>1, <3>1, <1>2, <1>5 DEF OpenedBy
      <4> QED
        BY <4>1, <1>4
    <3>2. CASE j = n + 1
      <4>1. t \in gone' /\ master[t] = None
        BY <2>1, <3>2, <1>1, <1>2, <1>5 DEF OpenedBy
      <4>2. \A k \in 1..(n + 1) : k >= j => k = n + 1
        BY <3>2, <1>2
      <4> QED
        BY <4>1, <4>2, <1>2 DEF ClosedFrom
    <3> QED
      BY <2>1, <1>3, <3>1, <3>2
  <2> QED
    BY <2>1, <1>1, <1>2, <1>5 DEF OpenedBy
<1>6. ASSUME NEW t \in Tickets, NEW i \in Int, i = n + 1, master[t] # None
      PROVE  OpenedBy(t, i)'
  <2>1. \A j \in 1..(n + 1) : j >= i => j = n + 1
    BY <1>2, <1>6
  <2>2. \A j \in DOMAIN snapshots' : j >= i => snapshots'[j][t] # None
    BY <2>1, <1>2, <1>6
  <2>3. master'[t] # None
    BY <1>1, <1>6
  <2> QED
    BY <2>2, <2>3 DEF OpenedBy
<1>7. ASSUME NEW i \in 1..(n + 1), NEW t \in Tickets, snapshots'[i][t] # None
      PROVE  OpenedBy(t, i)'
  <2>1. CASE i \in 1..n
    <3>1. snapshots[i][t] # None /\ i \in DOMAIN snapshots /\ i \in Int
      BY <2>1, <1>2, <1>7
    <3>2. OpenedBy(t, i)
      BY <3>1 DEF Order
    <3> QED
      BY <3>1, <3>2, <1>5
  <2>2. CASE i = n + 1
    BY <2>2, <1>2, <1>6, <1>7
  <2> QED
    BY <2>1, <2>2, <1>3
<1>8. Order'
  BY <1>1, <1>2, <1>5, <1>7 DEF Order
<1> QED
  BY <1>1, <1>4, <1>5, <1>8 DEF Forward

LEMMA LosesMasterOrder ==
  ASSUME SysTypeOK, Order, LosesMaster
  PROVE  Order' /\ Forward
<1>1. snapshots' = << >> /\ UNCHANGED << master, gone, prev >>
  BY DEF LosesMaster, vars, engineVars
<1>2. \A t \in Tickets : /\ ClosedFrom(t, 1) => ClosedFrom(t, 1)'
                         /\ OpenedBy(t, 1) => OpenedBy(t, 1)'
  BY <1>1 DEF ClosedFrom, OpenedBy
<1> QED
  BY <1>1, <1>2 DEF Order, Forward

LEMMA ReadsSnapshotOrder ==
  ASSUME SysTypeOK, Order, ReadsSnapshot
  PROVE  /\ Order' /\ Forward
         /\ Head(snapshots) \in Snapshots
         /\ \A t \in Tickets :
              /\ ClosedFrom(t, 1) => Head(snapshots)[t] = None
              /\ (OpenedBy(t, 1) /\ Head(snapshots)[t] = None) => ClosedFrom(t, 1)
<1> DEFINE n == Len(snapshots)
<1>0. snapshots \in Seq(Snapshots) /\ snapshots # << >>
  BY DEF SysTypeOK, ReadsSnapshot
<1>1. /\ snapshots' = Tail(snapshots) /\ prev' = Head(snapshots)
      /\ UNCHANGED << master, gone >>
  BY DEF ReadsSnapshot, ReadSnapshot
<1>2. /\ n \in Nat \ {0} /\ DOMAIN snapshots = 1..n /\ DOMAIN snapshots' = 1..(n - 1)
      /\ Head(snapshots) = snapshots[1] /\ 1 \in 1..n
      /\ \A i \in 1..(n - 1) : snapshots'[i] = snapshots[i + 1] /\ i + 1 \in 1..n
      /\ Head(snapshots) \in Snapshots
  BY <1>0, <1>1
<1> HIDE DEF n
<1>3. ASSUME NEW t \in Tickets, NEW i \in Nat, ClosedFrom(t, i + 1)
      PROVE  ClosedFrom(t, i)'
  <2>1. \A j \in 1..(n - 1) : j >= i => j + 1 \in DOMAIN snapshots /\ j + 1 >= i + 1
    BY <1>2
  <2> QED
    BY <2>1, <1>1, <1>2, <1>3 DEF ClosedFrom
<1>4. ASSUME NEW t \in Tickets, NEW i \in Nat, OpenedBy(t, i + 1)
      PROVE  OpenedBy(t, i)'
  <2>1. ASSUME NEW j \in 1..(n - 1), j >= i, snapshots'[j][t] = None
        PROVE  ClosedFrom(t, j)'
    <3>1. j + 1 \in DOMAIN snapshots /\ j + 1 >= i + 1 /\ snapshots[j + 1][t] = None
      BY <2>1, <1>2
    <3>2. ClosedFrom(t, j + 1)
      BY <3>1, <1>4 DEF OpenedBy
    <3> QED
      BY <3>2, <1>3
  <2> QED
    BY <2>1, <1>1, <1>2, <1>4 DEF OpenedBy
<1>5. ASSUME NEW t \in Tickets
      PROVE  /\ ClosedFrom(t, 1) => ClosedFrom(t, 2)
             /\ OpenedBy(t, 1) => OpenedBy(t, 2)
  BY <1>2 DEF ClosedFrom, OpenedBy
<1>6. \A t \in Tickets : /\ ClosedFrom(t, 1) => ClosedFrom(t, 1)'
                         /\ OpenedBy(t, 1) => OpenedBy(t, 1)'
  BY <1>3, <1>4, <1>5
<1>7. \A t \in Tickets : prev'[t] # None => OpenedBy(t, 1)'
  BY <1>1, <1>2, <1>6 DEF Order
<1>8. \A i \in 1..(n - 1), t \in Tickets :
        snapshots'[i][t] # None => OpenedBy(t, i)'
  BY <1>2, <1>4 DEF Order
<1>9. Order'
  BY <1>1, <1>2, <1>7, <1>8 DEF Order
<1>10. \A t \in Tickets :
         /\ ClosedFrom(t, 1) => Head(snapshots)[t] = None
         /\ (OpenedBy(t, 1) /\ Head(snapshots)[t] = None) => ClosedFrom(t, 1)
  BY <1>2 DEF ClosedFrom, OpenedBy
<1> QED
  BY <1>1, <1>2, <1>6, <1>9, <1>10 DEF Forward

-----------------------------------------------------------------------------
(* The records a slave reports of at most one copy of each position.       *)
LEMMA SumOfOne ==
  ASSUME NEW f, NEW z, f[z].sv \in Int
  PROVE  MapThenSumSet(LAMBDA x : f[x].sv, {z}) = f[z].sv
<1> DEFINE Chosen(u) == CHOOSE x \in u : TRUE
           Is(g) == g = [u \in SUBSET {z} |->
                           IF u = {} THEN 0
                           ELSE f[Chosen(u)].sv + g[u \ {Chosen(u)}]]
           sums == CHOOSE g : Is(g)
           one  == [u \in SUBSET {z} |-> IF u = {} THEN 0 ELSE f[z].sv]
<1>1. MapThenSumSet(LAMBDA x : f[x].sv, {z}) = sums[{z}]
  BY DEF MapThenSumSet, MapThenFoldSet
<1>2. Chosen({z}) = z
  OBVIOUS
<1>3. \A u \in SUBSET {z} : u = {} \/ u = {z}
  OBVIOUS
<1> HIDE DEF Chosen
<1>4. Is(one)
  <2>1. {z} \ {z} = {} /\ {} \in SUBSET {z} /\ {z} # {}
    OBVIOUS
  <2>2. one[{}] = 0
    BY <2>1
  <2>3. ASSUME NEW u \in SUBSET {z}
        PROVE  (IF u = {} THEN 0 ELSE f[z].sv) =
                 (IF u = {} THEN 0 ELSE f[Chosen(u)].sv + one[u \ {Chosen(u)}])
    <3>1. CASE u = {}
      BY <3>1
    <3>2. CASE u = {z}
      <4>1. one[u \ {Chosen(u)}] = 0
        BY <3>2, <2>1, <2>2, <1>2
      <4> HIDE DEF one
      <4>2. f[Chosen(u)].sv + one[u \ {Chosen(u)}] = f[z].sv
        BY <3>2, <4>1, <1>2
      <4> QED
        BY <3>2, <2>1, <4>2
    <3> QED
      BY <1>3, <3>1, <3>2
  <2> QED
    BY <2>3
<1>5. Is(sums)
  BY <1>4
<1> HIDE DEF sums
<1>6. sums[{}] = 0 /\ sums[{z}] = f[z].sv + sums[{}]
  <2>1. {z} \ {z} = {} /\ {} \in SUBSET {z} /\ {z} \in SUBSET {z} /\ {z} # {}
    OBVIOUS
  <2> QED
    BY <2>1, <1>2, <1>5
<1> QED
  BY <1>1, <1>6

LEMMA RecordsSeeded ==
  ASSUME SysTypeOK, Driven, OneCopy, NEW s \in Slaves
  PROVE  /\ Records(s) \in SeededTables
         /\ \A t \in Tickets : Records(s)[t] # None <=> CopiesOf(s, t) # {}
<1> DEFINE Recs == [slave_ticket : SlaveTickets, master_open_volume : Volumes,
                    slave_open_volume : Fills]
<1>1. ASSUME NEW t \in Tickets, CopiesOf(s, t) # {}
      PROVE  RecordOf(s, t) \in Recs
  <2>1. PICK z \in CopiesOf(s, t) : CopiesOf(s, t) = {z}
    BY <1>1 DEF OneCopy
  <2>2. (CHOOSE x \in {z} : TRUE) = z
    OBVIOUS
  <2>3. z \in SlaveTickets /\ terminal[s][z] # None
    BY <2>1 DEF CopiesOf
  <2>4. terminal[s][z] \in Copy /\ terminal[s][z].sv \in Fills
    BY <2>3 DEF SysTypeOK, Driven
  <2>5. terminal[s][z].mv \in Volumes /\ terminal[s][z].sv \in Int
    BY <2>4, ConstantsOK DEF Copy
  <2>6. MapThenSumSet(LAMBDA x : terminal[s][x].sv, {z}) = terminal[s][z].sv
    BY <2>5, SumOfOne
  <2>7. RecordOf(s, t) = [slave_ticket |-> z,
                          master_open_volume |-> terminal[s][z].mv,
                          slave_open_volume |-> terminal[s][z].sv]
    <3>1. MapThenSumSet(LAMBDA x : terminal[s][x].sv, CopiesOf(s, t))
            = terminal[s][z].sv
      BY <2>1, <2>6
    <3>2. (CHOOSE x \in CopiesOf(s, t) : TRUE) = z
      BY <2>1, <2>2
    <3> QED
      BY <3>1, <3>2, Zenon DEF RecordOf
  <2> QED
    BY <2>3, <2>4, <2>5, <2>7
<1>2. None \notin Recs
  BY ConstantsOK, ConstantTypes, NoneIsNoValue DEF Record
<1> QED
  BY <1>1, <1>2 DEF Records, SeededTables

-----------------------------------------------------------------------------
(* The steps that leave the engine alone: the master's, and a slave's.     *)

(* What the proofs assume of the constants.                                *)
Calm ==
  /\ ~EarlyLoss /\ ~Glitches /\ SizesAreFills
  /\ SlaveTickets # {} /\ Fills # {}

Typed == IInv /\ SysTypeOK /\ Driven /\ Answered

OfTickets == FreshIsUntouched /\ OneCopy /\ ClosesOnlyClosed

LEMMA SysInvParts == SysInv <=> Typed /\ Order /\ OfTickets
  BY DEF SysInv, Typed, OfTickets

LEMMA OrderStays ==
  ASSUME Order, UNCHANGED << master, gone, snapshots, prev >>
  PROVE  Order' /\ Forward
  BY DEF Order, Forward, ClosedFrom, OpenedBy

LEMMA TicketsStay ==
  ASSUME OfTickets, Forward, UNCHANGED vars,
         \A s \in Slaves, t \in Tickets : CopiesOf(s, t)' \subseteq CopiesOf(s, t),
         \A s \in Slaves : answers[s] \subseteq answers'[s]
  PROVE  OfTickets'
<1> USE DEF OfTickets
<1>0. UNCHANGED << prev, lastNow, table, pending, held, up, recovered, commands >>
  BY DEF vars, engineVars, slaveVars, pipeVars
<1>1. FreshIsUntouched'
  <2> SUFFICES ASSUME NEW s \in Slaves, NEW t \in Tickets, Fresh(t)'
               PROVE  /\ t \notin pending[s] /\ held[s][t] = None
                      /\ CopiesOf(s, t)' # {} =>
                           /\ lastNow = 0 /\ up[s] /\ recovered[s]
                           /\ table[s][t] # None /\ OpenedBy(t, 1)'
    BY <1>0 DEF FreshIsUntouched
  <2>1. Fresh(t)
    BY <1>0 DEF Fresh, Forward
  <2>2. CopiesOf(s, t)' # {} => CopiesOf(s, t) # {}
    OBVIOUS
  <2> QED
    BY <2>1, <2>2 DEF FreshIsUntouched, Forward
<1>2. OneCopy'
  BY <1>0 DEF OneCopy
<1>3. ClosesOnlyClosed'
  BY <1>0 DEF ClosesOnlyClosed, Forward
<1> QED
  BY <1>1, <1>2, <1>3

LEMMA MasterTypes ==
  ASSUME Typed,
         UNCHANGED << vars, terminal, spent, recovery, answers, crashes, missed >>,
         master' \in Snapshots, gone' \subseteq Tickets, snapshots' \in Seq(Snapshots)
  PROVE  Typed'
<1>1. IInv'
  BY StepIInv DEF Typed
<1>2. UNCHANGED << config, balance, commands >>
  BY DEF vars, slaveVars, pipeVars
<1>3. SysTypeOK'
  BY <1>2 DEF Typed, SysTypeOK, Snapshots
<1>4. Driven'
  BY <1>2 DEF Typed, Driven
<1>5. Answered'
  BY <1>2 DEF Typed, Answered
<1> QED
  BY <1>1, <1>3, <1>4, <1>5 DEF Typed

LEMMA MasterKeeps ==
  ASSUME Calm, SysInv, (\E t \in Tickets : MasterTrades(t)) \/ Sends \/ LosesMaster
  PROVE  SysInv'
<1>0. Typed /\ Order /\ OfTickets
  BY SysInvParts
<1>1. UNCHANGED << vars, terminal, spent, recovery, answers, crashes, missed >>
  BY DEF MasterTrades, Sends, LosesMaster
<1>2. Order' /\ Forward
  BY <1>0, MasterTradesOrder, SendsOrder, LosesMasterOrder DEF Typed, Calm
<1>3. /\ master' \in Snapshots /\ gone' \subseteq Tickets
      /\ snapshots' \in Seq(Snapshots)
  <2>0. master \in Snapshots /\ gone \subseteq Tickets /\ snapshots \in Seq(Snapshots)
    BY <1>0 DEF Typed, SysTypeOK, Snapshots
  <2>1. ASSUME NEW t \in Tickets, MasterTrades(t)
        PROVE  /\ master' \in Snapshots /\ gone' \subseteq Tickets
               /\ snapshots' \in Seq(Snapshots)
    <3>1. snapshots' = snapshots /\ gone' \subseteq gone \cup {t}
      BY <2>1 DEF MasterTrades
    <3>2. \E pos \in Position \cup {None} : master' = [master EXCEPT ![t] = pos]
      BY <2>1 DEF MasterTrades
    <3> QED
      BY <2>0, <3>1, <3>2 DEF Snapshots
  <2>2. CASE Sends
    <3>1. /\ snapshots' = Append(snapshots, master)
          /\ master' = master /\ gone' = gone
      BY <2>2 DEF Sends, Calm
    <3> QED
      BY <2>0, <3>1
  <2>3. CASE LosesMaster
    BY <2>0, <2>3 DEF LosesMaster
  <2> QED
    BY <2>1, <2>2, <2>3
<1>4. Typed'
  BY <1>0, <1>1, <1>3, MasterTypes
<1>5. OfTickets'
  BY <1>0, <1>1, <1>2, TicketsStay DEF CopiesOf
<1> QED
  BY <1>2, <1>4, <1>5 DEF SysInv, Typed, OfTickets

LEMMA ConnectsKeeps ==
  ASSUME SysInv, NEW s \in Slaves, Connects(s)
  PROVE  SysInv'
<1>0. Typed /\ Order /\ OfTickets
  BY SysInvParts
<1>1. /\ UNCHANGED << vars, master, gone, snapshots, terminal, spent, answers,
                      crashes, missed >>
      /\ UNCHANGED << prev, config, balance, commands >>
  BY DEF Connects, vars, engineVars, slaveVars, pipeVars
<1>2. Records(s) \in SeededTables
  BY <1>0, RecordsSeeded DEF Typed, OfTickets
<1>3. recovery' \in [Slaves -> SeededTables \cup {None}]
  BY <1>0, <1>2 DEF Connects, Typed, Driven
<1>4. IInv'
  BY <1>0, <1>1, StepIInv DEF Typed
<1>5. SysTypeOK'
  <2>1. \A r \in Slaves : recovery'[r] = None \/ recovery'[r] \in SeededTables
    BY <1>3
  <2> QED
    BY <1>0, <1>1, <2>1 DEF Typed, SysTypeOK
<1>6. Driven'
  BY <1>0, <1>1, <1>3 DEF Typed, Driven
<1>7. Answered'
  BY <1>0, <1>1 DEF Typed, Answered
<1>8. Order' /\ Forward
  BY <1>0, <1>1, OrderStays
<1>9. OfTickets'
  BY <1>0, <1>1, <1>8, TicketsStay DEF CopiesOf
<1> QED
  BY <1>4, <1>5, <1>6, <1>7, <1>8, <1>9 DEF SysInv, OfTickets

LEMMA BrokerClosesKeeps ==
  ASSUME SysInv, NEW s \in Slaves, NEW x \in SlaveTickets, BrokerCloses(s, x)
  PROVE  SysInv'
<1>0. Typed /\ Order /\ OfTickets
  BY SysInvParts
<1>1. /\ UNCHANGED << vars, master, gone, snapshots, spent, recovery, answers,
                      crashes, missed >>
      /\ UNCHANGED << prev, config, balance, commands >>
  BY DEF BrokerCloses, vars, engineVars, slaveVars, pipeVars
<1>2. /\ terminal' \in [Slaves -> [SlaveTickets -> Copy \cup {None}]]
      /\ \A r \in Slaves, y \in SlaveTickets :
           terminal'[r][y] = terminal[r][y] \/ terminal'[r][y] = None
  <2>1. terminal \in [Slaves -> [SlaveTickets -> Copy \cup {None}]]
    BY <1>0 DEF Typed, SysTypeOK
  <2>2. terminal' = [terminal EXCEPT ![s][x] = None]
    BY DEF BrokerCloses
  <2> QED
    BY <2>1, <2>2
<1>4. IInv'
  BY <1>0, <1>1, StepIInv DEF Typed
<1>5. SysTypeOK'
  BY <1>0, <1>1, <1>2 DEF Typed, SysTypeOK
<1>6. Driven'
  BY <1>0, <1>1, <1>2 DEF Typed, Driven
<1>7. Answered'
  BY <1>0, <1>1 DEF Typed, Answered
<1>8. Order' /\ Forward
  BY <1>0, <1>1, OrderStays
<1>9. OfTickets'
  <2>1. \A r \in Slaves, t \in Tickets : CopiesOf(r, t)' \subseteq CopiesOf(r, t)
    BY <1>2 DEF CopiesOf
  <2> QED
    BY <1>0, <1>1, <1>8, <2>1, TicketsStay
<1> QED
  BY <1>4, <1>5, <1>6, <1>7, <1>8, <1>9 DEF SysInv, OfTickets

(* A command is executed, or fails: the slave's terminal and its answers.  *)
LEMMA ExecutesKeeps ==
  ASSUME SysInv, NEW s \in Slaves, NEW cmd \in commands[s], Executes(s, cmd)
  PROVE  SysInv'
<1>0. Typed /\ Order /\ OfTickets /\ IInv
  BY SysInvParts DEF Typed
<1>1. /\ UNCHANGED << vars, master, gone, snapshots, recovery, crashes, missed >>
      /\ UNCHANGED << prev, lastNow, config, balance, table, pending, held, up,
                      recovered, commands >>
  BY DEF Executes, vars, engineVars, slaveVars, pipeVars
<1>2. cmd \in Command /\ cmd.ticket \in Tickets
  BY <1>0, CommandTicket DEF IInv, TypeOK
<1>3. IInv'
  BY <1>0, <1>1, StepIInv
<1>4. Order' /\ Forward
  BY <1>0, <1>1, OrderStays
<1> DEFINE new(ok, st, fill) ==
             [cmd |-> cmd, ok |-> ok, slave_ticket |-> st, fill |-> fill]
<1>t. /\ terminal \in [Slaves -> [SlaveTickets -> Copy \cup {None}]]
      /\ spent \in [Slaves -> SUBSET SlaveTickets]
      /\ answers \in [Slaves -> SUBSET Answer]
      /\ \A a \in answers[s] : a.cmd # cmd
  BY <1>0 DEF Typed, SysTypeOK, Answered, Executes
<1>5. ASSUME NEW ok \in BOOLEAN, NEW st \in SlaveTickets \cup {0},
             NEW fill \in Fills \cup {0}, Answers(s, cmd, ok, st, fill),
             (ok /\ cmd.action = "OPEN") => st \in SlaveTickets /\ fill \in Fills
      PROVE  /\ Answered'
             /\ answers'[s] = answers[s] \cup {new(ok, st, fill)}
             /\ \A r \in Slaves \ {s} : answers'[r] = answers[r]
             /\ \A r \in Slaves : answers[r] \subseteq answers'[r]
  <2>1. answers' = [answers EXCEPT ![s] = @ \cup {new(ok, st, fill)}]
    BY <1>5 DEF Answers
  <2>2. new(ok, st, fill) \in Answer
    BY <1>2, <1>5 DEF Answer
  <2>3. /\ new(ok, st, fill).cmd = cmd /\ new(ok, st, fill).ok = ok
        /\ new(ok, st, fill).slave_ticket = st /\ new(ok, st, fill).fill = fill
    OBVIOUS
  <2> HIDE DEF new
  <2>4. /\ answers'[s] = answers[s] \cup {new(ok, st, fill)}
        /\ \A r \in Slaves \ {s} : answers'[r] = answers[r]
        /\ answers' \in [Slaves -> SUBSET Answer]
    BY <2>1, <2>2, <1>t
  <2>5. \A r \in Slaves : \A a \in answers'[r] :
          a \in answers[r] \/ (r = s /\ a = new(ok, st, fill))
    BY <2>4
  <2>6. Answered'
    <3>1. \A r \in Slaves : \A a \in answers'[r] :
            /\ a.cmd \in commands[r]
            /\ (a.ok /\ a.cmd.action = "OPEN") =>
                 a.slave_ticket \in SlaveTickets /\ a.fill \in Fills
      BY <2>3, <2>5, <1>0, <1>5 DEF Typed, Answered
    <3>2. \A r \in Slaves : \A a, b \in answers'[r] : a.cmd = b.cmd => a = b
      BY <2>3, <2>5, <1>0, <1>t DEF Typed, Answered
    <3> QED
      BY <2>4, <3>1, <3>2, <1>1 DEF Answered
  <2> QED
    BY <2>4, <2>6 DEF new
<1> HIDE DEF new
<1>6. ASSUME terminal' \in [Slaves -> [SlaveTickets -> Copy \cup {None}]],
             spent' \in [Slaves -> SUBSET SlaveTickets], Answered',
             \A r \in Slaves, x \in SlaveTickets :
               terminal'[r][x] # None => terminal'[r][x].sv \in Fills /\ x \in spent'[r]
      PROVE  Typed'
  <2>1. SysTypeOK'
    <3>1. \A r \in Slaves : \A a \in answers'[r] :
            /\ a.cmd \in commands[r] /\ a.ok \in BOOLEAN
            /\ a.slave_ticket \in SlaveTickets \cup {0}
      <4>1. /\ answers' \in [Slaves -> SUBSET Answer]
            /\ \A r \in Slaves : \A a \in answers'[r] : a.cmd \in commands'[r]
        BY <1>6 DEF Answered
      <4> QED
        BY <4>1, <1>1 DEF Answer
    <3> QED
      BY <1>0, <1>1, <1>6, <3>1 DEF Typed, SysTypeOK
  <2>2. Driven'
    BY <1>0, <1>1, <1>6 DEF Typed, Driven
  <2> QED
    BY <1>3, <1>6, <2>1, <2>2 DEF Typed
<1>7. ASSUME terminal' \in [Slaves -> [SlaveTickets -> Copy \cup {None}]],
             spent' = spent, Answered',
             \A r \in Slaves : answers[r] \subseteq answers'[r],
             \A r \in Slaves, x \in SlaveTickets : terminal'[r][x] # None =>
               /\ terminal[r][x] # None
               /\ terminal'[r][x].ticket = terminal[r][x].ticket
               /\ terminal'[r][x].sv = terminal[r][x].sv
      PROVE  SysInv'
  <2>1. Typed'
    <3>1. \A r \in Slaves, x \in SlaveTickets :
            terminal'[r][x] # None => terminal'[r][x].sv \in Fills /\ x \in spent'[r]
      BY <1>0, <1>7 DEF Typed, Driven
    <3> QED
      BY <1>t, <1>6, <1>7, <3>1
  <2>2. \A r \in Slaves, t \in Tickets : CopiesOf(r, t)' \subseteq CopiesOf(r, t)
    BY <1>7 DEF CopiesOf
  <2>3. OfTickets'
    BY <1>0, <1>1, <1>4, <1>7, <2>2, TicketsStay
  <2> QED
    BY <1>4, <2>1, <2>3 DEF SysInv, Typed, OfTickets
<1>8. ASSUME NEW x \in SlaveTickets \ spent[s], cmd.action = "OPEN",
             terminal' = [terminal EXCEPT ![s][x] =
                            [ticket |-> cmd.ticket, mv |-> cmd.master_volume,
                             sv |-> cmd.volume, sltp |-> cmd.sltp]],
             spent' = [spent EXCEPT ![s] = @ \cup {x}],
             Answers(s, cmd, TRUE, x, cmd.volume)
      PROVE  SysInv'
  <2> DEFINE u == cmd.ticket
             copy == [ticket |-> u, mv |-> cmd.master_volume,
                      sv |-> cmd.volume, sltp |-> cmd.sltp]
  <2>1. copy \in Copy /\ copy # None /\ copy.sv \in Fills /\ copy.ticket = u
    <3>1. cmd \in OpenCommand /\ cmd.volume \in Fills
      BY <1>0, <1>2, <1>8 DEF Command, OpenCommand, ModifyCommand, PartialCommand,
                              CloseCommand, Typed, Driven
    <3>2. copy \in Copy
      BY <3>1, ConstantsOK DEF OpenCommand, Copy
    <3> QED
      BY <3>1, <3>2, NoneIsNoCopy
  <2>2. /\ terminal' \in [Slaves -> [SlaveTickets -> Copy \cup {None}]]
        /\ terminal'[s][x] = copy
        /\ \A r \in Slaves, y \in SlaveTickets :
             (r # s \/ y # x) => terminal'[r][y] = terminal[r][y]
    <3> HIDE DEF copy
    <3>1. terminal' = [terminal EXCEPT ![s][x] = copy]
      BY <1>8 DEF copy
    <3> QED
      BY <1>t, <2>1, <3>1
  <2> HIDE DEF copy
  <2>3. /\ spent' \in [Slaves -> SUBSET SlaveTickets]
        /\ x \in spent'[s] /\ \A r \in Slaves : spent[r] \subseteq spent'[r]
    BY <1>8, <1>t
  <2>4. /\ Answered'
        /\ \E a \in answers'[s] : a.cmd = cmd
        /\ \A r \in Slaves : answers[r] \subseteq answers'[r]
    <3>1. cmd.volume \in Fills
      BY <1>0, <1>8 DEF Typed, Driven
    <3>2. /\ Answered'
          /\ answers'[s] = answers[s] \cup {new(TRUE, x, cmd.volume)}
          /\ \A r \in Slaves : answers[r] \subseteq answers'[r]
      BY <3>1, <1>5, <1>8
    <3>3. new(TRUE, x, cmd.volume).cmd = cmd
      BY DEF new
    <3> QED
      BY <3>2, <3>3
  <2>5. Typed'
    <3>1. \A r \in Slaves, y \in SlaveTickets :
            terminal'[r][y] # None => terminal'[r][y].sv \in Fills /\ y \in spent'[r]
      <4> SUFFICES ASSUME NEW r \in Slaves, NEW y \in SlaveTickets,
                          terminal'[r][y] # None
                   PROVE  terminal'[r][y].sv \in Fills /\ y \in spent'[r]
        OBVIOUS
      <4>1. CASE r = s /\ y = x
        BY <4>1, <2>1, <2>2, <2>3
      <4>2. CASE r # s \/ y # x
        BY <4>2, <2>2, <2>3, <1>0 DEF Typed, Driven
      <4> QED
        BY <4>1, <4>2
    <3> QED
      BY <2>2, <2>3, <2>4, <3>1, <1>6
  <2>6. /\ u \in pending[s] /\ CopiesOf(s, u) = {}
        /\ \A c \in commands[s] : c.ticket = u => c = cmd
        /\ ~(held[s][u] # None /\ held[s][u].kind = "NEW")
    <3>1. u \in pending[s] /\ \A c \in commands[s] : c.ticket = u => c = cmd
      BY <1>0 DEF IInv, CommandsOK
    <3> QED
      BY <3>1, <1>0, <1>2, <1>8, <1>t DEF OfTickets, OneCopy
  <2>7. /\ \A r \in Slaves, t \in Tickets :
             (r # s \/ t # u) => CopiesOf(r, t)' = CopiesOf(r, t)
        /\ CopiesOf(s, u)' = {x}
    <3>1. terminal[s][x] = None
      BY <1>0 DEF Typed, Driven
    <3>2. ASSUME NEW r \in Slaves, NEW t \in Tickets, r # s \/ t # u
          PROVE  CopiesOf(r, t)' = CopiesOf(r, t)
      <4>1. \A y \in SlaveTickets :
              (terminal'[r][y] # None /\ terminal'[r][y].ticket = t)
                <=> (terminal[r][y] # None /\ terminal[r][y].ticket = t)
        BY <2>1, <2>2, <3>1, <3>2
      <4> QED
        BY <4>1 DEF CopiesOf
    <3>3. CopiesOf(s, u)' = {x}
      <4>1. \A y \in SlaveTickets :
              (terminal'[s][y] # None /\ terminal'[s][y].ticket = u) <=> y = x
        BY <2>1, <2>2, <2>6 DEF CopiesOf
      <4>2. CopiesOf(s, u)' =
              {y \in SlaveTickets : terminal'[s][y] # None /\ terminal'[s][y].ticket = u}
        BY <1>1 DEF CopiesOf
      <4> QED
        BY <4>1, <4>2
    <3> QED
      BY <3>2, <3>3
  <2>8. OfTickets'
    <3>1. FreshIsUntouched'
      <4>1. \A t \in Tickets : /\ Fresh(t)' => Fresh(t)
                               /\ OpenedBy(t, 1) => OpenedBy(t, 1)'
        BY <1>1, <1>4 DEF Fresh, Forward
      <4>2. ~Fresh(u)
        BY <1>0, <1>2, <2>6 DEF OfTickets, FreshIsUntouched
      <4> SUFFICES ASSUME NEW r \in Slaves, NEW t \in Tickets, Fresh(t)
                   PROVE  /\ t \notin pending[r] /\ held[r][t] = None
                          /\ CopiesOf(r, t)' # {} =>
                               /\ lastNow = 0 /\ up[r] /\ recovered[r]
                               /\ table[r][t] # None /\ OpenedBy(t, 1)'
        BY <1>1, <4>1 DEF FreshIsUntouched
      <4> QED
        BY <1>0, <2>7, <4>1, <4>2 DEF OfTickets, FreshIsUntouched
    <3>2. OneCopy'
      <4> SUFFICES ASSUME NEW r \in Slaves, NEW t \in Tickets
                   PROVE  /\ \A y, z \in CopiesOf(r, t)' : y = z
                          /\ \A c \in commands[r] :
                               (/\ c.ticket = t /\ c.action = "OPEN"
                                /\ \A a \in answers'[r] : a.cmd # c)
                                 => CopiesOf(r, t)' = {}
                          /\ (held[r][t] # None /\ held[r][t].kind = "NEW") =>
                               /\ t \notin pending[r]
                               /\ CopiesOf(r, t)' = {} \/ table[r][t] # None
        BY <1>1 DEF OneCopy
      <4>1. CASE r = s /\ t = u
        BY <4>1, <2>4, <2>6, <2>7
      <4>2. CASE r # s \/ t # u
        BY <4>2, <1>0, <2>4, <2>7 DEF OfTickets, OneCopy
      <4> QED
        BY <4>1, <4>2
    <3>3. ClosesOnlyClosed'
      BY <1>0, <1>1 DEF OfTickets, ClosesOnlyClosed
    <3> QED
      BY <3>1, <3>2, <3>3 DEF OfTickets
  <2> QED
    BY <1>4, <2>5, <2>8 DEF SysInv, Typed, OfTickets
<1>9. CASE /\ cmd.action # "OPEN"
           /\ terminal' = [terminal EXCEPT ![s] = [x \in SlaveTickets |->
                 IF x \in CopiesOf(s, cmd.ticket) THEN Changed(cmd, @[x]) ELSE @[x]]]
           /\ Answers(s, cmd, TRUE, cmd.slave_ticket, 0) /\ spent' = spent
  <2>1. /\ cmd.slave_ticket \in SlaveTickets
        /\ cmd.action \in {"MODIFY", "PARTIAL_CLOSE", "CLOSE"}
        /\ cmd.action = "MODIFY" => cmd.sltp \in Levels
    BY <1>2, <1>9 DEF Command, OpenCommand, ModifyCommand, PartialCommand, CloseCommand
  <2>2. \A copy \in Copy :
          /\ Changed(cmd, copy) \in Copy \cup {None}
          /\ Changed(cmd, copy) # None => /\ Changed(cmd, copy).ticket = copy.ticket
                                          /\ Changed(cmd, copy).sv = copy.sv
    BY <2>1, NoneIsNoCopy DEF Changed, Copy
  <2> DEFINE c(x) == IF x \in CopiesOf(s, cmd.ticket)
                       THEN Changed(cmd, terminal[s][x]) ELSE terminal[s][x]
  <2>3. /\ terminal'[s] = [x \in SlaveTickets |-> c(x)]
        /\ \A r \in Slaves \ {s} : terminal'[r] = terminal[r]
        /\ DOMAIN terminal' = Slaves /\ terminal' = [r \in Slaves |-> terminal'[r]]
    BY <1>9, <1>t
  <2>4. \A x \in SlaveTickets :
          /\ c(x) \in Copy \cup {None}
          /\ c(x) # None => /\ terminal[s][x] # None
                            /\ c(x).ticket = terminal[s][x].ticket
                            /\ c(x).sv = terminal[s][x].sv
    BY <2>2, <1>t DEF CopiesOf
  <2> HIDE DEF c
  <2>5. terminal' \in [Slaves -> [SlaveTickets -> Copy \cup {None}]]
    BY <2>3, <2>4, <1>t
  <2>6. \A r \in Slaves, x \in SlaveTickets : terminal'[r][x] # None =>
          /\ terminal[r][x] # None
          /\ terminal'[r][x].ticket = terminal[r][x].ticket
          /\ terminal'[r][x].sv = terminal[r][x].sv
    BY <2>3, <2>4
  <2>7. Answered' /\ \A r \in Slaves : answers[r] \subseteq answers'[r]
    BY <1>5, <1>9, <2>1
  <2> QED
    BY <1>7, <1>9, <2>5, <2>6, <2>7
<1>10. CASE Answers(s, cmd, FALSE, 0, 0) /\ UNCHANGED << terminal, spent >>
  <2>1. Answered' /\ \A r \in Slaves : answers[r] \subseteq answers'[r]
    BY <1>5, <1>10
  <2> QED
    BY <1>7, <1>10, <1>t, <2>1
<1> QED
  BY <1>8, <1>9, <1>10 DEF Executes

-----------------------------------------------------------------------------
(* The manager's steps.                                                    *)
LEMMA ReadsSnapshotKeeps ==
  ASSUME Calm, SysInv, ReadsSnapshot
  PROVE  SysInv'
<1>0. Typed /\ Order /\ OfTickets /\ IInv /\ Driven /\ SysTypeOK /\ Answered
  BY SysInvParts DEF Typed
<1> DEFINE curr == Head(snapshots)
<1>1. /\ Order' /\ Forward /\ curr \in Snapshots
      /\ \A t \in Tickets :
           /\ ClosedFrom(t, 1) => curr[t] = None
           /\ (OpenedBy(t, 1) /\ curr[t] = None) => ClosedFrom(t, 1)
  BY <1>0, ReadsSnapshotOrder
<1> HIDE DEF curr
<1>2. PICK now \in Times : ReadSnapshot(curr, now)
  BY DEF ReadsSnapshot, curr
<1>3. IInv'
  BY <1>0, <1>1, <1>2, StepIInv DEF Next, ReadSomeSnapshot
<1>4. /\ UNCHANGED << master, gone, terminal, spent, recovery, answers, crashes,
                      config, balance >>
      /\ prev' = curr
      /\ \A s \in Slaves : commands[s] \subseteq commands'[s]
  BY <1>2 DEF ReadsSnapshot, ReadSnapshot
<1>5. \A s \in Slaves :
        /\ \A cmd \in commands'[s] \ commands[s] :
             LET t == cmd.ticket
             IN  /\ cmd.action = "OPEN" =>
                      /\ prev[t] = None /\ curr[t] # None
                      /\ table[s][t] = None /\ cmd.volume \in Fills
                 /\ cmd.action = "CLOSE" => prev[t] # None /\ curr[t] = None
        /\ \A t \in Tickets :
             /\ prev[t] = None /\ curr[t] = None => Unmoved(s, t)
             /\ (held'[s][t] # None /\ held'[s][t].kind = "NEW") =>
                  Unmoved(s, t) \/ (prev[t] = None /\ curr[t] # None)
             /\ (/\ prev[t] = None /\ curr[t] # None /\ t \notin pending[s]
                 /\ held[s][t] = None /\ held'[s][t] # None)
                  => t \notin pending'[s] /\ table[s][t] = None
  BY <1>0, <1>1, <1>2, ReadSnapshotDoes DEF Calm
<1>6. \A s \in Slaves : \A cmd \in commands'[s] : cmd.ticket \in Tickets
  BY <1>3, CommandTicket DEF IInv, TypeOK
<1>7. SysTypeOK'
  <2>1. snapshots' \in Seq(Snapshots)
    BY <1>0 DEF ReadsSnapshot, SysTypeOK
  <2>2. missed' \subseteq Slaves \X Tickets \X {"MODIFY", "CLOSE"}
    <3>1. \A s \in Slaves, t \in Tickets : Unseen(s, t, curr) \subseteq {"MODIFY", "CLOSE"}
      BY DEF Unseen, Owed
    <3>2. missed' = (missed \ Outdated(curr)) \cup
            UNION {{<< s, t, kind >> : kind \in Unseen(s, t, curr)} :
                     s \in Slaves, t \in Tickets}
      BY DEF ReadsSnapshot, curr
    <3> QED
      BY <1>0, <3>1, <3>2 DEF SysTypeOK
  <2> QED
    BY <1>0, <1>4, <2>1, <2>2 DEF SysTypeOK
<1>8. Driven'
  <2>1. \A s \in Slaves : \A c \in commands'[s] : c.action = "OPEN" => c.volume \in Fills
    BY <1>0, <1>5 DEF Driven
  <2> QED
    BY <1>0, <1>4, <2>1 DEF Driven
<1>9. Answered'
  BY <1>0, <1>4 DEF Answered
<1>10. \A s \in Slaves, t \in Tickets : CopiesOf(s, t)' = CopiesOf(s, t)
  BY <1>4 DEF CopiesOf
<1>11. \A t \in Tickets : prev[t] = None /\ curr[t] # None => Fresh(t)
  BY <1>1 DEF Fresh
<1>12. FreshIsUntouched'
  <2> SUFFICES ASSUME NEW s \in Slaves, NEW t \in Tickets, Fresh(t)'
               PROVE  /\ t \notin pending'[s] /\ held'[s][t] = None
                      /\ CopiesOf(s, t) = {}
    BY <1>10 DEF FreshIsUntouched
  <2>1. curr[t] = None /\ ~ClosedFrom(t, 1)
    BY <1>1, <1>4 DEF Fresh, Forward
  <2>2. ~OpenedBy(t, 1) /\ Fresh(t)
    BY <1>0, <1>1, <2>1 DEF Order, Fresh
  <2>3. t \notin pending[s] /\ held[s][t] = None /\ CopiesOf(s, t) = {}
    BY <1>0, <2>2 DEF OfTickets, FreshIsUntouched
  <2>4. Unmoved(s, t)
    BY <1>5, <2>1, <2>2 DEF Fresh
  <2> QED
    BY <2>3, <2>4 DEF Unmoved
<1>13. OneCopy'
  <2> SUFFICES ASSUME NEW s \in Slaves, NEW t \in Tickets
               PROVE  /\ \A x, y \in CopiesOf(s, t) : x = y
                      /\ \A c \in commands'[s] :
                           (/\ c.ticket = t /\ c.action = "OPEN"
                            /\ \A a \in answers[s] : a.cmd # c)
                             => CopiesOf(s, t) = {}
                      /\ (held'[s][t] # None /\ held'[s][t].kind = "NEW") =>
                           /\ t \notin pending'[s]
                           /\ CopiesOf(s, t) = {} \/ table'[s][t] # None
    BY <1>4, <1>10 DEF OneCopy
  <2>1. \A x, y \in CopiesOf(s, t) : x = y
    BY <1>0 DEF OfTickets, OneCopy
  <2>2. Fresh(t) /\ table[s][t] = None => CopiesOf(s, t) = {}
    BY <1>0 DEF OfTickets, FreshIsUntouched
  <2>3. ASSUME NEW c \in commands'[s], c.ticket = t, c.action = "OPEN",
               \A a \in answers[s] : a.cmd # c
        PROVE  CopiesOf(s, t) = {}
    <3>1. CASE c \in commands[s]
      BY <1>0, <2>3, <3>1 DEF OfTickets, OneCopy
    <3>2. CASE c \notin commands[s]
      <4>1. prev[t] = None /\ curr[t] # None /\ table[s][t] = None
        BY <1>5, <2>3, <3>2
      <4> QED
        BY <4>1, <1>11, <2>2
    <3> QED
      BY <3>1, <3>2
  <2>4. ASSUME held'[s][t] # None, held'[s][t].kind = "NEW"
        PROVE  /\ t \notin pending'[s]
               /\ CopiesOf(s, t) = {} \/ table'[s][t] # None
    <3>1. CASE Unmoved(s, t)
      BY <1>0, <2>4, <3>1 DEF Unmoved, OfTickets, OneCopy
    <3>2. CASE prev[t] = None /\ curr[t] # None
      <4>1. Fresh(t) /\ t \notin pending[s] /\ held[s][t] = None
        BY <1>0, <1>11, <3>2 DEF OfTickets, FreshIsUntouched
      <4> QED
        BY <1>5, <2>2, <2>4, <3>2, <4>1
    <3> QED
      BY <1>5, <2>4, <3>1, <3>2
  <2> QED
    BY <2>1, <2>3, <2>4
<1>14. ClosesOnlyClosed'
  <2> SUFFICES ASSUME NEW s \in Slaves, NEW cmd \in commands'[s], cmd.action = "CLOSE"
               PROVE  cmd.ticket \in gone
    BY <1>4 DEF ClosesOnlyClosed
  <2>1. CASE cmd \in commands[s]
    BY <1>0, <2>1 DEF OfTickets, ClosesOnlyClosed
  <2>2. CASE cmd \notin commands[s]
    <3>1. prev[cmd.ticket] # None /\ curr[cmd.ticket] = None
      BY <1>5, <2>2
    <3> QED
      BY <3>1, <1>0, <1>1, <1>6 DEF Order, ClosedFrom
  <2> QED
    BY <2>1, <2>2
<1> QED
  BY <1>1, <1>3, <1>7, <1>8, <1>9, <1>12, <1>13, <1>14 DEF SysInv

(* The ticket and the volume matter only in the answer to a filled OPEN.   *)
LEMMA AckIgnores ==
  ASSUME NEW s, NEW cmd, NEW ok, NEW st, NEW fill, NEW st2, NEW fill2,
         ~(ok /\ cmd.action = "OPEN"), ApplyAck(s, cmd, ok, st, fill)
  PROVE  ApplyAck(s, cmd, ok, st2, fill2)
<1>1. Freed(cmd, ok, st, fill, table[s][cmd.ticket])
        = Freed(cmd, ok, st2, fill2, table[s][cmd.ticket])
  BY DEF Freed, AckedRecord
<1> QED
  BY <1>1 DEF ApplyAck

LEMMA AnswerIsAck ==
  ASSUME Calm, Answered, NEW s \in Slaves, NEW a \in answers[s],
         ApplyAck(s, a.cmd, a.ok, a.slave_ticket, a.fill)
  PROVE  /\ a.cmd \in commands[s] /\ a.ok \in BOOLEAN
         /\ \E st \in SlaveTickets, fill \in Fills : ApplyAck(s, a.cmd, a.ok, st, fill)
<1>1. a.cmd \in commands[s] /\ a.ok \in BOOLEAN
  BY DEF Answered, Answer
<1>2. CASE a.ok /\ a.cmd.action = "OPEN"
  BY <1>1, <1>2 DEF Answered
<1>3. CASE ~(a.ok /\ a.cmd.action = "OPEN")
  <2>1. PICK st \in SlaveTickets, fill \in Fills : TRUE
    BY DEF Calm
  <2>2. ApplyAck(s, a.cmd, a.ok, st, fill)
    BY <1>3, AckIgnores
  <2> QED
    BY <1>1, <2>2
<1> QED
  BY <1>2, <1>3

LEMMA ReadsAnswerKeeps ==
  ASSUME Calm, SysInv, NEW s \in Slaves, NEW t \in Tickets, ReadsAnswer(s, t)
  PROVE  SysInv'
<1>0. Typed /\ Order /\ OfTickets /\ IInv /\ Driven /\ SysTypeOK /\ Answered
  BY SysInvParts DEF Typed
<1>1. PICK a \in answers[s] :
        /\ a.cmd.ticket = t
        /\ answers' = [answers EXCEPT ![s] = @ \ {a}]
        /\ ApplyAck(s, a.cmd, a.ok, a.slave_ticket, a.fill)
        /\ missed' = missed \cup {<< s, t, kind >> : kind \in Refused(s, t, a)}
        /\ UNCHANGED << master, gone, snapshots, terminal, spent, recovery, crashes >>
  BY DEF ReadsAnswer
<1> DEFINE cmd == a.cmd
<1>2. /\ cmd \in commands[s] /\ a.ok \in BOOLEAN
      /\ \E st \in SlaveTickets, fill \in Fills : ApplyAck(s, cmd, a.ok, st, fill)
  BY <1>0, <1>1, AnswerIsAck
<1>4. PICK st \in SlaveTickets, fill \in Fills : ApplyAck(s, cmd, a.ok, st, fill)
  BY <1>2
<1> HIDE DEF cmd
<1>5. IInv'
  <2>1. ApplyAckOf(s, t)
    BY <1>1, <1>2, <1>4 DEF ApplyAckOf, cmd
  <2> QED
    BY <1>0, <2>1, StepIInv DEF Next
<1>6. /\ \A r \in Slaves \ {s} : commands'[r] = commands[r]
      /\ \A c \in commands'[s] :
           c \in commands[s] \ {cmd} \/ (c.ticket = t /\ ReleasedBy(s, c))
      /\ \A r \in Slaves, u \in Tickets : (r # s \/ u # t) => Unmoved(r, u)
      /\ held'[s][t] # None =>
           held'[s][t] = held[s][t] /\ held[s][t].kind = "NEW"
  <2>1. cmd.ticket = t
    BY <1>1 DEF cmd
  <2> QED
    BY <2>1, <1>0, <1>2, <1>4, ApplyAckDoes DEF Calm
<1>7. /\ UNCHANGED << prev, lastNow, config, balance, up, recovered >>
      /\ \A r \in Slaves : commands[r] \ {cmd} \subseteq commands'[r]
  <2>1. commands \in [Slaves -> SUBSET Command]
    BY <1>0 DEF IInv, TypeOK
  <2> QED
    BY <2>1, <1>4 DEF ApplyAck
<1>8. t \in pending[s] /\ ~Fresh(t)
  <2>1. t \in pending[s]
    BY <1>0, <1>1, <1>2 DEF IInv, CommandsOK, cmd
  <2> QED
    BY <2>1, <1>0 DEF OfTickets, FreshIsUntouched
<1>9. ~(held[s][t] # None /\ held[s][t].kind = "NEW")
  BY <1>0, <1>8 DEF OfTickets, OneCopy
<1>10. /\ \A r \in Slaves : answers'[r] \subseteq answers[r]
       /\ \A r \in Slaves \ {s} : answers'[r] = answers[r]
       /\ \A b \in answers[s] : b \in answers'[s] \/ b.cmd = cmd
       /\ \A b \in answers'[s] : b.cmd # cmd
       /\ answers' \in [Slaves -> SUBSET Answer]
  <2>1. answers \in [Slaves -> SUBSET Answer]
    BY <1>0 DEF Answered
  <2>2. /\ answers'[s] = answers[s] \ {a}
        /\ \A r \in Slaves \ {s} : answers'[r] = answers[r]
        /\ answers' \in [Slaves -> SUBSET Answer]
    BY <1>1, <2>1
  <2>3. \A b \in answers[s] : b.cmd = cmd => b = a
    BY <1>0 DEF Answered, cmd
  <2> QED
    BY <2>2, <2>3 DEF cmd
<1>11. Answered'
  <2>1. \A r \in Slaves : \A b \in answers'[r] :
          /\ b.cmd \in commands'[r]
          /\ (b.ok /\ b.cmd.action = "OPEN") =>
               b.slave_ticket \in SlaveTickets /\ b.fill \in Fills
    BY <1>0, <1>6, <1>7, <1>10 DEF Answered
  <2>2. \A r \in Slaves : \A b, c \in answers'[r] : b.cmd = c.cmd => b = c
    BY <1>0, <1>10 DEF Answered
  <2> QED
    BY <1>10, <2>1, <2>2 DEF Answered
<1>12. SysTypeOK'
  <2>1. \A r \in Slaves : \A b \in answers'[r] :
          /\ b.cmd \in commands'[r] /\ b.ok \in BOOLEAN
          /\ b.slave_ticket \in SlaveTickets \cup {0}
    <3>1. \A r \in Slaves : \A b \in answers'[r] : b \in Answer
      BY <1>10
    <3> QED
      BY <3>1, <1>11 DEF Answer, Answered
  <2>2. missed' \subseteq Slaves \X Tickets \X {"MODIFY", "CLOSE"}
    BY <1>0, <1>1 DEF SysTypeOK, Refused
  <2> QED
    BY <1>0, <1>1, <2>1, <2>2 DEF SysTypeOK
<1>13. Driven'
  <2>1. \A r \in Slaves : \A c \in commands'[r] : c.action = "OPEN" => c.volume \in Fills
    BY <1>0, <1>6 DEF Driven, ReleasedBy
  <2> QED
    BY <1>0, <1>1, <1>7, <2>1 DEF Driven
<1>14. Order' /\ Forward
  BY <1>0, <1>1, <1>7, OrderStays
<1>15. \A r \in Slaves, u \in Tickets : CopiesOf(r, u)' = CopiesOf(r, u)
  BY <1>1 DEF CopiesOf
<1>16. FreshIsUntouched'
  <2>1. \A u \in Tickets : (Fresh(u)' => Fresh(u)) /\ (OpenedBy(u, 1) => OpenedBy(u, 1)')
    BY <1>7, <1>14 DEF Fresh, Forward
  <2> SUFFICES ASSUME NEW r \in Slaves, NEW u \in Tickets, Fresh(u)
               PROVE  /\ u \notin pending'[r] /\ held'[r][u] = None
                      /\ CopiesOf(r, u) # {} =>
                           /\ lastNow = 0 /\ up[r] /\ recovered[r]
                           /\ table'[r][u] # None /\ OpenedBy(u, 1)'
    BY <1>7, <1>15, <2>1 DEF FreshIsUntouched
  <2>2. Unmoved(r, u)
    BY <1>6, <1>8
  <2> QED
    BY <1>0, <2>1, <2>2 DEF Unmoved, OfTickets, FreshIsUntouched
<1>17. OneCopy'
  <2> SUFFICES ASSUME NEW r \in Slaves, NEW u \in Tickets
               PROVE  /\ \A x, y \in CopiesOf(r, u) : x = y
                      /\ \A c \in commands'[r] :
                           (/\ c.ticket = u /\ c.action = "OPEN"
                            /\ \A b \in answers'[r] : b.cmd # c)
                             => CopiesOf(r, u) = {}
                      /\ (held'[r][u] # None /\ held'[r][u].kind = "NEW") =>
                           /\ u \notin pending'[r]
                           /\ CopiesOf(r, u) = {} \/ table'[r][u] # None
    BY <1>15 DEF OneCopy
  <2>1. \A x, y \in CopiesOf(r, u) : x = y
    BY <1>0 DEF OfTickets, OneCopy
  <2>2. ASSUME NEW c \in commands'[r], c.ticket = u, c.action = "OPEN",
               \A b \in answers'[r] : b.cmd # c
        PROVE  CopiesOf(r, u) = {}
    <3>1. CASE c \in commands[r] /\ (r = s => c # cmd)
      <4>1. \A b \in answers[r] : b.cmd # c
        BY <1>10, <2>2, <3>1
      <4> QED
        BY <1>0, <2>2, <3>1, <4>1 DEF OfTickets, OneCopy
    <3>2. CASE r = s /\ c.ticket = t /\ ReleasedBy(s, c)
      BY <1>9, <2>2, <3>2 DEF ReleasedBy
    <3> QED
      BY <1>6, <2>2, <3>1, <3>2
  <2>3. ASSUME held'[r][u] # None, held'[r][u].kind = "NEW"
        PROVE  /\ u \notin pending'[r]
               /\ CopiesOf(r, u) = {} \/ table'[r][u] # None
    <3>1. Unmoved(r, u)
      BY <1>6, <1>9, <2>3
    <3> QED
      BY <1>0, <2>3, <3>1 DEF Unmoved, OfTickets, OneCopy
  <2> QED
    BY <2>1, <2>2, <2>3
<1>18. ClosesOnlyClosed'
  <2> SUFFICES ASSUME NEW r \in Slaves, NEW c \in commands'[r], c.action = "CLOSE"
               PROVE  c.ticket \in gone
    BY <1>1 DEF ClosesOnlyClosed
  <2>1. CASE c \in commands[r]
    BY <1>0, <2>1 DEF OfTickets, ClosesOnlyClosed
  <2>2. CASE r = s /\ c.ticket = t /\ ReleasedBy(s, c)
    <3>1. held[s][t] # None /\ held[s][t].kind = "CLOSE"
      BY <2>2 DEF ReleasedBy
    <3>2. prev[t] = None
      BY <3>1, <1>0 DEF IInv, CellsOK, CellOK, Agrees, Cell
    <3> QED
      BY <2>2, <3>2, <1>8 DEF Fresh, ClosedFrom
  <2> QED
    BY <1>6, <2>1, <2>2
<1> QED
  BY <1>5, <1>11, <1>12, <1>13, <1>14, <1>16, <1>17, <1>18 DEF SysInv

LEMMA ReadsInfoKeeps ==
  ASSUME Calm, SysInv, NEW s \in Slaves, ReadsInfo(s)
  PROVE  SysInv'
<1>0. Typed /\ Order /\ OfTickets /\ IInv /\ Driven /\ SysTypeOK /\ Answered
  BY SysInvParts DEF Typed
<1>1. PICK found \in SUBSET Symbols : ApplySymbolInfo(s, found)
  BY DEF ReadsInfo, ApplySomeSymbolInfo
<1>2. IInv'
  BY <1>0, <1>1, StepIInv DEF Next, ApplySomeSymbolInfo
<1>3. /\ \A r \in Slaves \ {s} : commands'[r] = commands[r]
      /\ \A c \in commands'[s] \ commands[s] :
           /\ ReleasedBy(s, c) /\ c.ticket \notin pending[s]
           /\ c.action = "OPEN" => table[s][c.ticket] = None
      /\ \A r \in Slaves, t \in Tickets :
           \/ Unmoved(r, t)
           \/ /\ r = s /\ held[s][t] # None /\ t \notin pending[s]
              /\ held'[s][t] # None =>
                   /\ held'[s][t] = held[s][t] /\ held[s][t].kind = "NEW"
                   /\ table[s][t] = None /\ t \notin pending'[s]
  BY <1>0, <1>1, ApplySymbolInfoDoes DEF Calm
<1>4. /\ UNCHANGED << master, gone, snapshots, terminal, spent, recovery, answers,
                      crashes, missed, prev, lastNow, config, balance, up, recovered >>
      /\ \A r \in Slaves : commands[r] \subseteq commands'[r]
  <2>1. commands \in [Slaves -> SUBSET Command]
    BY <1>0 DEF IInv, TypeOK
  <2> QED
    BY <2>1, <1>1 DEF ReadsInfo, outsideVars, ApplySymbolInfo
<1>5. \A c \in commands'[s] : c.ticket \in Tickets
  BY <1>2, CommandTicket DEF IInv, TypeOK
<1>6. SysTypeOK'
  BY <1>0, <1>4 DEF SysTypeOK
<1>7. Driven'
  <2>1. \A r \in Slaves : \A c \in commands'[r] : c.action = "OPEN" => c.volume \in Fills
    BY <1>0, <1>3 DEF Driven, ReleasedBy
  <2> QED
    BY <1>0, <1>4, <2>1 DEF Driven
<1>8. Answered'
  BY <1>0, <1>4 DEF Answered
<1>9. Order' /\ Forward
  BY <1>0, <1>4, OrderStays
<1>10. \A r \in Slaves, t \in Tickets : CopiesOf(r, t)' = CopiesOf(r, t)
  BY <1>4 DEF CopiesOf
<1>11. FreshIsUntouched'
  <2>1. \A t \in Tickets : (Fresh(t)' => Fresh(t)) /\ (OpenedBy(t, 1) => OpenedBy(t, 1)')
    BY <1>4, <1>9 DEF Fresh, Forward
  <2> SUFFICES ASSUME NEW r \in Slaves, NEW t \in Tickets, Fresh(t)
               PROVE  /\ t \notin pending'[r] /\ held'[r][t] = None
                      /\ CopiesOf(r, t) # {} =>
                           /\ lastNow = 0 /\ up[r] /\ recovered[r]
                           /\ table'[r][t] # None /\ OpenedBy(t, 1)'
    BY <1>4, <1>10, <2>1 DEF FreshIsUntouched
  <2>2. held[r][t] = None
    BY <1>0 DEF OfTickets, FreshIsUntouched
  <2>3. Unmoved(r, t)
    BY <1>3, <2>2
  <2> QED
    BY <1>0, <2>1, <2>3 DEF Unmoved, OfTickets, FreshIsUntouched
<1>12. OneCopy'
  <2> SUFFICES ASSUME NEW r \in Slaves, NEW t \in Tickets
               PROVE  /\ \A x, y \in CopiesOf(r, t) : x = y
                      /\ \A c \in commands'[r] :
                           (/\ c.ticket = t /\ c.action = "OPEN"
                            /\ \A a \in answers[r] : a.cmd # c)
                             => CopiesOf(r, t) = {}
                      /\ (held'[r][t] # None /\ held'[r][t].kind = "NEW") =>
                           /\ t \notin pending'[r]
                           /\ CopiesOf(r, t) = {} \/ table'[r][t] # None
    BY <1>4, <1>10 DEF OneCopy
  <2>1. \A x, y \in CopiesOf(r, t) : x = y
    BY <1>0 DEF OfTickets, OneCopy
  <2>2. (/\ held[r][t] # None /\ held[r][t].kind = "NEW" /\ table[r][t] = None)
          => CopiesOf(r, t) = {}
    BY <1>0 DEF OfTickets, OneCopy
  <2>3. ASSUME NEW c \in commands'[r], c.ticket = t, c.action = "OPEN",
               \A a \in answers[r] : a.cmd # c
        PROVE  CopiesOf(r, t) = {}
    <3>1. CASE c \in commands[r]
      BY <1>0, <2>3, <3>1 DEF OfTickets, OneCopy
    <3>2. CASE c \notin commands[r]
      BY <1>3, <2>2, <2>3, <3>2 DEF ReleasedBy
    <3> QED
      BY <3>1, <3>2
  <2>4. ASSUME held'[r][t] # None, held'[r][t].kind = "NEW"
        PROVE  /\ t \notin pending'[r]
               /\ CopiesOf(r, t) = {} \/ table'[r][t] # None
    <3>1. CASE Unmoved(r, t)
      BY <1>0, <2>4, <3>1 DEF Unmoved, OfTickets, OneCopy
    <3>2. CASE ~Unmoved(r, t)
      BY <1>3, <2>2, <2>4, <3>2
    <3> QED
      BY <3>1, <3>2
  <2> QED
    BY <2>1, <2>3, <2>4
<1>13. ClosesOnlyClosed'
  <2> SUFFICES ASSUME NEW r \in Slaves, NEW c \in commands'[r], c.action = "CLOSE"
               PROVE  c.ticket \in gone
    BY <1>4 DEF ClosesOnlyClosed
  <2>1. CASE c \in commands[r]
    BY <1>0, <2>1 DEF OfTickets, ClosesOnlyClosed
  <2>2. CASE r = s /\ c \notin commands[s]
    <3> DEFINE t == c.ticket
    <3>1. t \in Tickets /\ held[s][t] # None /\ held[s][t].kind = "CLOSE"
      BY <1>3, <1>5, <2>2 DEF ReleasedBy
    <3>2. prev[t] = None
      BY <3>1, <1>0 DEF IInv, CellsOK, CellOK, Agrees, Cell
    <3>3. ~Fresh(t)
      BY <3>1, <1>0 DEF OfTickets, FreshIsUntouched
    <3> QED
      BY <3>2, <3>3 DEF Fresh, ClosedFrom
  <2> QED
    BY <1>3, <2>1, <2>2
<1> QED
  BY <1>2, <1>6, <1>7, <1>8, <1>9, <1>11, <1>12, <1>13 DEF SysInv

(* A worker's records, its loss and its restart: the table of its slave    *)
(* changes, nothing is sent.                                               *)
LEMMA ReadsRecoveryKeeps ==
  ASSUME SysInv, NEW s \in Slaves, ReadsRecovery(s)
  PROVE  SysInv'
<1>0. Typed /\ Order /\ OfTickets /\ IInv /\ Driven /\ SysTypeOK /\ Answered
  BY SysInvParts DEF Typed
<1>1. recovery[s] \in SeededTables /\ ApplyRecovery(s, recovery[s])
  BY <1>0 DEF ReadsRecovery, SysTypeOK
<1>2. IInv'
  BY <1>0, <1>1, StepIInv DEF Next
<1>3. /\ UNCHANGED << master, gone, snapshots, terminal, spent, answers, crashes,
                      missed, prev, lastNow, config, balance, pending, held, up,
                      commands >>
      /\ recovery' = [recovery EXCEPT ![s] = NoPositions]
      /\ ~recovered[s]
  BY <1>1 DEF ReadsRecovery, ApplyRecovery, engineVars
<1>4. recovery' \in [Slaves -> SeededTables \cup {None}]
  <2>1. NoPositions \in SeededTables
    BY DEF NoPositions, SeededTables
  <2> QED
    BY <1>0, <1>3, <2>1 DEF Driven
<1>5. \A r \in Slaves :
        /\ r # s => recovered'[r] = recovered[r]
        /\ \A t \in Tickets : table[r][t] # None => table'[r][t] # None
  <2>1. /\ table \in [Slaves -> [Tickets -> Record \cup {None}]]
        /\ recovered \in [Slaves -> BOOLEAN]
    BY <1>0 DEF IInv, TypeOK
  <2> QED
    BY <1>1, <2>1 DEF ApplyRecovery
<1>6. SysTypeOK'
  <2>1. \A r \in Slaves : recovery'[r] = None \/ recovery'[r] \in SeededTables
    BY <1>4
  <2> QED
    BY <1>0, <1>3, <2>1 DEF SysTypeOK
<1>7. Driven' /\ Answered'
  BY <1>0, <1>3, <1>4 DEF Driven, Answered
<1>8. Order' /\ Forward
  BY <1>0, <1>3, OrderStays
<1>9. \A r \in Slaves, t \in Tickets : CopiesOf(r, t)' = CopiesOf(r, t)
  BY <1>3 DEF CopiesOf
<1>10. FreshIsUntouched'
  <2>1. \A t \in Tickets : (Fresh(t)' => Fresh(t)) /\ (OpenedBy(t, 1) => OpenedBy(t, 1)')
    BY <1>3, <1>8 DEF Fresh, Forward
  <2> SUFFICES ASSUME NEW r \in Slaves, NEW t \in Tickets, Fresh(t)
               PROVE  /\ t \notin pending[r] /\ held[r][t] = None
                      /\ CopiesOf(r, t) # {} =>
                           /\ lastNow = 0 /\ up[r] /\ recovered'[r]
                           /\ table'[r][t] # None /\ OpenedBy(t, 1)'
    BY <1>3, <1>9, <2>1 DEF FreshIsUntouched
  <2> QED
    BY <1>0, <1>3, <1>5, <2>1 DEF OfTickets, FreshIsUntouched
<1>11. OneCopy'
  BY <1>0, <1>3, <1>5, <1>9 DEF OfTickets, OneCopy
<1>12. ClosesOnlyClosed'
  BY <1>0, <1>3 DEF OfTickets, ClosesOnlyClosed
<1> QED
  BY <1>2, <1>6, <1>7, <1>8, <1>10, <1>11, <1>12 DEF SysInv

LEMMA LosesWorkerKeeps ==
  ASSUME Calm, SysInv, NEW s \in Slaves, LosesWorker(s)
  PROVE  SysInv'
<1>0. Typed /\ Order /\ OfTickets /\ IInv /\ Driven /\ SysTypeOK /\ Answered
  BY SysInvParts DEF Typed
<1>1. IInv'
  BY <1>0, StepIInv DEF Next, LosesWorker
<1>2. /\ UNCHANGED << master, gone, snapshots, terminal, spent, prev, lastNow,
                      config, balance, table, pending, held, recovered >>
      /\ lastNow # 0
      /\ commands' = [commands EXCEPT ![s] = {}]
      /\ answers' = [answers EXCEPT ![s] = {}]
      /\ recovery' = [recovery EXCEPT ![s] = None]
      /\ crashes < MaxCrashes /\ crashes' = crashes + 1
  BY DEF LosesWorker, LoseWorker, Calm, engineVars, slaveVars
<1>3. /\ answers' \in [Slaves -> SUBSET Answer]
      /\ commands' \in [Slaves -> SUBSET Command]
      /\ recovery' \in [Slaves -> SeededTables \cup {None}]
      /\ answers'[s] = {} /\ commands'[s] = {}
      /\ \A r \in Slaves \ {s} :
           answers'[r] = answers[r] /\ commands'[r] = commands[r]
  BY <1>0, <1>2 DEF Answered, Driven, IInv, TypeOK
<1>4. Answered'
  BY <1>0, <1>3 DEF Answered
<1>5. SysTypeOK'
  <2>1. missed' \subseteq Slaves \X Tickets \X {"MODIFY", "CLOSE"}
    <3>1. \A t \in Tickets : LostKinds(s, t) \subseteq {"MODIFY", "CLOSE"}
      BY DEF LostKinds, Owed
    <3>2. missed' = missed \cup
            UNION {{<< s, t, kind >> : kind \in LostKinds(s, t)} : t \in Tickets}
      BY DEF LosesWorker
    <3> HIDE DEF LostKinds
    <3> QED
      BY <1>0, <3>1, <3>2 DEF SysTypeOK
  <2>2. crashes' \in 0..MaxCrashes
    BY <1>0, <1>2, SystemConstants DEF SysTypeOK
  <2>3. \A r \in Slaves : recovery'[r] = None \/ recovery'[r] \in SeededTables
    BY <1>3
  <2>4. \A r \in Slaves : \A a \in answers'[r] :
          /\ a.cmd \in commands'[r] /\ a.ok \in BOOLEAN
          /\ a.slave_ticket \in SlaveTickets \cup {0}
    BY <1>0, <1>3 DEF SysTypeOK
  <2> QED
    BY <1>0, <1>2, <2>1, <2>2, <2>3, <2>4 DEF SysTypeOK
<1>6. Driven'
  BY <1>0, <1>2, <1>3 DEF Driven
<1>7. Order' /\ Forward
  BY <1>0, <1>2, OrderStays
<1>8. \A r \in Slaves, t \in Tickets : CopiesOf(r, t)' = CopiesOf(r, t)
  BY <1>2 DEF CopiesOf
<1>9. FreshIsUntouched'
  <2>1. \A t \in Tickets : Fresh(t)' => Fresh(t)
    BY <1>2, <1>7 DEF Fresh, Forward
  <2> QED
    BY <1>0, <1>2, <1>8, <2>1 DEF OfTickets, FreshIsUntouched
<1>10. OneCopy'
  BY <1>0, <1>2, <1>3, <1>8 DEF OfTickets, OneCopy
<1>11. ClosesOnlyClosed'
  BY <1>0, <1>2, <1>3 DEF OfTickets, ClosesOnlyClosed
<1> QED
  BY <1>1, <1>4, <1>5, <1>6, <1>7, <1>9, <1>10, <1>11 DEF SysInv

LEMMA RestartsWorkerKeeps ==
  ASSUME SysInv, NEW s \in Slaves, RestartsWorker(s)
  PROVE  SysInv'
<1>0. Typed /\ Order /\ OfTickets /\ IInv /\ Driven /\ SysTypeOK /\ Answered
  BY SysInvParts DEF Typed
<1>1. IInv'
  BY <1>0, StepIInv DEF Next, RestartsWorker
<1>2. /\ UNCHANGED << master, gone, snapshots, terminal, spent, recovery, answers,
                      crashes, missed, prev, lastNow, config, balance, commands >>
      /\ ~up[s]
  BY DEF RestartsWorker, RestartWorker, outsideVars, engineVars
<1>3. /\ pending'[s] = {} /\ \A t \in Tickets : held'[s][t] = None
      /\ \A r \in Slaves \ {s} :
           /\ up'[r] = up[r] /\ recovered'[r] = recovered[r] /\ table'[r] = table[r]
           /\ pending'[r] = pending[r] /\ held'[r] = held[r]
  <2>1. /\ table \in [Slaves -> [Tickets -> Record \cup {None}]]
        /\ held \in [Slaves -> [Tickets -> Event \cup {None}]]
        /\ pending \in [Slaves -> SUBSET Tickets]
        /\ up \in [Slaves -> BOOLEAN] /\ recovered \in [Slaves -> BOOLEAN]
    BY <1>0 DEF IInv, TypeOK
  <2> QED
    BY <2>1 DEF RestartsWorker, RestartWorker
<1>4. SysTypeOK' /\ Driven' /\ Answered'
  BY <1>0, <1>2 DEF SysTypeOK, Driven, Answered
<1>5. Order' /\ Forward
  BY <1>0, <1>2, OrderStays
<1>6. \A r \in Slaves, t \in Tickets : CopiesOf(r, t)' = CopiesOf(r, t)
  BY <1>2 DEF CopiesOf
<1>7. FreshIsUntouched'
  <2>1. \A t \in Tickets : (Fresh(t)' => Fresh(t)) /\ (OpenedBy(t, 1) => OpenedBy(t, 1)')
    BY <1>2, <1>5 DEF Fresh, Forward
  <2> SUFFICES ASSUME NEW r \in Slaves, NEW t \in Tickets, Fresh(t)
               PROVE  /\ t \notin pending'[r] /\ held'[r][t] = None
                      /\ CopiesOf(r, t) # {} =>
                           /\ lastNow = 0 /\ up'[r] /\ recovered'[r]
                           /\ table'[r][t] # None /\ OpenedBy(t, 1)'
    BY <1>2, <1>6, <2>1 DEF FreshIsUntouched
  <2>2. CASE r = s
    BY <2>2, <1>0, <1>2, <1>3 DEF OfTickets, FreshIsUntouched
  <2>3. CASE r # s
    BY <2>3, <1>0, <1>3, <2>1 DEF OfTickets, FreshIsUntouched
  <2> QED
    BY <2>2, <2>3
<1>8. OneCopy'
  BY <1>0, <1>2, <1>3, <1>6 DEF OfTickets, OneCopy
<1>9. ClosesOnlyClosed'
  BY <1>0, <1>2 DEF OfTickets, ClosesOnlyClosed
<1> QED
  BY <1>1, <1>4, <1>5, <1>7, <1>8, <1>9 DEF SysInv

(* The manager starts again: what the terminals hold is in the tables.     *)
LEMMA RestartsManagerKeeps ==
  ASSUME SysInv, RestartsManager
  PROVE  SysInv'
<1>0. Typed /\ Order /\ OfTickets /\ IInv /\ Driven /\ SysTypeOK /\ Answered
  BY SysInvParts DEF Typed
<1>1. /\ UNCHANGED << config, balance, master, gone, terminal, spent >>
      /\ missed' = {}
      /\ prev' = NoPositions /\ lastNow' = 0 /\ snapshots' = << >>
      /\ table' = [s \in Slaves |-> Records(s)]
      /\ pending' = [s \in Slaves |-> {}] /\ held' = [s \in Slaves |-> NoPositions]
      /\ up' = [s \in Slaves |-> TRUE] /\ recovered' = [s \in Slaves |-> TRUE]
      /\ commands' = [s \in Slaves |-> {}] /\ asked' = [s \in Slaves |-> << >>]
      /\ infoRequests' = [s \in Slaves |-> {}]
      /\ infoInflight' = [s \in Slaves |-> {}]
      /\ confirmedMissing' = [s \in Slaves |-> {}]
      /\ symbolInfos' \in [Slaves -> Reports]
      /\ answers' = [s \in Slaves |-> {}]
      /\ recovery' = [s \in Slaves |-> NoPositions]
      /\ crashes < MaxCrashes /\ crashes' = crashes + 1
  BY DEF RestartsManager
<1>2. \A s \in Slaves :
        /\ Records(s) \in SeededTables
        /\ \A t \in Tickets : Records(s)[t] # None <=> CopiesOf(s, t) # {}
  BY <1>0, RecordsSeeded DEF OfTickets
<1>3. IInv'
  <2>1. \A r \in [slave_ticket : SlaveTickets, master_open_volume : Volumes,
                  slave_open_volume : Fills] :
          r \in Record /\ r.slave_ticket # 0
    BY ConstantsOK, ConstantTypes DEF Record
  <2>2. \A f \in SeededTables :
          /\ f \in [Tickets -> Record \cup {None}]
          /\ \A t \in Tickets : ~IsMarker(f[t])
    BY <2>1 DEF SeededTables, IsMarker
  <2>3. /\ table' \in [Slaves -> [Tickets -> Record \cup {None}]]
        /\ \A s \in Slaves, t \in Tickets : ~IsMarker(table'[s][t])
    <3>1. \A s \in Slaves : table'[s] = Records(s)
      BY <1>1
    <3> QED
      BY <1>1, <1>2, <2>2, <3>1
  <2>4. TypeOK'
    <3>1. symbolInfos' \in [Slaves -> SUBSET Symbols]
      <4>1. \A f \in [Slaves -> Reports] : f \in [Slaves -> SUBSET Symbols]
        BY SystemConstants
      <4> QED
        BY <1>1, <4>1
    <3>2. config' \in [Slaves -> Config] /\ balance' \in [Slaves -> Int]
      BY <1>0, <1>1 DEF IInv, TypeOK
    <3> QED
      BY <1>1, <2>3, <3>1, <3>2 DEF TypeOK, NoPositions
  <2>5. CellsOK'
    <3> SUFFICES ASSUME NEW s \in Slaves, NEW t \in Tickets
                 PROVE  CellOK(Cell(s, t)', prev'[t])
      BY DEF CellsOK
    <3>1. /\ Cell(s, t)'.record = table'[s][t]
          /\ Cell(s, t)'.held = held'[s][t]
          /\ Cell(s, t)'.pending <=> t \in pending'[s]
      BY DEF Cell
    <3>2. held'[s][t] = None /\ t \notin pending'[s]
      BY <1>1 DEF NoPositions
    <3>3. ~IsMarker(Cell(s, t)'.record)
      BY <2>3, <3>1
    <3> QED
      BY <3>1, <3>2, <3>3 DEF CellOK, MarkerOK
  <2>6. CommandsOK' /\ DownIsSilent' /\ NoStuckHold'
    BY <1>1 DEF CommandsOK, DownIsSilent, NoStuckHold, NoPositions
  <2> QED
    BY <2>4, <2>5, <2>6 DEF IInv
<1>4. recovery' \in [Slaves -> SeededTables \cup {None}]
  <2>1. NoPositions \in SeededTables
    BY DEF NoPositions, SeededTables
  <2> QED
    BY <1>1, <2>1
<1>5. SysTypeOK'
  <2>1. crashes' \in 0..MaxCrashes
    BY <1>0, <1>1, SystemConstants DEF SysTypeOK
  <2>2. \A s \in Slaves : recovery'[s] = None \/ recovery'[s] \in SeededTables
    BY <1>4
  <2>3. snapshots' \in Seq(Snapshots)
    BY <1>1
  <2> QED
    BY <1>0, <1>1, <2>1, <2>2, <2>3 DEF SysTypeOK
<1>6. Driven' /\ Answered'
  BY <1>0, <1>1, <1>4 DEF Driven, Answered
<1>7. \A s \in Slaves, t \in Tickets : CopiesOf(s, t)' = CopiesOf(s, t)
  BY <1>1 DEF CopiesOf
<1>8. \A t \in Tickets : (master[t] = None => t \in gone) => OpenedBy(t, 1)'
  BY <1>1 DEF OpenedBy
<1>9. Order'
  BY <1>0, <1>1 DEF Order, NoPositions
<1>10. FreshIsUntouched'
  <2> SUFFICES ASSUME NEW s \in Slaves, NEW t \in Tickets, CopiesOf(s, t) # {}
               PROVE  table'[s][t] # None /\ OpenedBy(t, 1)'
    BY <1>1, <1>7 DEF FreshIsUntouched, NoPositions
  <2>1. table'[s][t] # None
    BY <1>1, <1>2
  <2>2. master[t] = None => t \in gone
    <3>1. CASE prev[t] # None \/ Fresh(t)
      <4>1. OpenedBy(t, 1)
        BY <1>0, <3>1 DEF Order, OfTickets, FreshIsUntouched
      <4> QED
        BY <4>1 DEF OpenedBy
    <3>2. CASE ClosedFrom(t, 1)
      BY <3>2 DEF ClosedFrom
    <3> QED
      BY <3>1, <3>2 DEF Fresh
  <2> QED
    BY <1>8, <2>1, <2>2
<1>11. OneCopy'
  <2> SUFFICES ASSUME NEW s \in Slaves, NEW t \in Tickets
               PROVE  /\ \A x, y \in CopiesOf(s, t) : x = y
                      /\ commands'[s] = {} /\ held'[s][t] = None
    BY <1>7 DEF OneCopy
  <2> QED
    BY <1>0, <1>1 DEF OfTickets, OneCopy, NoPositions
<1>12. ClosesOnlyClosed'
  BY <1>1 DEF ClosesOnlyClosed
<1> QED
  BY <1>3, <1>5, <1>6, <1>9, <1>10, <1>11, <1>12 DEF SysInv

-----------------------------------------------------------------------------
LEMMA SysInitInv == SysInit => SysInv
<1> SUFFICES ASSUME SysInit PROVE SysInv
  OBVIOUS
<1>1. IInv
  BY InitIInv DEF SysInit
<1>2. NoPositions \in SeededTables
  BY DEF NoPositions, SeededTables
<1>3. /\ terminal = [s \in Slaves |-> [x \in SlaveTickets |-> None]]
      /\ commands = [s \in Slaves |-> {}] /\ answers = [s \in Slaves |-> {}]
      /\ recovery = [s \in Slaves |-> NoPositions]
      /\ spent = [s \in Slaves |-> {}]
      /\ pending = [s \in Slaves |-> {}]
      /\ held = [s \in Slaves |-> [t \in Tickets |-> None]]
      /\ prev = NoPositions /\ master = NoPositions /\ gone = {}
      /\ snapshots = << >> /\ crashes = 0 /\ missed = {}
      /\ config \in [Slaves -> Configs] /\ balance \in [Slaves -> Balances]
  BY DEF SysInit, Init, NoPositions
<1>4. SysTypeOK
  <2>1. crashes \in 0..MaxCrashes
    BY <1>3, SystemConstants
  <2>2. master \in [Tickets -> Position \cup {None}] /\ snapshots \in Seq(Snapshots)
    BY <1>3 DEF NoPositions
  <2> QED
    BY <1>2, <1>3, <2>1, <2>2 DEF SysTypeOK
<1>5. Driven /\ Answered
  BY <1>2, <1>3 DEF Driven, Answered
<1>6. Order
  BY <1>3 DEF Order, NoPositions
<1>7. \A s \in Slaves, t \in Tickets : CopiesOf(s, t) = {}
  BY <1>3 DEF CopiesOf
<1>8. FreshIsUntouched /\ OneCopy /\ ClosesOnlyClosed
  BY <1>3, <1>7 DEF FreshIsUntouched, OneCopy, ClosesOnlyClosed
<1> QED
  BY <1>1, <1>4, <1>5, <1>6, <1>8 DEF SysInv

LEMMA SysStep ==
  ASSUME Calm, SysInv, [SysNext]_sysVars
  PROVE  SysInv'
<1>1. CASE (\E t \in Tickets : MasterTrades(t)) \/ Sends \/ LosesMaster
  BY <1>1, MasterKeeps
<1>2. CASE ReadsSnapshot \/ RestartsManager
  BY <1>2, ReadsSnapshotKeeps, RestartsManagerKeeps
<1>3. ASSUME NEW s \in Slaves,
             \/ Connects(s)
             \/ \E cmd \in commands[s] : Executes(s, cmd)
             \/ \E x \in SlaveTickets : BrokerCloses(s, x)
      PROVE  SysInv'
  BY <1>3, ConnectsKeeps, ExecutesKeeps, BrokerClosesKeeps
<1>4. ASSUME NEW s \in Slaves,
             \/ \E t \in Tickets : ReadsAnswer(s, t)
             \/ ReadsRecovery(s) \/ ReadsInfo(s)
             \/ LosesWorker(s) \/ RestartsWorker(s)
      PROVE  SysInv'
  BY <1>4, ReadsAnswerKeeps, ReadsRecoveryKeeps, ReadsInfoKeeps,
     LosesWorkerKeeps, RestartsWorkerKeeps
<1>5. CASE UNCHANGED sysVars
  <2>0. Typed /\ Order /\ OfTickets
    BY SysInvParts
  <2>1. /\ UNCHANGED << vars, master, gone, snapshots, terminal, spent, recovery,
                        answers, crashes, missed >>
        /\ prev' = prev
    BY <1>5 DEF sysVars, outsideVars, vars, engineVars
  <2>2. Typed'
    BY <2>0, <2>1, MasterTypes DEF Typed, SysTypeOK, Snapshots
  <2>3. Order' /\ Forward
    BY <2>0, <2>1, OrderStays
  <2>4. OfTickets'
    BY <2>0, <2>1, <2>3, TicketsStay DEF CopiesOf
  <2> QED
    BY <2>2, <2>3, <2>4 DEF SysInv, Typed, OfTickets
<1> QED
  BY <1>1, <1>2, <1>3, <1>4, <1>5 DEF SysNext

(* Every step is one of the engine's, a restart of the manager, or none.   *)
LEMMA SysStepIsEngines ==
  ASSUME Calm, SysInv, SysNext
  PROVE  Next \/ RestartsManager \/ UNCHANGED vars
<1>0. SysTypeOK /\ Order /\ Answered
  BY DEF SysInv
<1>1. CASE (\E t \in Tickets : MasterTrades(t)) \/ Sends \/ LosesMaster
  BY <1>1 DEF MasterTrades, Sends, LosesMaster
<1>2. CASE ReadsSnapshot
  <2>1. Head(snapshots) \in Snapshots
    BY <1>0, <1>2, ReadsSnapshotOrder
  <2> QED
    BY <1>2, <2>1 DEF ReadsSnapshot, Next, ReadSomeSnapshot
<1>3. ASSUME NEW s \in Slaves,
             \/ Connects(s)
             \/ \E cmd \in commands[s] : Executes(s, cmd)
             \/ \E x \in SlaveTickets : BrokerCloses(s, x)
      PROVE  UNCHANGED vars
  BY <1>3 DEF Connects, Executes, BrokerCloses
<1>4. ASSUME NEW s \in Slaves, NEW t \in Tickets, ReadsAnswer(s, t)
      PROVE  Next
  <2>1. PICK a \in answers[s] :
          a.cmd.ticket = t /\ ApplyAck(s, a.cmd, a.ok, a.slave_ticket, a.fill)
    BY <1>4 DEF ReadsAnswer
  <2>2. /\ a.cmd \in commands[s] /\ a.ok \in BOOLEAN
        /\ \E st \in SlaveTickets, fill \in Fills : ApplyAck(s, a.cmd, a.ok, st, fill)
    BY <1>0, <2>1, AnswerIsAck
  <2>3. ApplyAckOf(s, t)
    BY <2>1, <2>2 DEF ApplyAckOf
  <2> QED
    BY <2>3 DEF Next
<1>5. ASSUME NEW s \in Slaves, ReadsRecovery(s)
      PROVE  Next
  <2>1. recovery[s] \in SeededTables
    BY <1>0, <1>5 DEF SysTypeOK, ReadsRecovery
  <2> QED
    BY <1>5, <2>1 DEF ReadsRecovery, Next
<1>6. ASSUME NEW s \in Slaves, ReadsInfo(s) \/ LosesWorker(s) \/ RestartsWorker(s)
      PROVE  Next
  BY <1>6 DEF ReadsInfo, LosesWorker, RestartsWorker, Next
<1> QED
  BY <1>1, <1>2, <1>3, <1>4, <1>5, <1>6 DEF SysNext

(* Everything above holds in every state that the copier can reach.        *)
THEOREM SysInvariance ==
  ASSUME Calm
  PROVE  SysSpec => []SysInv
<1>1. SysInit => SysInv
  BY SysInitInv
<1>2. SysInv /\ [SysNext]_sysVars => SysInv'
  BY SysStep
<1> QED
  BY <1>1, <1>2, PTL DEF SysSpec

(* README, restart recovery: "does not duplicate copied positions already  *)
(* open on a slave".  Whatever snapshots are lost, whenever workers die    *)
(* and the manager is restarted, and whenever answers are read: a slave    *)
(* never holds two copies of one position of the master.                   *)
THEOREM NeverTwoCopies ==
  ASSUME Calm
  PROVE  SysSpec => []NoDuplicates
<1>1. SysInv => NoDuplicates
  <2> SUFFICES ASSUME SysInv, NEW s \in Slaves, NEW t \in Tickets
               PROVE  Cardinality(CopiesOf(s, t)) <= 1
    BY DEF NoDuplicates
  <2>1. CASE CopiesOf(s, t) = {}
    BY <2>1, FS_EmptySet
  <2>2. CASE CopiesOf(s, t) # {}
    <3>1. PICK x \in CopiesOf(s, t) : CopiesOf(s, t) = {x}
      BY <2>2 DEF SysInv, OneCopy
    <3>2. Cardinality({x}) = 1
      BY ONLY FS_Singleton
    <3> QED
      BY ONLY <3>1, <3>2
  <2> QED
    BY <2>1, <2>2
<1> QED
  BY <1>1, SysInvariance, PTL

(* A slave is told to close a copy only if the master's position has been  *)
(* closed: neither a snapshot that is late or lost, nor a restart with an  *)
(* empty previous snapshot, makes the engine take a position for closed.   *)
THEOREM OnlyClosedAreClosed ==
  ASSUME Calm
  PROVE  SysSpec => []ClosesOnlyClosed
<1>1. SysInv => ClosesOnlyClosed
  BY DEF SysInv
<1> QED
  BY <1>1, SysInvariance, PTL

(* The environment that CopyEngine assumes is the one the terminals make:  *)
(* what a snapshot, an answer and a worker's records can say is within     *)
(* what CopyEngine allows for, so what is proved of its every step holds   *)
(* of the copier.                                                          *)
THEOREM TerminalsDriveTheEngine ==
  ASSUME Calm
  PROVE  SysSpec => EngineIsDriven
<1>1. SysInit => Init
  BY DEF SysInit
<1>2. SysInv => SysTypeOK
  BY DEF SysInv
<1>3. SysInv /\ SysInv' /\ [SysNext]_sysVars =>
        [SysTypeOK' /\ (Next \/ RestartsManager \/ UNCHANGED vars)]_sysVars
  <2> SUFFICES ASSUME SysInv, SysInv', SysNext
               PROVE  SysTypeOK' /\ (Next \/ RestartsManager \/ UNCHANGED vars)
    OBVIOUS
  <2> QED
    BY SysStepIsEngines DEF SysInv
<1> QED
  BY <1>1, <1>2, <1>3, SysInvariance, PTL DEF SysSpec, EngineIsDriven
=============================================================================
