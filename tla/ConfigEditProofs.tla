-------------------------- MODULE ConfigEditProofs --------------------------
(***************************************************************************)
(* Proofs about ConfigEdit.  What holds whatever ids the user types        *)
(* (Basic) comes first; that every slave is copied as listed and that its  *)
(* worker hears of every edit (Listed) needs ids that differ.              *)
(***************************************************************************)
EXTENDS ConfigEdit, SequenceTheorems, NaturalsInduction, WellFoundedInduction, TLAPS

(* The engine and the supervisor know the same slaves, a worker has its    *)
(* handle, an edit is of a slave that is copied, and nothing outlives Stop;*)
(* the installed handle of a worker that lives is not found closed.        *)
Coherent ==
  /\ ~running => /\ engine = Nobody /\ handle = Nobody /\ worker = Nobody
                 /\ edit = None /\ started = {} /\ unheard = {}
  /\ \A id \in Ids : engine[id] # None <=> handle[id] # None
  /\ \A id \in Ids : worker[id] # None => handle[id] # None
  /\ \A id \in Ids :
       worker[id] # None /\ handle[id].phase = "open" => handle[id].seen = "alive"
  /\ edit # None => engine[edit.id] # None

Basic == TypeOK /\ Coherent /\ OneWorkerPerTerminal

Editing(id) == edit # None /\ edit.id = id

(* What an edit under way has already changed, and what it has not.        *)
RowCopied(row) ==
  row.id \in started =>
    /\ engine[row.id] # None
    /\ handle[row.id].terminal = row.terminal
    /\ Editing(row.id) => edit.cfg = row.cfg
    /\ Editing(row.id) \/ CopiedAsListed(row)
    /\ Editing(row.id) /\ edit.step # "amounts" =>
         engine[row.id].amounts = row.cfg
    /\ Editing(row.id) /\ edit.step \notin {"amounts", "mapper"} =>
         engine[row.id].mapper = row.cfg
    /\ Editing(row.id) /\ edit.step \in {"test", "again", "send"} =>
         handle[row.id].config = row.cfg

RowHeard(row) ==
  (row.id \in started \ unheard /\ ~Editing(row.id) /\ worker[row.id] # None)
    => LastTold(row.id) = row.cfg

Rows == {slaves[i] : i \in DOMAIN slaves}

IdsDiffer == \A i, j \in DOMAIN slaves : slaves[i].id = slaves[j].id => i = j

Listed ==
  /\ IdsDiffer
  /\ started \subseteq RowIds
  /\ \A row \in Rows : RowCopied(row) /\ RowHeard(row)

-----------------------------------------------------------------------------
(* Rows, removed one by one, and the last message told.                    *)
LEMMA RemoveAtRows ==
  ASSUME NEW S, NEW s \in Seq(S), NEW i \in DOMAIN s
  PROVE  /\ RemoveAt(s, i) \in Seq(S)
         /\ Len(RemoveAt(s, i)) = Len(s) - 1
         /\ \A j \in 1 .. Len(s) - 1 :
              RemoveAt(s, i)[j] = IF j < i THEN s[j] ELSE s[j + 1]
<1> DEFINE a == SubSeq(s, 1, i - 1)
           b == SubSeq(s, i + 1, Len(s))
<1>1. i \in 1 .. Len(s) /\ Len(s) \in Nat
  OBVIOUS
<1>2. /\ a \in Seq(S) /\ Len(a) = i - 1
      /\ \A j \in 1 .. i - 1 : a[j] = s[j]
  BY <1>1, SubSeqProperties
<1>3. /\ b \in Seq(S) /\ Len(b) = Len(s) - i
      /\ \A j \in 1 .. Len(s) - i : b[j] = s[i + j]
  BY <1>1, SubSeqProperties
<1>4. RemoveAt(s, i) = a \o b
  BY DEF RemoveAt
<1> HIDE DEF a, b
<1> QED
  BY <1>1, <1>2, <1>3, <1>4, ConcatProperties, SMTT(20)

LEMMA LastToldCases ==
  ASSUME NEW c \in Cfgs \cup {None}, NEW q \in Seq(Cfgs)
  PROVE  Last(<< c >> \o q) = IF q = << >> THEN c ELSE q[Len(q)]
  BY DEF Last

(* A set of numbers that is not empty has a least element.                 *)
LEMMA LeastIn ==
  ASSUME NEW R, IsWellFoundedOn(R, Nat),
         \A x, y \in Nat : << y, x >> \in R <=> y < x,
         NEW T \in SUBSET Nat, T # {}
  PROVE  \E x \in T : \A y \in T : x <= y
<1>1. PICK x \in T : \A y \in T : ~ (<< y, x >> \in R)
  BY WFMin
<1>2. \A y \in T : ~ (y < x)
  BY <1>1
<1> QED
  BY <1>2

LEMMA LeastNat ==
  ASSUME NEW T \in SUBSET Nat, T # {}
  PROVE  \E x \in T : \A y \in T : x <= y
<1>1. IsWellFoundedOn(OpToRel(<, Nat), Nat)
  BY NatLessThanWellFounded
<1>2. \A x, y \in Nat : << y, x >> \in OpToRel(<, Nat) <=> y < x
  BY DEF OpToRel
<1> QED
  BY <1>1, <1>2, LeastIn

(* RowOf finds a row with that id: of those there are, the last.           *)
LEMMA RowOfRow ==
  ASSUME slaves \in Seq(AccountSpec), NEW id \in RowIds
  PROVE  \E i \in DOMAIN slaves : RowOf(id) = slaves[i] /\ slaves[i].id = id
<1> DEFINE Is(i) == slaves[i].id = id
                    /\ \A j \in DOMAIN slaves : slaves[j].id = id => j <= i
           T == {Len(slaves) - i : i \in {k \in DOMAIN slaves : slaves[k].id = id}}
<1>1. DOMAIN slaves = 1 .. Len(slaves) /\ Len(slaves) \in Nat
  OBVIOUS
<1>2. T \in SUBSET Nat /\ T # {}
  <2>1. \E k \in DOMAIN slaves : slaves[k].id = id
    BY DEF RowIds
  <2> QED
    BY <1>1, <2>1
<1>3. PICK x \in T : \A y \in T : x <= y
  <2> HIDE DEF T
  <2> QED
    BY <1>2, LeastNat
<1>4. PICK i \in DOMAIN slaves : x = Len(slaves) - i /\ slaves[i].id = id
  OBVIOUS
<1>5. Is(i)
  <2> SUFFICES ASSUME NEW j \in DOMAIN slaves, slaves[j].id = id PROVE j <= i
    BY <1>4
  <2>1. Len(slaves) - j \in T
    OBVIOUS
  <2>2. Len(slaves) - i <= Len(slaves) - j
    BY <1>3, <1>4, <2>1
  <2> QED
    BY <1>1, <2>2
<1>6. Is(CHOOSE k \in DOMAIN slaves : Is(k))
      /\ (CHOOSE k \in DOMAIN slaves : Is(k)) \in DOMAIN slaves
  <2> HIDE DEF Is
  <2> QED
    BY <1>5
<1>7. RowOf(id) = slaves[CHOOSE k \in DOMAIN slaves : Is(k)]
  BY DEF RowOf
<1> QED
  BY <1>6, <1>7

-----------------------------------------------------------------------------
(* Steps that leave the copying alone: only the list and what of it counts *)
(* as started change.                                                      *)
LEMMA ListOnly ==
  ASSUME Basic, UNCHANGED << running, engine, handle, worker, edit, unheard >>,
         slaves' \in Seq(AccountSpec), started' \subseteq started
  PROVE  /\ Basic'
         /\ \A row \in AccountSpec : RowCopied(row) => RowCopied(row)'
         /\ \A row \in AccountSpec : RowHeard(row) => RowHeard(row)'
<1>1. Basic'
  BY DEF Basic, TypeOK, Coherent, OneWorkerPerTerminal
<1>2. ASSUME NEW row \in AccountSpec, RowCopied(row) PROVE RowCopied(row)'
  BY <1>2 DEF RowCopied, Editing, CopiedAsListed
<1>3. ASSUME NEW row \in AccountSpec, RowHeard(row) PROVE RowHeard(row)'
  BY <1>3 DEF RowHeard, Editing, LastTold
<1> QED
  BY <1>1, <1>2, <1>3

LEMMA AddSlaveSafe ==
  ASSUME Basic, AddSlave
  PROVE  Basic' /\ (Listed /\ DistinctIds => Listed')
<1>0. slaves \in Seq(AccountSpec)
  BY DEF Basic, TypeOK
<1>1. PICK spec \in NewSpecs : slaves' = Append(slaves, spec)
  BY DEF AddSlave
<1>2. /\ spec \in AccountSpec
      /\ DistinctIds => spec.id \notin RowIds
  BY DEF NewSpecs
<1>3. /\ slaves' \in Seq(AccountSpec)
      /\ DOMAIN slaves = 1 .. Len(slaves) /\ DOMAIN slaves' = 1 .. Len(slaves) + 1
      /\ Len(slaves) \in Nat
      /\ \A i \in 1 .. Len(slaves) : slaves'[i] = slaves[i]
      /\ slaves'[Len(slaves) + 1] = spec
  BY <1>0, <1>1, <1>2, AppendProperties
<1>4. UNCHANGED << running, engine, handle, worker, edit, started, unheard >>
  BY DEF AddSlave
<1>5. /\ Basic'
      /\ \A row \in AccountSpec : RowCopied(row) => RowCopied(row)'
      /\ \A row \in AccountSpec : RowHeard(row) => RowHeard(row)'
  BY <1>3, <1>4, ListOnly
<1>6. ASSUME Listed, DistinctIds PROVE Listed'
  <2>1. Rows \subseteq AccountSpec /\ Rows' = Rows \cup {spec}
    BY <1>0, <1>3 DEF Rows
  <2>2. spec.id \notin started
    BY <1>2, <1>6 DEF Listed
  <2>3. RowCopied(spec)' /\ RowHeard(spec)'
    BY <2>2, <1>4 DEF RowCopied, RowHeard
  <2>4. \A row \in Rows' : RowCopied(row)' /\ RowHeard(row)'
    BY <2>1, <2>3, <1>5, <1>6 DEF Listed
  <2>5. IdsDiffer'
    BY <1>2, <1>3, <1>6 DEF Listed, IdsDiffer, RowIds
  <2>6. started' \subseteq RowIds'
    <3>1. RowIds \subseteq RowIds'
      BY <1>3 DEF RowIds
    <3> QED
      BY <3>1, <1>4, <1>6 DEF Listed
  <2> QED
    BY <2>4, <2>5, <2>6 DEF Listed
<1> QED
  BY <1>5, <1>6

LEMMA RemoveSlaveSafe ==
  ASSUME Basic, RemoveSlave
  PROVE  Basic' /\ (Listed => Listed')
<1>0. slaves \in Seq(AccountSpec) /\ started \subseteq Ids
  BY DEF Basic, TypeOK
<1>1. PICK i \in DOMAIN slaves : /\ slaves' = RemoveAt(slaves, i)
                                 /\ started' = started \ {slaves[i].id}
  BY DEF RemoveSlave
<1>2. /\ slaves' \in Seq(AccountSpec) /\ Len(slaves) \in Nat
      /\ Len(slaves') = Len(slaves) - 1
      /\ \A j \in 1 .. Len(slaves) - 1 :
           slaves'[j] = IF j < i THEN slaves[j] ELSE slaves[j + 1]
  BY <1>0, <1>1, RemoveAtRows
<1>d. DOMAIN slaves = 1 .. Len(slaves) /\ DOMAIN slaves' = 1 .. Len(slaves) - 1
  BY <1>0, <1>2
<1>3. UNCHANGED << running, engine, handle, worker, edit, unheard >>
  BY DEF RemoveSlave
<1>4. /\ Basic'
      /\ \A row \in AccountSpec : RowCopied(row) => RowCopied(row)'
      /\ \A row \in AccountSpec : RowHeard(row) => RowHeard(row)'
  BY <1>1, <1>2, <1>3, ListOnly
<1>5. ASSUME Listed PROVE Listed'
  <2>1. Rows' \subseteq Rows /\ Rows \subseteq AccountSpec
    BY <1>0, <1>1, <1>2, <1>d DEF Rows
  <2>2. \A row \in Rows' : RowCopied(row)' /\ RowHeard(row)'
    BY <2>1, <1>4, <1>5 DEF Listed
  <2>3. IdsDiffer'
    <3> SUFFICES ASSUME NEW j \in DOMAIN slaves', NEW n \in DOMAIN slaves',
                        slaves'[j].id = slaves'[n].id
                 PROVE  j = n
      BY DEF IdsDiffer
    <3> DEFINE k(m) == IF m < i THEN m ELSE m + 1
    <3>1. /\ k(j) \in DOMAIN slaves /\ slaves'[j] = slaves[k(j)]
          /\ k(n) \in DOMAIN slaves /\ slaves'[n] = slaves[k(n)]
      BY <1>2, <1>d
    <3> HIDE DEF k
    <3>2. k(j) = k(n)
      BY <3>1, <1>5 DEF Listed, IdsDiffer
    <3> QED
      BY <3>2, <1>1, <1>d DEF k
  <2>4. started' \subseteq RowIds'
    <3> SUFFICES ASSUME NEW id \in started, id # slaves[i].id
                 PROVE  id \in RowIds'
      BY <1>1
    <3>1. PICK k \in DOMAIN slaves : slaves[k].id = id
      BY <1>5 DEF Listed, RowIds
    <3> DEFINE j == IF k < i THEN k ELSE k - 1
    <3>2. j \in DOMAIN slaves' /\ slaves'[j] = slaves[k]
      BY <3>1, <1>1, <1>2, <1>d
    <3> QED
      BY <3>1, <3>2 DEF RowIds
  <2> QED
    BY <2>2, <2>3, <2>4 DEF Listed
<1> QED
  BY <1>4, <1>5

LEMMA EditSlaveSafe ==
  ASSUME Basic, EditSlave
  PROVE  Basic' /\ (Listed => Listed')
<1> DEFINE Edits(i, new) ==
             /\ slaves' = [slaves EXCEPT ![i] = new]
             /\ edit' = IF running /\ engine[new.id] # None
                          THEN [id |-> new.id, cfg |-> new.cfg, step |-> "amounts",
                                fetched |-> "none"]
                          ELSE None
<1>0. slaves \in Seq(AccountSpec) /\ edit = None
  BY DEF Basic, TypeOK, EditSlave
<1>a. PICK i \in DOMAIN slaves : \E new \in EditedSpecs(slaves[i]) : Edits(i, new)
  BY DEF EditSlave
<1>1. PICK new \in EditedSpecs(slaves[i]) : Edits(i, new)
  BY <1>a
<1>2. /\ slaves[i] \in AccountSpec /\ new \in AccountSpec
      /\ new.id = slaves[i].id /\ new.terminal = slaves[i].terminal
  <2>1. slaves[i] \in AccountSpec
    BY <1>0
  <2>2. PICK cfg \in Cfgs : new = [slaves[i] EXCEPT !.cfg = cfg]
    BY <1>1 DEF EditedSpecs
  <2> QED
    BY <2>1, <2>2 DEF AccountSpec
<1>3. /\ slaves' \in Seq(AccountSpec) /\ DOMAIN slaves' = DOMAIN slaves
      /\ slaves'[i] = new
      /\ \A j \in DOMAIN slaves \ {i} : slaves'[j] = slaves[j]
  BY <1>0, <1>1, <1>2
<1>4. UNCHANGED << running, engine, handle, worker, started, unheard >>
  BY DEF EditSlave
<1>5. Basic'
  <2>1. edit' \in Edit \cup {None}
    BY <1>1, <1>2 DEF Edit, AccountSpec
  <2>2. TypeOK'
    BY <2>1, <1>3, <1>4 DEF Basic, TypeOK
  <2>3. Coherent'
    BY <1>0, <1>1, <1>4 DEF Basic, Coherent
  <2> QED
    BY <2>2, <2>3, <1>4 DEF Basic, OneWorkerPerTerminal
<1>6. ASSUME Listed PROVE Listed'
  <2>1. \A j \in DOMAIN slaves : slaves'[j].id = slaves[j].id
    BY <1>2, <1>3
  <2>2. ASSUME NEW row \in Rows, row.id # new.id
        PROVE  RowCopied(row)' /\ RowHeard(row)'
    <3>1. RowCopied(row) /\ RowHeard(row)
      BY <1>6 DEF Listed
    <3>2. ~Editing(row.id) /\ ~Editing(row.id)'
      BY <2>2, <1>0, <1>1 DEF Editing
    <3>3. RowCopied(row)'
      BY <3>1, <3>2, <1>4 DEF RowCopied, CopiedAsListed
    <3>4. RowHeard(row)'
      BY <3>1, <3>2, <1>4 DEF RowHeard, LastTold
    <3> QED
      BY <3>3, <3>4
  <2>3. RowCopied(new)' /\ RowHeard(new)'
    <3>1. RowCopied(slaves[i])
      BY <1>6 DEF Listed, Rows
    <3>2. CASE new.id \notin started
      BY <3>2, <1>4 DEF RowCopied, RowHeard
    <3>3. CASE new.id \in started
      <4>1. running /\ engine[new.id] # None
            /\ handle[new.id].terminal = new.terminal
        <5>1. /\ engine[new.id] # None
              /\ handle[new.id].terminal = new.terminal
          BY <3>1, <3>3, <1>2 DEF RowCopied
        <5>2. running
          BY <3>3 DEF Basic, Coherent
        <5> QED
          BY <5>1, <5>2
      <4>2. edit' = [id |-> new.id, cfg |-> new.cfg, step |-> "amounts",
                     fetched |-> "none"]
        BY <4>1, <1>1
      <4>3. edit' # None
        BY <4>2, <1>2, NoneIsNoRecord DEF Edit, AccountSpec
      <4>4. Editing(new.id)' /\ edit'.cfg = new.cfg /\ edit'.step = "amounts"
        BY <4>2, <4>3 DEF Editing
      <4> QED
        BY <4>1, <4>4, <1>4 DEF RowCopied, RowHeard
    <3> QED
      BY <3>2, <3>3
  <2>4. ASSUME NEW row \in Rows' PROVE row = new \/ (row \in Rows /\ row.id # new.id)
    <3>1. PICK j \in DOMAIN slaves : row = slaves'[j]
      BY <1>3 DEF Rows
    <3>2. CASE j = i
      BY <3>1, <3>2, <1>3
    <3>3. CASE j # i
      <4>1. slaves[j].id # slaves[i].id
        BY <3>3, <1>6 DEF Listed, IdsDiffer
      <4> QED
        BY <3>1, <3>3, <4>1, <1>2, <1>3 DEF Rows
    <3> QED
      BY <3>2, <3>3
  <2>5. \A row \in Rows' : RowCopied(row)' /\ RowHeard(row)'
    BY <2>2, <2>3, <2>4
  <2>6. IdsDiffer' /\ RowIds' = RowIds
    BY <2>1, <1>3, <1>6 DEF Listed, IdsDiffer, RowIds
  <2> QED
    BY <2>5, <2>6, <1>4, <1>6 DEF Listed
<1> QED
  BY <1>5, <1>6

-----------------------------------------------------------------------------
(* Start: every row's slave gets its engine state, its handle and its      *)
(* worker; with ids that differ RowOf is the row itself.                   *)
LEMMA StartSafe ==
  ASSUME Basic, Start
  PROVE  Basic' /\ (Listed => Listed')
<1>0. /\ slaves \in Seq(AccountSpec) /\ slaves' = slaves
      /\ edit = None /\ edit' = None /\ running' = TRUE
      /\ unheard = {} /\ unheard' = {} /\ started' = RowIds
  BY DEF Basic, TypeOK, Coherent, Start
<1>1. RowIds \subseteq Ids
  <2>1. \A i \in DOMAIN slaves : slaves[i] \in AccountSpec
    BY <1>0
  <2>2. \A i \in DOMAIN slaves : slaves[i].id \in Ids
    BY <2>1 DEF AccountSpec
  <2> QED
    BY <2>2 DEF RowIds
<1>2. \A id \in RowIds : RowOf(id) \in AccountSpec
  <2> SUFFICES ASSUME NEW id \in RowIds PROVE RowOf(id) \in AccountSpec
    OBVIOUS
  <2>1. PICK i \in DOMAIN slaves : RowOf(id) = slaves[i]
    BY <1>0, RowOfRow
  <2> QED
    BY <2>1, <1>0
<1> DEFINE e(id) == IF id \in RowIds THEN Whole(RowOf(id).cfg) ELSE None
           h(id) == IF id \in RowIds THEN [config |-> RowOf(id).cfg, phase |-> "open",
                                           terminal |-> RowOf(id).terminal,
                                           seen |-> "alive"]
                                     ELSE None
           w(id) == IF id \in RowIds THEN Booted(RowOf(id).cfg) ELSE None
<1>3. \A id \in Ids : engine'[id] = e(id) /\ handle'[id] = h(id) /\ worker'[id] = w(id)
  BY DEF Start
<1>4. \A id \in RowIds :
        /\ RowOf(id).cfg \in Cfgs /\ RowOf(id).terminal \in Terminals
        /\ e(id) \in SlaveState /\ h(id) \in Handle /\ w(id) \in Worker
  BY <1>2 DEF AccountSpec, SlaveState, Whole, Handle, Worker, Booted
<1>5. TypeOK'
  <2>1. /\ engine' = [id \in Ids |-> e(id)] /\ handle' = [id \in Ids |-> h(id)]
        /\ worker' = [id \in Ids |-> w(id)]
    BY DEF Start
  <2>2. \A id \in Ids : /\ e(id) \in SlaveState \cup {None}
                        /\ h(id) \in Handle \cup {None}
                        /\ w(id) \in Worker \cup {None}
    BY <1>4
  <2> HIDE DEF e, h, w
  <2> QED
    BY <2>1, <2>2, <1>0, <1>1 DEF TypeOK
<1>6. Coherent'
  <2>1. \A id \in Ids : /\ engine'[id] # None <=> id \in RowIds
                        /\ handle'[id] # None <=> id \in RowIds
                        /\ worker'[id] # None => id \in RowIds
    <3>1. \A id \in Ids : /\ e(id) # None <=> id \in RowIds
                          /\ h(id) # None <=> id \in RowIds
                          /\ w(id) # None => id \in RowIds
      <4>1. \A id \in RowIds : e(id) # None /\ h(id) # None
        <5> HIDE DEF e, h, w
        <5> QED
          BY <1>4, NoneIsNoRecord
      <4> QED
        BY <4>1
    <3> HIDE DEF e, h, w
    <3> QED
      BY <3>1, <1>3
  <2>2. \A id \in Ids : /\ engine'[id] # None <=> handle'[id] # None
                        /\ worker'[id] # None => handle'[id] # None
                        /\ worker'[id] # None => handle'[id].seen = "alive"
    <3>1. \A id \in RowIds : h(id).seen = "alive"
      OBVIOUS
    <3> HIDE DEF e, h, w
    <3> QED
      BY <2>1, <3>1, <1>3
  <2>3. running' /\ edit' = None
    BY <1>0
  <2> HIDE DEF e, h, w
  <2> QED
    BY ONLY <2>2, <2>3 DEF Coherent
<1>7. OneWorkerPerTerminal'
  <2> SUFFICES ASSUME NEW a \in Ids, NEW b \in Ids,
                      handle'[a] # None, handle'[b] # None,
                      handle'[a].terminal = handle'[b].terminal
               PROVE  a = b
    BY DEF OneWorkerPerTerminal
  <2>0. h(a) # None /\ h(b) # None /\ h(a).terminal = h(b).terminal
    <3> HIDE DEF h
    <3> QED
      BY <1>3
  <2>1. /\ a \in RowIds /\ b \in RowIds
        /\ RowOf(a).terminal = RowOf(b).terminal
    BY <2>0
  <2>2. PICK i \in DOMAIN slaves : RowOf(a) = slaves[i] /\ slaves[i].id = a
    BY <2>1, <1>0, RowOfRow
  <2>3. PICK j \in DOMAIN slaves : RowOf(b) = slaves[j] /\ slaves[j].id = b
    BY <2>1, <1>0, RowOfRow
  <2>4. TerminalsDiffer
    BY DEF Start, Prepared
  <2> QED
    BY <2>1, <2>2, <2>3, <2>4 DEF TerminalsDiffer
<1>8. ASSUME Listed PROVE Listed'
  <2>1. ASSUME NEW row \in Rows PROVE RowCopied(row)' /\ RowHeard(row)'
    <3>1. PICK i \in DOMAIN slaves : row = slaves[i]
      BY DEF Rows
    <3>a. row \in AccountSpec
      BY <3>1, <1>0
    <3>2. row.id \in RowIds /\ row.id \in Ids
      BY <3>a, <3>1 DEF RowIds, AccountSpec
    <3>3. RowOf(row.id) = row
      <4>1. PICK j \in DOMAIN slaves :
              RowOf(row.id) = slaves[j] /\ slaves[j].id = row.id
        BY <3>2, <1>0, RowOfRow
      <4> QED
        BY <4>1, <3>1, <1>8 DEF Listed, IdsDiffer
    <3>4. /\ engine'[row.id] = Whole(row.cfg)
          /\ handle'[row.id] = [config |-> row.cfg, phase |-> "open",
                                terminal |-> row.terminal, seen |-> "alive"]
          /\ worker'[row.id] = Booted(row.cfg)
      BY <3>2, <3>3, <1>3
    <3>5. engine'[row.id] # None
      BY <3>a, <3>4, NoneIsNoRecord DEF Whole, SlaveState, AccountSpec
    <3>6. RowCopied(row)'
      BY <3>4, <3>5, <1>0 DEF RowCopied, Editing, CopiedAsListed
    <3>7. LastTold(row.id)' = row.cfg
      <4>1. worker'[row.id].cfg = None /\ worker'[row.id].inbox = << row.cfg >>
        BY <3>4 DEF Booted
      <4>2. /\ << row.cfg >> \in Seq(Cfgs) /\ << row.cfg >> # << >>
            /\ << row.cfg >>[Len(<< row.cfg >>)] = row.cfg
        BY <3>a DEF AccountSpec
      <4>3. Last(<< None >> \o << row.cfg >>) = row.cfg
        BY <4>2, LastToldCases
      <4> QED
        BY <4>1, <4>3 DEF LastTold
    <3> QED
      BY <3>6, <3>7 DEF RowHeard
  <2> QED
    BY <2>1, <1>0, <1>8 DEF Listed, IdsDiffer, RowIds, Rows
<1> QED
  BY <1>5, <1>6, <1>7, <1>8 DEF Basic

LEMMA StopSafe ==
  ASSUME Basic, Stop
  PROVE  Basic' /\ (Listed => Listed')
<1>1. /\ slaves' = slaves /\ edit = None /\ edit' = None /\ running' = FALSE
      /\ engine' = Nobody /\ handle' = Nobody /\ worker' = Nobody
      /\ started' = {} /\ unheard' = {}
  BY DEF Stop
<1>2. Basic'
  BY <1>1 DEF Basic, TypeOK, Coherent, OneWorkerPerTerminal, Nobody
<1>3. Listed => Listed'
  BY <1>1 DEF Listed, IdsDiffer, RowCopied, RowHeard, Rows
<1> QED
  BY <1>2, <1>3

-----------------------------------------------------------------------------
(* The steps of an edit and of a worker's life do not touch the list.      *)
LEMMA SameRows ==
  ASSUME Listed, UNCHANGED << slaves, started >>,
         \A row \in Rows : RowCopied(row)' /\ RowHeard(row)'
  PROVE  Listed'
  BY DEF Listed, IdsDiffer, RowIds, Rows

LEMMA RowTypes ==
  ASSUME Basic, Listed, NEW row \in Rows
  PROVE  /\ row \in AccountSpec /\ row.id \in Ids /\ row.cfg \in Cfgs
         /\ row.terminal \in Terminals
         /\ RowCopied(row) /\ RowHeard(row)
<1>1. PICK i \in DOMAIN slaves : row = slaves[i]
  BY DEF Rows
<1>2. slaves \in Seq(AccountSpec)
  BY DEF Basic, TypeOK
<1>3. row \in AccountSpec
  BY <1>1, <1>2
<1>4. RowCopied(row) /\ RowHeard(row)
  BY DEF Listed
<1> QED
  BY <1>3, <1>4 DEF AccountSpec

LEMMA UpdateEngineSafe ==
  ASSUME Basic, UpdateEngine
  PROVE  Basic' /\ (Listed => Listed')
<1> DEFINE id == edit.id
<1>0. /\ TypeOK /\ Coherent /\ OneWorkerPerTerminal
      /\ edit \in Edit /\ edit # None /\ id \in Ids /\ edit.cfg \in Cfgs
      /\ engine[id] \in SlaveState
  BY DEF Basic, TypeOK, Coherent, UpdateEngine, Edit
<1>1. UNCHANGED << slaves, running, handle, worker, started, unheard >>
  BY DEF UpdateEngine
<1>2. \/ /\ edit.step = "amounts"
         /\ engine' = [engine EXCEPT ![id] = [@ EXCEPT !.amounts = edit.cfg]]
         /\ edit' = [edit EXCEPT !.step = "mapper"]
      \/ /\ edit.step = "mapper"
         /\ engine' = [engine EXCEPT ![id] = [@ EXCEPT !.mapper = edit.cfg]]
         /\ edit' = [edit EXCEPT !.step = "lookup"]
  BY DEF UpdateEngine
<1>3. /\ edit' \in Edit /\ edit' # None
      /\ edit'.id = id /\ edit'.cfg = edit.cfg
      /\ engine'[id] \in SlaveState /\ engine'[id] # None
      /\ \A r \in Ids \ {id} : engine'[r] = engine[r]
      /\ \/ /\ edit.step = "amounts" /\ edit'.step = "mapper"
            /\ engine'[id].amounts = edit.cfg
         \/ /\ edit.step = "mapper" /\ edit'.step = "lookup"
            /\ engine'[id].amounts = engine[id].amounts
            /\ engine'[id].mapper = edit.cfg
  <2>1. edit' \in Edit /\ edit'.id = id /\ edit'.cfg = edit.cfg
    BY <1>0, <1>2 DEF Edit
  <2>2. /\ \A r \in Ids \ {id} : engine'[r] = engine[r]
        /\ \/ /\ edit.step = "amounts"
              /\ engine'[id] = [engine[id] EXCEPT !.amounts = edit.cfg]
           \/ /\ edit.step = "mapper"
              /\ engine'[id] = [engine[id] EXCEPT !.mapper = edit.cfg]
    BY <1>0, <1>2 DEF TypeOK
  <2>3. \/ edit.step = "amounts" /\ edit'.step = "mapper"
        \/ edit.step = "mapper" /\ edit'.step = "lookup"
    BY <1>0, <1>2 DEF Edit
  <2>4. engine'[id] \in SlaveState
    BY <1>0, <2>2 DEF SlaveState
  <2> QED
    BY <1>0, <2>1, <2>2, <2>3, <2>4, NoneIsNoRecord DEF SlaveState
<1>4. Basic'
  <2>1. engine' \in [Ids -> SlaveState \cup {None}]
    BY <1>0, <1>2, <1>3 DEF TypeOK
  <2>2. TypeOK'
    BY <1>0, <1>1, <1>3, <2>1 DEF TypeOK
  <2>3. Coherent'
    BY <1>0, <1>1, <1>3, NoneIsNoRecord DEF Coherent
  <2> QED
    BY <1>0, <1>1, <2>2, <2>3 DEF Basic, OneWorkerPerTerminal
<1>5. ASSUME Listed PROVE Listed'
  <2>1. ASSUME NEW row \in Rows PROVE RowCopied(row)' /\ RowHeard(row)'
    <3>0. /\ row.id \in Ids /\ row.cfg \in Cfgs
          /\ RowCopied(row) /\ RowHeard(row)
      BY <1>5, <2>1, RowTypes
    <3> HIDE DEF id
    <3>1. Editing(row.id) <=> row.id = id
      BY <1>0 DEF Editing, id
    <3>2. Editing(row.id)' <=> row.id = id
      BY <1>3 DEF Editing
    <3>3. RowCopied(row)'
      <4>1. CASE row.id # id
        BY <3>0, <3>1, <3>2, <4>1, <1>1, <1>3 DEF RowCopied, CopiedAsListed
      <4>2. CASE row.id = id
        BY <3>0, <3>1, <3>2, <4>2, <1>1, <1>3 DEF RowCopied, CopiedAsListed
      <4> QED
        BY <4>1, <4>2
    <3>4. RowHeard(row)'
      BY <3>0, <3>1, <3>2, <1>1 DEF RowHeard, LastTold
    <3> QED
      BY <3>3, <3>4
  <2> QED
    BY <2>1, <1>1, <1>5, SameRows
<1> QED
  BY <1>4, <1>5

LEMMA UpdateHandleSafe ==
  ASSUME Basic, UpdateHandle
  PROVE  Basic' /\ (Listed => Listed')
<1> DEFINE id == edit.id
<1>0. /\ TypeOK /\ Coherent /\ OneWorkerPerTerminal
      /\ edit \in Edit /\ edit # None /\ id \in Ids /\ edit.cfg \in Cfgs
      /\ handle[id] \in Handle /\ edit.step = "config"
  BY DEF Basic, TypeOK, Coherent, UpdateHandle, Edit
<1>1. /\ UNCHANGED << slaves, running, engine, worker, started, unheard >>
      /\ handle' = [handle EXCEPT ![id].config = edit.cfg]
      /\ edit' = [edit EXCEPT !.step = "test"]
  BY DEF UpdateHandle
<1>2. /\ edit' \in Edit /\ edit' # None
      /\ edit'.id = id /\ edit'.cfg = edit.cfg /\ edit'.step = "test"
  BY <1>0, <1>1, NoneIsNoRecord DEF Edit
<1>3. /\ \A r \in Ids \ {id} : handle'[r] = handle[r]
      /\ handle'[id] \in Handle /\ handle'[id] # None
      /\ handle'[id].config = edit.cfg
      /\ handle'[id].terminal = handle[id].terminal
      /\ handle'[id].phase = handle[id].phase /\ handle'[id].seen = handle[id].seen
  <2>1. handle'[id] = [handle[id] EXCEPT !.config = edit.cfg]
    BY <1>0, <1>1 DEF TypeOK
  <2>2. handle'[id] \in Handle
    BY <1>0, <2>1 DEF Handle
  <2> QED
    BY <1>0, <1>1, <2>1, <2>2, NoneIsNoRecord DEF TypeOK, Handle
<1>4. Basic'
  <2>1. handle' \in [Ids -> Handle \cup {None}]
    BY <1>0, <1>1, <1>3 DEF TypeOK
  <2>2. TypeOK'
    BY <1>0, <1>1, <1>2, <2>1 DEF TypeOK
  <2>3. Coherent'
    BY <1>0, <1>1, <1>2, <1>3, NoneIsNoRecord DEF Coherent
  <2>4. \A r \in Ids : /\ handle'[r] # None <=> handle[r] # None
                       /\ handle'[r] # None => handle'[r].terminal = handle[r].terminal
    BY <1>0, <1>3, NoneIsNoRecord
  <2>5. OneWorkerPerTerminal'
    <3> SUFFICES ASSUME NEW a \in Ids, NEW b \in Ids,
                        handle'[a] # None, handle'[b] # None,
                        handle'[a].terminal = handle'[b].terminal
                 PROVE  a = b
      BY DEF OneWorkerPerTerminal
    <3>1. /\ handle[a] # None /\ handle[b] # None
          /\ handle[a].terminal = handle[b].terminal
      BY <2>4
    <3> QED
      BY <3>1, <1>0 DEF OneWorkerPerTerminal
  <2> QED
    BY <2>2, <2>3, <2>5 DEF Basic
<1>5. ASSUME Listed PROVE Listed'
  <2>1. ASSUME NEW row \in Rows PROVE RowCopied(row)' /\ RowHeard(row)'
    <3>0. /\ row.id \in Ids /\ row.cfg \in Cfgs
          /\ RowCopied(row) /\ RowHeard(row)
      BY <1>5, <2>1, RowTypes
    <3> HIDE DEF id
    <3>1. Editing(row.id) <=> row.id = id
      BY <1>0 DEF Editing, id
    <3>2. Editing(row.id)' <=> row.id = id
      BY <1>2 DEF Editing
    <3>3. RowCopied(row)'
      <4>1. CASE row.id # id
        BY <3>0, <3>1, <3>2, <4>1, <1>1, <1>3 DEF RowCopied, CopiedAsListed
      <4>2. CASE row.id = id
        BY <3>0, <3>1, <3>2, <4>2, <1>0, <1>1, <1>2, <1>3
           DEF RowCopied, CopiedAsListed
      <4> QED
        BY <4>1, <4>2
    <3>4. RowHeard(row)'
      BY <3>0, <3>1, <3>2, <1>1 DEF RowHeard, LastTold
    <3> QED
      BY <3>3, <3>4
  <2> QED
    BY <2>1, <1>1, <1>5, SameRows
<1> QED
  BY <1>4, <1>5

(* A step that leaves a row's slave alone.                                 *)
LEMMA OtherRow ==
  ASSUME NEW row, UNCHANGED started,
         engine'[row.id] = engine[row.id], handle'[row.id] = handle[row.id],
         worker'[row.id] = worker[row.id],
         ~Editing(row.id), ~Editing(row.id)',
         row.id \in unheard => row.id \in unheard'
  PROVE  /\ RowCopied(row) => RowCopied(row)'
         /\ RowHeard(row) => RowHeard(row)'
<1>1. RowCopied(row) => RowCopied(row)'
  BY DEF RowCopied, CopiedAsListed
<1>2. LastTold(row.id)' = LastTold(row.id)
  BY DEF LastTold
<1>3. RowHeard(row) => RowHeard(row)'
  BY <1>2 DEF RowHeard
<1> QED
  BY <1>1, <1>3

(* An edit that moves on and changes nothing else.                         *)
LEMMA EditMoves ==
  ASSUME Basic, edit # None, edit' \in Edit,
         edit'.id = edit.id, edit'.cfg = edit.cfg,
         << edit.step, edit'.step >> \in { << "lookup", "config" >>,
                                           << "test", "again" >>,
                                           << "again", "send" >> },
         UNCHANGED << slaves, running, engine, handle, worker, started, unheard >>
  PROVE  Basic' /\ (Listed => Listed')
<1>0. TypeOK /\ Coherent /\ OneWorkerPerTerminal /\ edit' # None
  BY NoneIsNoRecord DEF Basic
<1>1. Basic'
  BY <1>0 DEF Basic, TypeOK, Coherent, OneWorkerPerTerminal
<1>2. ASSUME Listed PROVE Listed'
  <2>1. ASSUME NEW row \in Rows PROVE RowCopied(row)' /\ RowHeard(row)'
    <3>1. RowCopied(row) /\ RowHeard(row)
      BY <1>2, <2>1, RowTypes
    <3>2. Editing(row.id)' <=> Editing(row.id)
      BY <1>0 DEF Editing
    <3>3. RowCopied(row)'
      BY <3>1, <3>2 DEF RowCopied, CopiedAsListed
    <3>4. RowHeard(row)'
      BY <3>1, <3>2 DEF RowHeard, LastTold
    <3> QED
      BY <3>3, <3>4
  <2> QED
    BY <2>1, <1>2, SameRows
<1> QED
  BY <1>1, <1>2

LEMMA LookUpSafe ==
  ASSUME Basic, LookUp
  PROVE  Basic' /\ (Listed => Listed')
<1>1. /\ edit \in Edit /\ edit # None /\ edit.step = "lookup"
      /\ edit' = [edit EXCEPT !.step = "config", !.fetched = "installed"]
      /\ UNCHANGED << slaves, running, engine, handle, worker, started, unheard >>
  BY DEF Basic, TypeOK, LookUp
<1>2. /\ edit' \in Edit /\ edit'.id = edit.id /\ edit'.cfg = edit.cfg
      /\ edit'.step = "config"
  BY <1>1 DEF Edit
<1> QED
  BY <1>1, <1>2, EditMoves

(* After an edit that is through, each of the three users has the row's    *)
(* configuration; the worker is the caller's matter.                       *)
LEMMA EditEnds ==
  ASSUME Basic, Listed, edit # None, edit' = None,
         edit.step \in {"test", "again", "send"},
         UNCHANGED << slaves, engine, handle, started >>,
         \A r \in Ids \ {edit.id} :
           /\ worker'[r] = worker[r]
           /\ r \in unheard => r \in unheard',
         NEW id, id = edit.id,
         \/ id \in unheard'
         \/ worker'[id] = None
         \/ LastTold(id)' = edit.cfg
  PROVE  Listed'
<1>0. /\ edit \in Edit /\ id \in Ids
      /\ engine[id] \in SlaveState
  BY DEF Basic, TypeOK, Coherent, Edit
<1>1. ASSUME NEW row \in Rows PROVE RowCopied(row)' /\ RowHeard(row)'
  <2>0. /\ row.id \in Ids /\ row.cfg \in Cfgs
        /\ RowCopied(row) /\ RowHeard(row)
    BY <1>1, RowTypes
  <2>n. ~Editing(row.id)'
    BY DEF Editing
  <2>1. CASE row.id # id
    <3>1. ~Editing(row.id) /\ worker'[row.id] = worker[row.id]
          /\ (row.id \in unheard => row.id \in unheard')
      BY <2>0, <2>1 DEF Editing
    <3> QED
      BY <3>1, <2>0, <2>n, OtherRow
  <2>2. CASE row.id = id
    <3>1. Editing(row.id)
      BY <2>2 DEF Editing
    <3>2. RowCopied(row)'
      <4> SUFFICES ASSUME row.id \in started
                   PROVE  /\ engine[row.id] # None
                          /\ CopiedAsListed(row)
        BY <2>n DEF RowCopied, CopiedAsListed
      <4>1. /\ engine[row.id].amounts = row.cfg
            /\ engine[row.id].mapper = row.cfg
            /\ handle[row.id].config = row.cfg
            /\ handle[row.id].terminal = row.terminal
            /\ engine[row.id] # None
        BY <2>0, <3>1 DEF RowCopied
      <4>2. engine[row.id] = Whole(row.cfg)
        BY <4>1, <2>2, <1>0 DEF Whole, SlaveState
      <4> QED
        BY <4>1, <4>2 DEF CopiedAsListed
    <3>3. RowHeard(row)'
      <4> SUFFICES ASSUME row.id \in started \ unheard', worker'[row.id] # None
                   PROVE  LastTold(row.id)' = row.cfg
        BY DEF RowHeard
      <4>1. edit.cfg = row.cfg
        BY <2>0, <3>1 DEF RowCopied
      <4>2. LastTold(id)' = edit.cfg
        BY <2>2
      <4> QED
        BY <4>1, <4>2, <2>2
    <3> QED
      BY <3>2, <3>3
  <2> QED
    BY <2>1, <2>2
<1> QED
  BY <1>1, SameRows

(* Nothing is sent to a worker only if it is dead, or if it is overtaken.  *)
LEMMA EndsUnsentSafe ==
  ASSUME Basic, edit # None, edit.step \in {"test", "again", "send"}, EndsUnsent,
         \/ worker[edit.id] = None
         \/ handle[edit.id].phase = "spawned"
         \/ edit.fetched # "installed"
  PROVE  Basic' /\ (Listed => Listed')
<1> PICK id : id = edit.id
  OBVIOUS
<1>0. /\ TypeOK /\ Coherent /\ OneWorkerPerTerminal
      /\ edit \in Edit /\ id \in Ids /\ unheard \subseteq Ids
  BY DEF Basic, TypeOK, Edit
<1>1. /\ UNCHANGED << slaves, running, engine, handle, worker, started >>
      /\ edit' = None
      /\ unheard' \in SUBSET Ids
      /\ \A r \in Ids \ {id} : r \in unheard => r \in unheard'
      /\ id \in unheard' \/ worker[id] = None \/ LastTold(id) = edit.cfg
  BY <1>0 DEF EndsUnsent
<1>2. running
  BY <1>0 DEF Coherent
<1>3. Basic'
  BY <1>0, <1>1, <1>2 DEF Basic, TypeOK, Coherent, OneWorkerPerTerminal
<1>4. LastTold(id)' = LastTold(id)
  BY <1>1 DEF LastTold
<1>5. Listed => Listed'
  BY <1>1, <1>4, EditEnds DEF LastTold
<1> QED
  BY <1>3, <1>5

LEMMA TestPipeSafe ==
  ASSUME Basic, TestPipe
  PROVE  Basic' /\ (Listed => Listed')
<1>0. edit \in Edit /\ edit # None /\ edit.step = "test" /\ edit.id \in Ids
  BY DEF Basic, TypeOK, TestPipe, Edit
<1>1. CASE Sendable
  <2>1. /\ edit' = [edit EXCEPT !.step = "again"]
        /\ UNCHANGED << slaves, running, engine, handle, worker, started, unheard >>
    BY <1>1 DEF TestPipe
  <2>2. /\ edit' \in Edit /\ edit'.id = edit.id /\ edit'.cfg = edit.cfg
        /\ edit'.step = "again"
    BY <1>0, <2>1 DEF Edit
  <2> QED
    BY <1>0, <2>1, <2>2, EditMoves
<1>2. CASE ~Sendable
  <2>1. EndsUnsent
    BY <1>2 DEF TestPipe
  <2>2. \/ edit.fetched # "installed"
        \/ handle[edit.id].seen # "alive"
    BY <1>2 DEF Sendable
  <2>3. handle[edit.id] \in Handle
    BY <1>0 DEF Basic, TypeOK, Coherent
  <2>4. \/ worker[edit.id] = None \/ handle[edit.id].phase = "spawned"
        \/ edit.fetched # "installed"
    BY <1>0, <2>2, <2>3 DEF Basic, Coherent, Handle
  <2> QED
    BY <1>0, <2>1, <2>4, EndsUnsentSafe
<1> QED
  BY <1>1, <1>2

LEMMA LookUpAgainSafe ==
  ASSUME Basic, LookUpAgain
  PROVE  Basic' /\ (Listed => Listed')
<1>0. edit \in Edit /\ edit # None /\ edit.step = "again" /\ edit.id \in Ids
  BY DEF Basic, TypeOK, LookUpAgain, Edit
<1>1. CASE handle[edit.id].seen # "gone"
  <2>1. /\ edit' = [edit EXCEPT !.step = "send", !.fetched = "installed"]
        /\ UNCHANGED << slaves, running, engine, handle, worker, started, unheard >>
    BY <1>1 DEF LookUpAgain
  <2>2. /\ edit' \in Edit /\ edit'.id = edit.id /\ edit'.cfg = edit.cfg
        /\ edit'.step = "send"
    BY <1>0, <2>1 DEF Edit
  <2> QED
    BY <1>0, <2>1, <2>2, EditMoves
<1>2. CASE handle[edit.id].seen = "gone"
  <2>1. EndsUnsent
    BY <1>2 DEF LookUpAgain
  <2>2. handle[edit.id] \in Handle
    BY <1>0 DEF Basic, TypeOK, Coherent
  <2>3. worker[edit.id] = None \/ handle[edit.id].phase = "spawned"
    BY <1>0, <1>2, <2>2 DEF Basic, Coherent, Handle
  <2> QED
    BY <1>0, <2>1, <2>3, EndsUnsentSafe
<1> QED
  BY <1>1, <1>2

LEMMA SendReconfigureSafe ==
  ASSUME Basic, SendReconfigure
  PROVE  Basic' /\ (Listed => Listed')
<1> PICK id : id = edit.id
  OBVIOUS
<1> DEFINE hears == /\ edit.fetched = "installed" /\ handle[id].phase = "open"
                    /\ worker[id] # None
           told == Append(worker[id].inbox, edit.cfg)
<1>0. /\ TypeOK /\ Coherent /\ OneWorkerPerTerminal
      /\ edit \in Edit /\ edit # None /\ id \in Ids /\ edit.cfg \in Cfgs
      /\ edit.step = "send" /\ handle[id] \in Handle
      /\ worker \in [Ids -> Worker \cup {None}] /\ unheard \subseteq Ids
  BY DEF Basic, TypeOK, Coherent, SendReconfigure, Edit
<1>1. CASE ~hears
  <2>1. EndsUnsent
    BY <1>1 DEF SendReconfigure
  <2>2. \/ worker[id] = None \/ handle[id].phase = "spawned"
        \/ edit.fetched # "installed"
    BY <1>0, <1>1 DEF Handle
  <2> QED
    BY <1>0, <2>1, <2>2, EndsUnsentSafe
<1>2. CASE hears
  <2>1. /\ worker' = [worker EXCEPT ![id] = [@ EXCEPT !.inbox = told]]
        /\ edit' = None /\ unheard' = unheard \ {id}
        /\ UNCHANGED << slaves, running, engine, handle, started >>
    BY <1>2 DEF SendReconfigure
  <2>2. /\ worker[id] \in Worker /\ worker[id].cfg \in Cfgs \cup {None}
        /\ worker[id].inbox \in Seq(Cfgs)
    BY <1>0, <1>2 DEF Worker
  <2>3. told \in Seq(Cfgs) /\ told # << >> /\ told[Len(told)] = edit.cfg
    BY <2>2, <1>0
  <2>4. [worker[id] EXCEPT !.inbox = told] \in Worker
    BY <2>2, <2>3 DEF Worker
  <2>5. /\ worker' \in [Ids -> Worker \cup {None}]
        /\ \A r \in Ids \ {id} : worker'[r] = worker[r]
        /\ \A r \in Ids : worker'[r] # None <=> worker[r] # None
        /\ worker'[id].cfg = worker[id].cfg /\ worker'[id].inbox = told
    <3> HIDE DEF told
    <3>1. /\ worker' \in [Ids -> Worker \cup {None}]
          /\ \A r \in Ids \ {id} : worker'[r] = worker[r]
          /\ worker'[id] = [worker[id] EXCEPT !.inbox = told]
      BY <1>0, <2>1, <2>4
    <3>2. \A r \in Ids : worker'[r] # None <=> worker[r] # None
      BY <1>2, <2>4, <3>1, NoneIsNoRecord
    <3> QED
      BY <2>2, <3>1, <3>2 DEF Worker
  <2>6. running
    BY <1>0 DEF Coherent
  <2>7. Basic'
    <3> HIDE DEF told, hears
    <3>1. TypeOK'
      BY <1>0, <2>1, <2>5 DEF TypeOK
    <3>2. Coherent'
      BY <1>0, <2>1, <2>5, <2>6 DEF Coherent
    <3> QED
      BY <1>0, <2>1, <3>1, <3>2 DEF Basic, OneWorkerPerTerminal
  <2>8. LastTold(id)' = edit.cfg
    <3> HIDE DEF told
    <3>1. Last(<< worker[id].cfg >> \o told) = edit.cfg
      BY <2>2, <2>3, LastToldCases
    <3> QED
      BY <2>5, <3>1 DEF LastTold
  <2>9. Listed => Listed'
    <3> HIDE DEF told, hears
    <3> QED
      BY <1>0, <2>1, <2>5, <2>8, EditEnds
  <2> QED
    BY <2>7, <2>9
<1> QED
  BY <1>1, <1>2

(* What a worker was last told does not change as it reads.                *)
LEMMA WorkerReadsSafe ==
  ASSUME Basic, NEW id \in Ids, WorkerReads(id)
  PROVE  Basic' /\ (Listed => Listed')
<1> DEFINE q == worker[id].inbox
           read == [cfg |-> Head(q), inbox |-> Tail(q)]
<1>0. /\ TypeOK /\ Coherent /\ OneWorkerPerTerminal
      /\ worker \in [Ids -> Worker \cup {None}]
  BY DEF Basic, TypeOK
<1>1. /\ UNCHANGED << slaves, running, engine, handle, edit, started, unheard >>
      /\ worker[id] \in Worker /\ worker[id] # None /\ q # << >>
      /\ worker' = [worker EXCEPT ![id] = read]
  BY <1>0 DEF WorkerReads
<1>2. /\ worker[id].cfg \in Cfgs \cup {None} /\ q \in Seq(Cfgs)
      /\ Head(q) \in Cfgs /\ Tail(q) \in Seq(Cfgs)
  BY <1>1 DEF Worker
<1>3. read \in Worker /\ read # None
  BY <1>2, NoneIsNoRecord, SMTT(20) DEF Worker
<1>4. Last(<< Head(q) >> \o Tail(q)) = Last(<< worker[id].cfg >> \o q)
  <2> HIDE DEF q
  <2>1. Last(<< worker[id].cfg >> \o q) = q[Len(q)]
    BY <1>1, <1>2, LastToldCases
  <2>2. Last(<< Head(q) >> \o Tail(q))
          = IF Tail(q) = << >> THEN Head(q) ELSE Tail(q)[Len(Tail(q))]
    BY <1>2, LastToldCases
  <2>3. /\ Len(Tail(q)) = Len(q) - 1 /\ Len(q) \in Nat \ {0}
        /\ \A i \in 1 .. Len(q) - 1 : Tail(q)[i] = q[i + 1]
        /\ Head(q) = q[1]
    BY <1>1, <1>2
  <2>4. Tail(q) = << >> <=> Len(q) = 1
    BY <1>2, <2>3, EmptySeq
  <2>5. CASE Len(q) = 1
    BY <2>1, <2>2, <2>3, <2>4, <2>5
  <2>6. CASE Len(q) # 1
    BY <2>1, <2>2, <2>3, <2>4, <2>6
  <2> QED
    BY <2>5, <2>6
<1>5. /\ worker' \in [Ids -> Worker \cup {None}]
      /\ worker'[id] = read
      /\ \A r \in Ids \ {id} : worker'[r] = worker[r]
  <2> HIDE DEF read
  <2> QED
    BY <1>0, <1>1, <1>3
<1>6. \A r \in Ids : worker'[r] # None <=> worker[r] # None
  <2> HIDE DEF read
  <2> QED
    BY <1>1, <1>3, <1>5
<1>7. \A r \in Ids : LastTold(r)' = LastTold(r)
  <2>1. LastTold(id)' = LastTold(id)
    BY <1>4, <1>5 DEF LastTold
  <2>2. ASSUME NEW r \in Ids \ {id} PROVE LastTold(r)' = LastTold(r)
    BY <1>5 DEF LastTold
  <2> QED
    BY <2>1, <2>2
<1>8. Basic'
  <2>1. TypeOK'
    BY <1>0, <1>1, <1>5 DEF TypeOK
  <2>2. running
    <3>1. ~running => worker = Nobody
      BY <1>0 DEF Coherent
    <3> QED
      BY <3>1, <1>1 DEF Nobody
  <2>3. Coherent'
    <3> HIDE DEF q, read
    <3> QED
      BY <1>0, <1>1, <1>6, <2>2 DEF Coherent
  <2> QED
    BY <1>0, <1>1, <2>1, <2>3 DEF Basic, OneWorkerPerTerminal
<1>9. ASSUME Listed PROVE Listed'
  <2>1. ASSUME NEW row \in Rows PROVE RowCopied(row)' /\ RowHeard(row)'
    <3>1. row.id \in Ids /\ RowCopied(row) /\ RowHeard(row)
      BY <1>9, <2>1, RowTypes
    <3>2. Editing(row.id)' <=> Editing(row.id)
      BY <1>1 DEF Editing
    <3>3. RowCopied(row)'
      BY <3>1, <3>2, <1>1 DEF RowCopied, CopiedAsListed
    <3>4. RowHeard(row)'
      BY <3>1, <3>2, <1>1, <1>6, <1>7 DEF RowHeard
    <3> QED
      BY <3>3, <3>4
  <2> QED
    BY <2>1, <1>1, <1>9, SameRows
<1> QED
  BY <1>8, <1>9

LEMMA WorkerDiesSafe ==
  ASSUME Basic, NEW id \in Ids, WorkerDies(id)
  PROVE  Basic' /\ (Listed => Listed')
<1>0. /\ TypeOK /\ Coherent /\ OneWorkerPerTerminal
      /\ worker \in [Ids -> Worker \cup {None}]
  BY DEF Basic, TypeOK
<1>1. /\ UNCHANGED << slaves, running, engine, handle, edit, started, unheard >>
      /\ worker[id] # None
      /\ worker' = [worker EXCEPT ![id] = None]
  BY DEF WorkerDies
<1>2. /\ worker' \in [Ids -> Worker \cup {None}]
      /\ worker'[id] = None
      /\ \A r \in Ids \ {id} : worker'[r] = worker[r]
  BY <1>0, <1>1
<1>3. running
  <2>1. ~running => worker = Nobody
    BY <1>0 DEF Coherent
  <2> QED
    BY <2>1, <1>1 DEF Nobody
<1>4. Basic'
  BY <1>0, <1>1, <1>2, <1>3 DEF Basic, TypeOK, Coherent, OneWorkerPerTerminal
<1>5. ASSUME Listed PROVE Listed'
  <2>1. ASSUME NEW row \in Rows PROVE RowCopied(row)' /\ RowHeard(row)'
    <3>1. row.id \in Ids /\ RowCopied(row) /\ RowHeard(row)
      BY <1>5, <2>1, RowTypes
    <3>2. Editing(row.id)' <=> Editing(row.id)
      BY <1>1 DEF Editing
    <3>3. RowCopied(row)'
      BY <3>1, <3>2, <1>1 DEF RowCopied, CopiedAsListed
    <3>4. RowHeard(row)'
      BY <3>1, <3>2, <1>1, <1>2 DEF RowHeard, LastTold
    <3> QED
      BY <3>3, <3>4
  <2> QED
    BY <2>1, <1>1, <1>5, SameRows
<1> QED
  BY <1>4, <1>5

(* A worker is started again with the configuration of its handle, which   *)
(* is the list's unless an edit is under way.                              *)
LEMMA RestartSpawnsSafe ==
  ASSUME Basic, NEW id \in Ids, RestartSpawns(id)
  PROVE  Basic' /\ (Listed => Listed')
<1> DEFINE held == handle[id].config
<1>0. /\ TypeOK /\ Coherent /\ OneWorkerPerTerminal
      /\ worker \in [Ids -> Worker \cup {None}]
      /\ handle \in [Ids -> Handle \cup {None}]
      /\ unheard \subseteq Ids
  BY DEF Basic, TypeOK
<1>1. /\ UNCHANGED << slaves, running, engine, edit, started >>
      /\ handle[id] \in Handle /\ handle[id] # None
      /\ handle' = [handle EXCEPT ![id] = [@ EXCEPT !.phase = "spawned"]]
      /\ worker' = [worker EXCEPT ![id] = Booted(held)]
      /\ unheard' = unheard \ {id}
  BY <1>0 DEF RestartSpawns
<1>2. held \in Cfgs /\ Booted(held) \in Worker
  BY <1>1 DEF Handle, Booted, Worker
<1>3. /\ worker' \in [Ids -> Worker \cup {None}]
      /\ worker'[id] = Booted(held)
      /\ \A r \in Ids \ {id} : worker'[r] = worker[r]
  BY <1>0, <1>1, <1>2
<1>4. /\ handle' \in [Ids -> Handle \cup {None}]
      /\ \A r \in Ids \ {id} : handle'[r] = handle[r]
      /\ handle'[id] # None /\ handle'[id].config = held
      /\ handle'[id].terminal = handle[id].terminal
      /\ handle'[id].phase = "spawned"
  <2>1. handle'[id] = [handle[id] EXCEPT !.phase = "spawned"]
    BY <1>0, <1>1
  <2>2. handle'[id] \in Handle
    BY <1>1, <2>1 DEF Handle
  <2>3. /\ handle' \in [Ids -> Handle \cup {None}]
        /\ \A r \in Ids \ {id} : handle'[r] = handle[r]
    BY <1>0, <1>1, <2>1, <2>2
  <2> QED
    BY <1>1, <2>1, <2>2, <2>3, NoneIsNoRecord DEF Handle
<1>5. Basic'
  <2>1. TypeOK'
    BY <1>0, <1>1, <1>3, <1>4 DEF TypeOK
  <2>2. running
    <3>1. ~running => handle = Nobody
      BY <1>0 DEF Coherent
    <3> QED
      BY <3>1, <1>1 DEF Nobody
  <2>3. Coherent'
    BY <1>0, <1>1, <1>3, <1>4, <2>2 DEF Coherent
  <2>4. OneWorkerPerTerminal'
    BY <1>0, <1>1, <1>4 DEF OneWorkerPerTerminal
  <2> QED
    BY <2>1, <2>3, <2>4 DEF Basic
<1>6. ASSUME Listed PROVE Listed'
  <2>1. ASSUME NEW row \in Rows PROVE RowCopied(row)' /\ RowHeard(row)'
    <3>1. row.id \in Ids /\ RowCopied(row) /\ RowHeard(row)
      BY <1>6, <2>1, RowTypes
    <3>2. Editing(row.id)' <=> Editing(row.id)
      BY <1>1 DEF Editing
    <3>3. /\ handle'[row.id].config = handle[row.id].config
          /\ handle'[row.id].terminal = handle[row.id].terminal
      BY <3>1, <1>4
    <3>4. RowCopied(row)'
      BY <3>1, <3>2, <3>3, <1>1 DEF RowCopied, CopiedAsListed
    <3>5. RowHeard(row)'
      <4>1. CASE row.id # id
        <5>1. LastTold(row.id)' = LastTold(row.id)
          BY <4>1, <3>1, <1>3 DEF LastTold
        <5> QED
          BY <5>1, <4>1, <3>1, <3>2, <1>1, <1>3 DEF RowHeard
      <4>2. CASE row.id = id
        <5> SUFFICES ASSUME row.id \in started, ~Editing(row.id)
                     PROVE  LastTold(row.id)' = row.cfg
          BY <3>2, <1>1 DEF RowHeard
        <5>1. held = row.cfg
          BY <4>2, <3>1 DEF RowCopied, CopiedAsListed
        <5> HIDE DEF held
        <5>2. worker'[id].cfg = None /\ worker'[id].inbox = << held >>
          BY <1>3 DEF Booted
        <5>3. /\ << held >> \in Seq(Cfgs) /\ << held >> # << >>
              /\ << held >>[Len(<< held >>)] = held
          BY <1>2
        <5>4. Last(<< None >> \o << held >>) = held
          BY <5>3, LastToldCases
        <5> QED
          BY <5>1, <5>2, <5>4, <4>2 DEF LastTold
      <4> QED
        BY <4>1, <4>2
    <3> QED
      BY <3>4, <3>5
  <2> QED
    BY <2>1, <1>1, <1>6, SameRows
<1> QED
  BY <1>5, <1>6

(* What a step does that changes of one handle no more than its progress,  *)
(* and of an edit no more than which handle it has.                        *)
LEMMA HandleMoves ==
  ASSUME Basic, NEW id \in Ids, NEW new, handle[id] # None,
         new \in Handle, new.config = handle[id].config,
         new.terminal = handle[id].terminal,
         worker[id] # None /\ new.phase = "open" => new.seen = "alive",
         handle' = [handle EXCEPT ![id] = new],
         edit' \in Edit \cup {None}, edit' # None <=> edit # None,
         edit # None => edit'.id = edit.id /\ edit'.cfg = edit.cfg
                          /\ edit'.step = edit.step,
         UNCHANGED << slaves, running, engine, worker, started, unheard >>
  PROVE  Basic' /\ (Listed => Listed')
<1>0. /\ TypeOK /\ Coherent /\ OneWorkerPerTerminal
      /\ handle \in [Ids -> Handle \cup {None}]
  BY DEF Basic, TypeOK
<1>1. /\ handle' \in [Ids -> Handle \cup {None}]
      /\ \A r \in Ids \ {id} : handle'[r] = handle[r]
      /\ handle'[id] = new /\ new # None
  BY <1>0, NoneIsNoRecord
<1>2. Basic'
  <2>1. TypeOK'
    BY <1>0, <1>1 DEF TypeOK
  <2>2. running
    <3>1. ~running => handle = Nobody
      BY <1>0 DEF Coherent
    <3> QED
      BY <3>1 DEF Nobody
  <2>3. Coherent'
    BY <1>0, <1>1, <2>2 DEF Coherent
  <2>4. OneWorkerPerTerminal'
    BY <1>0, <1>1 DEF OneWorkerPerTerminal
  <2> QED
    BY <2>1, <2>3, <2>4 DEF Basic
<1>3. ASSUME Listed PROVE Listed'
  <2>1. ASSUME NEW row \in Rows PROVE RowCopied(row)' /\ RowHeard(row)'
    <3>1. row.id \in Ids /\ RowCopied(row) /\ RowHeard(row)
      BY <1>3, <2>1, RowTypes
    <3>2. /\ Editing(row.id)' <=> Editing(row.id)
          /\ Editing(row.id) => edit'.cfg = edit.cfg /\ edit'.step = edit.step
      BY DEF Editing
    <3>3. /\ handle'[row.id].config = handle[row.id].config
          /\ handle'[row.id].terminal = handle[row.id].terminal
      BY <3>1, <1>1
    <3>4. RowCopied(row)'
      BY <3>1, <3>2, <3>3 DEF RowCopied, CopiedAsListed
    <3>5. RowHeard(row)'
      BY <3>1, <3>2 DEF RowHeard, LastTold
    <3> QED
      BY <3>4, <3>5
  <2> QED
    BY <2>1, <1>3, SameRows
<1> QED
  BY <1>2, <1>3

LEMMA FindsDeadSafe ==
  ASSUME Basic, NEW id \in Ids, FindsDead(id)
  PROVE  Basic' /\ (Listed => Listed')
<1>0. handle \in [Ids -> Handle \cup {None}] /\ edit \in Edit \cup {None}
  BY DEF Basic, TypeOK
<1>1. PICK found \in {"gone", "fatal"} :
        handle' = [handle EXCEPT ![id] = [@ EXCEPT !.seen = found]]
  BY DEF FindsDead
<1> DEFINE new == [handle[id] EXCEPT !.seen = found]
<1>2. /\ handle[id] \in Handle /\ handle[id] # None /\ worker[id] = None
      /\ UNCHANGED << slaves, running, engine, worker, edit, started, unheard >>
  BY <1>0 DEF FindsDead
<1>3. /\ new \in Handle /\ new.config = handle[id].config
      /\ new.terminal = handle[id].terminal
  BY <1>2 DEF Handle
<1>4. handle' = [handle EXCEPT ![id] = new]
  BY <1>0, <1>1
<1> HIDE DEF new
<1> QED
  BY <1>0, <1>2, <1>3, <1>4, HandleMoves

LEMMA RestartInstallsSafe ==
  ASSUME Basic, NEW id \in Ids, RestartInstalls(id)
  PROVE  Basic' /\ (Listed => Listed')
<1> DEFINE new == [handle[id] EXCEPT !.phase = "open", !.seen = "alive"]
           mine == edit # None /\ edit.id = id /\ edit.fetched = "installed"
           left == IF handle[id].seen = "alive" THEN "closed" ELSE "none"
<1>0. handle \in [Ids -> Handle \cup {None}] /\ edit \in Edit \cup {None}
  BY DEF Basic, TypeOK
<1>1. /\ handle[id] \in Handle /\ handle[id] # None
      /\ handle' = [handle EXCEPT ![id].phase = "open", ![id].seen = "alive"]
      /\ edit' = IF mine THEN [edit EXCEPT !.fetched = left] ELSE edit
      /\ UNCHANGED << slaves, running, engine, worker, started, unheard >>
  BY <1>0 DEF RestartInstalls
<1>2. handle' = [handle EXCEPT ![id] = new]
  BY <1>0, <1>1
<1>3. /\ new \in Handle /\ new.config = handle[id].config
      /\ new.terminal = handle[id].terminal /\ new.seen = "alive"
  BY <1>1 DEF Handle
<1>4. /\ edit' \in Edit \cup {None} /\ (edit' # None <=> edit # None)
      /\ edit # None => edit'.id = edit.id /\ edit'.cfg = edit.cfg
                          /\ edit'.step = edit.step
  <2>1. CASE mine
    <3>1. edit \in Edit /\ left \in {"closed", "none"}
      BY <2>1, <1>0
    <3> HIDE DEF left
    <3>2. edit' = [edit EXCEPT !.fetched = left]
      BY <2>1, <1>1
    <3>3. edit' \in Edit
      BY <3>1, <3>2 DEF Edit
    <3> QED
      BY <2>1, <3>1, <3>2, <3>3, NoneIsNoRecord DEF Edit
  <2>2. CASE ~mine
    BY <2>2, <1>0, <1>1
  <2> QED
    BY <2>1, <2>2
<1> HIDE DEF new, mine, left
<1> QED
  BY <1>1, <1>2, <1>3, <1>4, HandleMoves

-----------------------------------------------------------------------------
LEMMA InitSafe == Init => Basic /\ Listed
<1> SUFFICES ASSUME Init PROVE Basic /\ Listed
  OBVIOUS
<1>1. /\ slaves = << >> /\ running = FALSE
      /\ engine = Nobody /\ handle = Nobody /\ worker = Nobody
      /\ edit = None /\ started = {} /\ unheard = {}
  BY DEF Init
<1>2. TypeOK
  <2>1. slaves \in Seq(AccountSpec)
    BY <1>1
  <2>2. /\ engine \in [Ids -> SlaveState \cup {None}]
        /\ handle \in [Ids -> Handle \cup {None}]
        /\ worker \in [Ids -> Worker \cup {None}]
    BY <1>1 DEF Nobody
  <2> QED
    BY <1>1, <2>1, <2>2 DEF TypeOK
<1>3. Coherent /\ OneWorkerPerTerminal
  BY <1>1 DEF Coherent, OneWorkerPerTerminal, Nobody
<1>4. Listed
  <2>1. DOMAIN slaves = {}
    BY <1>1
  <2> QED
    BY <2>1, <1>1 DEF Listed, IdsDiffer, Rows
<1> QED
  BY <1>2, <1>3, <1>4 DEF Basic

LEMMA StepSafe ==
  ASSUME Basic, [Next]_vars
  PROVE  Basic' /\ (Listed /\ DistinctIds => Listed')
<1>1. CASE Gui
  BY <1>1, AddSlaveSafe, RemoveSlaveSafe, EditSlaveSafe, StartSafe, StopSafe,
     UpdateEngineSafe, LookUpSafe, UpdateHandleSafe, TestPipeSafe,
     LookUpAgainSafe, SendReconfigureSafe DEF Gui
<1>2. ASSUME NEW id \in Ids, WorkerReads(id) \/ WorkerDies(id) \/ Restart(id)
      PROVE  Basic' /\ (Listed => Listed')
  BY <1>2, WorkerReadsSafe, WorkerDiesSafe, FindsDeadSafe, RestartSpawnsSafe,
     RestartInstallsSafe DEF Restart
<1>3. CASE UNCHANGED vars
  <2>1. Basic'
    BY <1>3 DEF vars, Basic, TypeOK, Coherent, OneWorkerPerTerminal
  <2>2. Listed => Listed'
    BY <1>3 DEF vars, Listed, IdsDiffer, Rows, RowIds, RowCopied, RowHeard,
                Editing, CopiedAsListed, LastTold
  <2> QED
    BY <2>1, <2>2
<1> QED
  BY <1>1, <1>2, <1>3 DEF Next

THEOREM BasicHolds == Spec => []Basic
  BY InitSafe, StepSafe, PTL DEF Spec

(* Whatever ids are typed: the state is of its type, ...                   *)
THEOREM TypeCorrect == Spec => []TypeOK
<1>1. Basic => TypeOK
  BY DEF Basic
<1> QED
  BY <1>1, BasicHolds, PTL

(* ... and no terminal is ever driven by two workers: Controller.start     *)
(* checks the terminals, an edit keeps the row's, and a restart the        *)
(* handle's.                                                               *)
THEOREM OneTerminalOneWorker == Spec => []OneWorkerPerTerminal
<1>1. Basic => OneWorkerPerTerminal
  BY DEF Basic
<1> QED
  BY <1>1, BasicHolds, PTL

(* With ids that differ, the list, the engine, the handles and the workers *)
(* stay in step.                                                           *)
THEOREM ListedHolds == ASSUME DistinctIds PROVE Spec => []Listed
<1>1. Init => Listed
  BY InitSafe
<1>2. Basic /\ Listed /\ [Next]_vars => Listed'
  BY StepSafe
<1> QED
  BY <1>1, <1>2, BasicHolds, PTL DEF Spec

(* Each slave of the list that copying was started with is copied to with  *)
(* the parameters the list shows, after any edits, removals, additions and *)
(* restarts (CopyEngine.update_slave_config, Supervisor.reconfigure_slave).*)
THEOREM SlavesAreCopied == ASSUME DistinctIds PROVE Spec => []EverySlaveIsCopied
<1>1. Basic /\ Listed => EverySlaveIsCopied
  <2> SUFFICES ASSUME Basic, Listed, edit = None, NEW i \in DOMAIN slaves,
                      slaves[i].id \in started
               PROVE  CopiedAsListed(slaves[i])
    BY DEF EverySlaveIsCopied, Basic
  <2>1. RowCopied(slaves[i])
    BY DEF Listed, Rows
  <2> QED
    BY <2>1 DEF RowCopied, Editing
<1> QED
  BY <1>1, BasicHolds, ListedHolds, PTL

(* A worker that has read all it was sent works with the parameters of the *)
(* list, unless it was spawned with the old ones and its handle installed  *)
(* after reconfigure_slave had looked the old handle up, or was still to be*)
(* installed when the edit ended (Supervisor._restart).                    *)
THEOREM WorkersHear == ASSUME DistinctIds PROVE Spec => []WorkerHears
<1>1. Basic /\ Listed => WorkerHears
  <2> SUFFICES ASSUME Basic, Listed, edit = None, NEW i \in DOMAIN slaves,
                      slaves[i].id \in started \ unheard,
                      worker[slaves[i].id] # None,
                      worker[slaves[i].id].inbox = << >>
               PROVE  worker[slaves[i].id].cfg = slaves[i].cfg
    BY DEF WorkerHears
  <2> DEFINE id == slaves[i].id
  <2>1. slaves[i] \in Rows
    BY DEF Rows
  <2>2. id \in Ids /\ RowHeard(slaves[i])
    BY <2>1, RowTypes
  <2>3. LastTold(id) = slaves[i].cfg
    BY <2>2 DEF RowHeard, Editing
  <2>4. worker[id] \in Worker
    BY <2>2 DEF Basic, TypeOK
  <2>5. worker[id].cfg \in Cfgs \cup {None} /\ worker[id].inbox \in Seq(Cfgs)
    BY <2>4 DEF Worker
  <2>6. LastTold(id) = worker[id].cfg
    BY <2>5, LastToldCases DEF LastTold
  <2> QED
    BY <2>3, <2>6
<1> QED
  BY <1>1, BasicHolds, ListedHolds, PTL
=============================================================================
