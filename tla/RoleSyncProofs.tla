---------------------------- MODULE RoleSyncProofs ----------------------------
(***************************************************************************)
(* Proofs about RoleSync, for any number of overlapping operations, names,  *)
(* users and row ids.                                                       *)
(***************************************************************************)
EXTENDS RoleSync, TLAPS

SeenRow == [id : RowIds, name : Names, synced : BOOLEAN]
Working == [kind : Kinds, pc : Stages, name : Names \cup {None},
            seen : SeenRow \cup {None}, subjects : SUBSET Users, code : Codes]

\* What an operation has at hand at its stage, whatever the others do.
Equipped(p) ==
    /\ p.kind = "create" => p.pc \in {"write", "persist", "complete", "undo"}
    /\ p.kind \in {"create", "update"} \/ p.pc = "import" => p.name \in Names
    /\ p.kind \in {"update", "delete"} /\ p.pc # "read" => p.seen \in SeenRow
    /\ p.pc \in {"createmissing", "rename", "marksynced", "fail"} => p.seen \in SeenRow

WellFormed(p) == p = Idle \/ (p \in Working /\ Equipped(p))

DataOK ==
    /\ row \in Row \cup {None}
    /\ assigned \in SUBSET Users
    /\ realmRole \in RealmRole \cup {None}

TypeInv == TypeOK /\ \A o \in Operations : WellFormed(op[o])

(***************************************************************************)
(* What holds besides, as long as the history is clean: one operation at a  *)
(* time is under way, what it has read is what there is, and it has         *)
(* announced in the row what it does in Keycloak.                           *)
(***************************************************************************)
Settled ==
    row # None =>
        /\ row.sync = "synced" \/ row.code \in {"update", "delete"} => Agree
        /\ row.code = "delete" => assigned \subseteq realmRole.members

Tracks(p) == Present(p.seen.id) /\ row.name = p.seen.name

CreationFits(p) ==
    p.pc = "persist" => row = None /\ realmRole # None /\ realmRole.name = p.name

ChangeFits(p) ==
    /\ p.pc # "read" => Tracks(p)
    /\ p.pc \notin {"read", "list", "mark"} => row.sync # "synced" /\ row.code = "none"
    /\ p.kind = "update" /\ p.pc = "persist" => realmRole # None /\ realmRole.name = p.name
    /\ p.kind = "delete" /\ p.pc \notin {"read", "list"} => p.subjects = assigned
    /\ p.pc = "reassign" => realmRole # None /\ realmRole.name = p.seen.name
    /\ p.pc = "fail" =>
          /\ p.code \in {"update", "delete"} => Agree
          /\ p.code = "delete" => assigned \subseteq realmRole.members

ReconciliationFits(p) ==
    /\ p.pc = "list" => IF p.seen = None THEN row = None ELSE Tracks(p)
    /\ p.pc \in {"createmissing", "rename", "marksynced"} => Tracks(p)
    /\ p.pc = "createmissing" => realmRole = None
    /\ p.pc = "marksynced" => Agree
    /\ p.pc = "import" => row = None /\ realmRole # None /\ realmRole.name = p.name
    /\ p.pc = "fail" => p.code \notin {"update", "delete"}

Fits(p) ==
    /\ p.kind = "create" => CreationFits(p)
    /\ p.kind \in {"update", "delete"} => ChangeFits(p)
    /\ p.kind \in {"reconcile", "ensure"} => ReconciliationFits(p)

Sole == \A o, p \in Operations : op[o] # Idle /\ op[p] # Idle => o = p

CleanInv == Settled /\ Sole /\ \A o \in Operations : op[o] # Idle => Fits(op[o])

Inv == TypeInv /\ (history = "clean" => CleanInv)

-----------------------------------------------------------------------------
LEMMA IdleIsNoWork == Idle \notin Working
BY DEF Idle, Working, Kinds

LEMMA TypeParts ==
    TypeOK <=> /\ DataOK /\ op \in [Operations -> {Idle} \cup Working]
               /\ history \in {"clean", "recreated", "disturbed"} /\ paused \in BOOLEAN
BY DEF TypeOK, DataOK, Working, SeenRow

LEMMA NextTypeParts ==
    TypeOK' <=> /\ DataOK' /\ op' \in [Operations -> {Idle} \cup Working]
                /\ history' \in {"clean", "recreated", "disturbed"} /\ paused' \in BOOLEAN
BY DEF TypeOK, DataOK, Working, SeenRow

LEMMA MadeIs ==
    ASSUME DataOK, NEW n \in Names
    PROVE  /\ Made(n) \in RealmRole /\ Made(n) # None /\ Made(n).name = n
           /\ realmRole # None => Made(n).members = realmRole.members
<1>1. CASE realmRole = None
  BY <1>1 DEF Made, RealmRole, None
<1>2. CASE realmRole # None
  <2>1. realmRole \in RealmRole
    BY <1>2 DEF DataOK
  <2>2. Made(n) = [realmRole EXCEPT !.name = n]
    BY <1>2 DEF Made
  <2>3. Made(n) \in RealmRole /\ Made(n).name = n /\ Made(n).members = realmRole.members
    BY <2>1, <2>2 DEF RealmRole
  <2> QED BY <2>3 DEF RealmRole, None
<1> QED BY <1>1, <1>2

LEMMA RenamedIs ==
    ASSUME DataOK, NEW n \in Names
    PROVE  IF realmRole = None THEN Renamed(n) = None
           ELSE /\ Renamed(n) \in RealmRole /\ Renamed(n) # None /\ Renamed(n).name = n
                /\ Renamed(n).members = realmRole.members
<1>1. CASE realmRole = None
  BY <1>1 DEF Renamed
<1>2. CASE realmRole # None
  <2>1. Renamed(n) = Made(n)
    BY <1>2 DEF Renamed, Made
  <2> QED BY <1>2, <2>1, MadeIs
<1> QED BY <1>1, <1>2

LEMMA MarkedIs ==
    ASSUME DataOK, NEW id \in RowIds, NEW s \in {"synced", "pending", "failed"}, NEW c \in Codes
    PROVE  /\ Marked(id, s, c) \in Row \cup {None}
           /\ (Marked(id, s, c) = None) = (row = None)
           /\ row # None => /\ Marked(id, s, c).id = row.id /\ Marked(id, s, c).name = row.name
                            /\ ~Present(id) => Marked(id, s, c) = row
                            /\ Present(id) => Marked(id, s, c).sync = s /\ Marked(id, s, c).code = c
<1>1. CASE Present(id)
  <2>1. row \in Row
    BY <1>1 DEF DataOK, Present
  <2>2. Marked(id, s, c) = [row EXCEPT !.sync = s, !.code = c]
    BY <1>1 DEF Marked, Present
  <2>3. /\ Marked(id, s, c) \in Row /\ Marked(id, s, c).id = row.id
        /\ Marked(id, s, c).name = row.name
        /\ Marked(id, s, c).sync = s /\ Marked(id, s, c).code = c
    BY <2>1, <2>2 DEF Row
  <2>4. None \notin Row
    BY DEF None, Row
  <2> QED BY <1>1, <2>3, <2>4 DEF Present
<1>2. CASE ~Present(id)
  BY <1>2 DEF Marked, Present, DataOK
<1> QED BY <1>1, <1>2

LEMMA NewRowIs ==
    ASSUME NEW n \in Names, FreshIds # {}
    PROVE  /\ NewRow(n) \in Row
           /\ NewRow(n).name = n /\ NewRow(n).code = "none"
<1>1. (CHOOSE i \in FreshIds : TRUE) \in RowIds
  BY DEF FreshIds
<1> QED BY <1>1 DEF NewRow, Row, Codes

LEMMA SeenIs ==
    ASSUME DataOK, row # None
    PROVE  Seen \in SeenRow /\ Seen.id = row.id /\ Seen.name = row.name
<1>1. row \in Row
  BY DEF DataOK
<1> QED BY <1>1 DEF Seen, SeenRow, Row
-----------------------------------------------------------------------------
(***************************************************************************)
(* A step of operation o turns what it does into q and moves nobody else.   *)
(***************************************************************************)
LEMMA Frame ==
    ASSUME Inv, NEW o \in Operations, NEW q, WellFormed(q),
           op' = [op EXCEPT ![o] = q], DataOK', paused' \in BOOLEAN,
           history' \in {"clean", "recreated", "disturbed"},
           history' = "clean" =>
               /\ history = "clean"
               /\ \A p \in Operations \ {o} : op[p] = Idle
               /\ Settled'
               /\ q # Idle => Fits(q)'
    PROVE  Inv'
<1>1. op \in [Operations -> {Idle} \cup Working]
  BY TypeParts DEF Inv, TypeInv
<1>2. q \in {Idle} \cup Working
  BY DEF WellFormed
<1>3. op' \in [Operations -> {Idle} \cup Working] /\ op'[o] = q
      /\ \A p \in Operations \ {o} : op'[p] = op[p]
  BY <1>1, <1>2
<1>4. TypeOK'
  BY <1>3, NextTypeParts
<1>5. \A p \in Operations : WellFormed(op[p])'
  BY <1>3 DEF Inv, TypeInv, WellFormed, Equipped
<1>6. ASSUME history' = "clean" PROVE CleanInv'
  <2>1. \A p \in Operations \ {o} : op'[p] = Idle
    BY <1>3, <1>6
  <2>2. Sole'
    BY <2>1 DEF Sole
  <2>3. ASSUME NEW p \in Operations, op'[p] # Idle PROVE Fits(op[p])'
    <3>1. p = o
      BY <2>1, <2>3
    <3>2. Fits(q)'
      BY <1>3, <1>6, <2>3, <3>1
    <3> QED BY <1>3, <3>1, <3>2 DEF Fits, CreationFits, ChangeFits, ReconciliationFits, Tracks
  <2> QED BY <1>6, <2>2, <2>3 DEF CleanInv
<1> QED BY <1>4, <1>5, <1>6 DEF Inv, TypeInv

\* A working operation is the only one while the history is clean.
LEMMA Alone ==
    ASSUME Inv, history = "clean", NEW o \in Operations, op[o] # Idle
    PROVE  /\ \A p \in Operations \ {o} : op[p] = Idle
           /\ Settled /\ Fits(op[o])
BY DEF Inv, CleanInv, Sole

LEMMA Shape ==
    ASSUME Inv, NEW o \in Operations, op[o] # Idle
    PROVE  op[o] \in Working /\ Equipped(op[o])
BY DEF Inv, TypeInv, WellFormed

\* q is p, only at stage pc and with the failure code c.
Becomes(p, q, pc, c) ==
    /\ q.kind = p.kind /\ q.name = p.name /\ q.seen = p.seen /\ q.subjects = p.subjects
    /\ q.pc = pc /\ q.code = c

\* What every step must show of the data and the history.
StepOK ==
    /\ DataOK' /\ UNCHANGED paused /\ history' \in {"clean", "recreated", "disturbed"}
    /\ history' = "clean" => history = "clean" /\ Settled'

LEMMA EndStep ==
    ASSUME Inv, NEW o \in Operations, op[o] # Idle, End(o), StepOK
    PROVE  Inv'
<1>1. history' = "clean" => \A p \in Operations \ {o} : op[p] = Idle
  BY Alone DEF StepOK
<1>2. paused' \in BOOLEAN
  BY TypeParts DEF Inv, TypeInv, StepOK
<1> QED BY <1>1, <1>2, Frame DEF End, StepOK, WellFormed

LEMMA FailStep ==
    ASSUME Inv, NEW o \in Operations, op[o] # Idle, NEW pc \in Stages, NEW c \in Codes,
           op' = [op EXCEPT ![o].pc = pc, ![o].code = c], StepOK,
           \A q : Becomes(op[o], q, pc, c) => Equipped(q) /\ (history' = "clean" => Fits(q)')
    PROVE  Inv'
<1>0. PICK q : q = [op[o] EXCEPT !.pc = pc, !.code = c]
  OBVIOUS
<1>1. op[o] \in Working
  BY Shape
<1>2. q \in Working /\ Becomes(op[o], q, pc, c)
  BY <1>0, <1>1 DEF Working, Becomes
<1>3. op' = [op EXCEPT ![o] = q]
  BY <1>0, TypeParts DEF Inv, TypeInv
<1>4. WellFormed(q)
  BY <1>2 DEF WellFormed
<1>5. history' = "clean" => Fits(q)' /\ \A p \in Operations \ {o} : op[p] = Idle
  BY <1>2, Alone DEF StepOK
<1>6. paused' \in BOOLEAN
  BY TypeParts DEF Inv, TypeInv, StepOK
<1> QED BY <1>3, <1>4, <1>5, <1>6, Frame DEF StepOK

LEMMA GotoStep ==
    ASSUME Inv, NEW o \in Operations, op[o] # Idle, NEW pc \in Stages, Goto(o, pc), StepOK,
           \A q : Becomes(op[o], q, pc, op[o].code)
                    => Equipped(q) /\ (history' = "clean" => Fits(q)')
    PROVE  Inv'
<1>1. op[o] \in Working
  BY Shape
<1>2. op[o].code \in Codes
  BY <1>1 DEF Working
<1>3. op' = [op EXCEPT ![o].pc = pc, ![o].code = op[o].code]
  <2>1. [op[o] EXCEPT !.pc = pc] = [op[o] EXCEPT !.pc = pc, !.code = op[o].code]
    BY <1>1 DEF Working
  <2> QED BY <2>1, TypeParts DEF Goto, Inv, TypeInv
<1> QED BY <1>2, <1>3, FailStep
-----------------------------------------------------------------------------
LEMMA CreateRoleKeeps ==
    ASSUME Inv, NEW o \in Operations, UNCHANGED paused, CreateRole(o) \/ CreateRoleFails(o)
    PROVE  Inv'
<1> USE DEF At
<1>1. /\ op[o] # Idle /\ op[o].kind = "create" /\ UNCHANGED <<row, assigned>>
      /\ op[o] \in Working /\ Equipped(op[o]) /\ DataOK
  BY Shape, TypeParts DEF CreateRole, CreateRoleFails, Inv, TypeInv
<1>2. op[o].name \in Names
  BY <1>1 DEF Equipped
<1>3. /\ Made(op[o].name) \in RealmRole /\ Made(op[o].name) # None
      /\ Made(op[o].name).name = op[o].name
  BY <1>1, <1>2, MadeIs
<1>4. history \in {"clean", "recreated", "disturbed"}
  BY TypeParts DEF Inv, TypeInv
<1>5. CASE realmRole' = Made(op[o].name) /\ NoteCreation
  <2>1. DataOK'
    BY <1>1, <1>3, <1>5 DEF DataOK
  <2>2. history' = "clean" => history = "clean" /\ row' = None
    BY <1>1, <1>4, <1>5 DEF NoteCreation
  <2>3. StepOK
    BY <1>4, <1>5, <2>1, <2>2 DEF StepOK, NoteCreation, Settled
  <2>4. CASE End(o)
    BY <1>1, <2>3, <2>4, EndStep
  <2>5. CASE Goto(o, "persist")
    <3>1. ASSUME NEW q, Becomes(op[o], q, "persist", op[o].code)
          PROVE  Equipped(q) /\ (history' = "clean" => Fits(q)')
      BY <1>1, <1>2, <1>3, <1>5, <2>2, <3>1
         DEF Becomes, Equipped, Fits, CreationFits
    <3>2. "persist" \in Stages
      BY DEF Stages
    <3> QED BY <1>1, <2>3, <2>5, <3>1, <3>2, GotoStep
  <2> QED BY <2>4, <2>5 DEF CreateRole, CreateRoleFails
<1>6. CASE UNCHANGED <<realmRole, history>> /\ End(o)
  <2>1. history = "clean" => Settled
    BY DEF Inv, CleanInv
  <2>2. StepOK
    BY <1>1, <1>4, <1>6, <2>1 DEF StepOK, DataOK, Settled, Agree
  <2> QED BY <1>1, <1>6, <2>2, EndStep
<1> QED BY <1>5, <1>6 DEF CreateRole, CreateRoleFails

LEMMA Context ==
    ASSUME Inv, NEW o \in Operations, op[o] # Idle
    PROVE  /\ DataOK /\ history \in {"clean", "recreated", "disturbed"}
           /\ op[o] \in Working /\ Equipped(op[o]) /\ op[o].code \in Codes
           /\ history = "clean" => Settled /\ Fits(op[o])
<1>1. op[o] \in Working
  BY Shape
<1> QED BY <1>1, Shape, Alone, TypeParts DEF Inv, TypeInv, Working

LEMMA StillOK ==
    ASSUME Inv, UNCHANGED <<row, assigned, realmRole, history, paused>>
    PROVE  StepOK
BY TypeParts DEF Inv, TypeInv, CleanInv, StepOK, DataOK, Settled, Agree

LEMMA PersistCreatedKeeps ==
    ASSUME Inv, NEW o \in Operations, UNCHANGED paused,
           PersistCreatedRole(o) \/ PersistCreatedFails(o)
    PROVE  Inv'
<1> USE DEF At
<1>1. /\ op[o] # Idle /\ op[o].kind = "create" /\ op[o].pc = "persist"
      /\ UNCHANGED <<assigned, realmRole>>
      /\ Goto(o, "complete") \/ Goto(o, "undo")
  BY DEF PersistCreatedRole, PersistCreatedFails
<1>2. op[o].name \in Names
  BY <1>1, Context DEF Equipped
<1>3. ASSUME NEW pc \in {"complete", "undo"}, NEW q, Becomes(op[o], q, pc, op[o].code)
      PROVE  Equipped(q) /\ (history' = "clean" => Fits(q)')
  BY <1>1, <1>2, <1>3 DEF Becomes, Equipped, Fits, CreationFits
<1>4. StepOK
  <2>1. CASE UNCHANGED <<row, history>>
    BY <1>1, <2>1, StillOK
  <2>2. CASE /\ FreshIds # {} /\ row' = NewRow(op[o].name)
             /\ history' \in {history, "disturbed"}
    <3>1. DataOK'
      BY <1>1, <1>2, <2>2, NewRowIs, Context DEF DataOK
    <3>2. history' = "clean" => history = "clean" /\ Agree'
      BY <1>1, <1>2, <2>2, NewRowIs, Context DEF Fits, CreationFits, Agree
    <3>3. row'.code = "none"
      BY <1>2, <2>2, NewRowIs
    <3> QED BY <1>1, <2>2, <3>1, <3>2, <3>3, Context DEF StepOK, Settled
  <2> QED BY <2>1, <2>2 DEF PersistCreatedRole, PersistCreatedFails, Disturb
<1>5. {"complete", "undo"} \subseteq Stages
  BY DEF Stages
<1>6. CASE Goto(o, "complete")
  BY <1>1, <1>3, <1>4, <1>5, <1>6, GotoStep
<1>7. CASE Goto(o, "undo")
  BY <1>1, <1>3, <1>4, <1>5, <1>7, GotoStep
<1> QED BY <1>1, <1>6, <1>7

LEMMA CreateEndKeeps ==
    ASSUME Inv, NEW o \in Operations, UNCHANGED paused,
           CompleteKey(o) \/ CompleteKeyFails(o) \/ UndoCreate(o)
    PROVE  Inv'
<1> USE DEF At
<1>1. CASE CompleteKey(o)
  BY <1>1, StillOK, EndStep DEF CompleteKey
<1>2. CASE CompleteKeyFails(o)
  <2>1. op[o] # Idle /\ op[o].kind = "create" /\ Goto(o, "undo") /\ "undo" \in Stages
    BY <1>2 DEF CompleteKeyFails, Stages
  <2>2. StepOK
    BY <1>2, StillOK DEF CompleteKeyFails
  <2>3. ASSUME NEW q, Becomes(op[o], q, "undo", op[o].code)
        PROVE  Equipped(q) /\ (history' = "clean" => Fits(q)')
    BY <2>1, <2>3, Context DEF Becomes, Equipped, Fits, CreationFits
  <2> QED BY <2>1, <2>2, <2>3, GotoStep
<1>3. CASE UndoCreate(o)
  <2>1. op[o] # Idle /\ End(o) /\ realmRole' = None /\ NoteCreation /\ UNCHANGED <<row, assigned>>
    BY <1>3 DEF UndoCreate
  <2>2. history' = "clean" => history = "clean" /\ row' = None
    BY <2>1 DEF NoteCreation
  <2>3. history' \in {"clean", "recreated", "disturbed"} /\ DataOK'
    BY <2>1, Context DEF NoteCreation, DataOK
  <2>4. StepOK
    BY <2>2, <2>3 DEF StepOK, Settled
  <2> QED BY <2>1, <2>4, EndStep
<1> QED BY <1>1, <1>2, <1>3

-----------------------------------------------------------------------------
LEMMA ReadKeeps ==
    ASSUME Inv, NEW o \in Operations, UNCHANGED paused,
           ReadRole(o) \/ LoadRoles(o) \/ ListSubjects(o) \/ ListRoles(o)
    PROVE  Inv'
<1> USE DEF At
<1>1. /\ op[o] # Idle /\ UNCHANGED <<row, assigned, realmRole, history>>
      /\ op[o] \in Working /\ Equipped(op[o]) /\ DataOK
  BY Context DEF ReadRole, LoadRoles, ListSubjects, ListRoles
<1>2. StepOK
  BY <1>1, StillOK
<1>3. CASE End(o)
  BY <1>1, <1>2, <1>3, EndStep
<1>4. op \in [Operations -> {Idle} \cup Working]
  BY TypeParts DEF Inv, TypeInv
<1>5. ASSUME NEW q, WellFormed(q), op' = [op EXCEPT ![o] = q],
             history = "clean" => Fits(q)'
      PROVE  Inv'
  <2>1. history' = "clean" => \A p \in Operations \ {o} : op[p] = Idle
    BY <1>1, Alone
  <2>2. paused' \in BOOLEAN
    BY TypeParts DEF Inv, TypeInv
  <2> QED BY <1>1, <1>2, <1>5, <2>1, <2>2, Frame DEF StepOK
<1>6. CASE ReadRole(o) /\ row # None
  <2>1. CASE op' = [op EXCEPT ![o].seen = Seen,
                              ![o].pc = IF op[o].kind = "delete" THEN "list" ELSE "mark"]
    <3>1. PICK q : q = [op[o] EXCEPT !.seen = Seen,
                              !.pc = IF op[o].kind = "delete" THEN "list" ELSE "mark"]
      OBVIOUS
    <3>2. op' = [op EXCEPT ![o] = q]
      BY <1>4, <2>1, <3>1
    <3>3. Seen \in SeenRow /\ Seen.id = row.id /\ Seen.name = row.name
      BY <1>1, <1>6, SeenIs
    <3>4. q \in Working
      BY <1>1, <3>1, <3>3 DEF Working, Stages
    <3>5. q.kind = op[o].kind /\ q.name = op[o].name /\ q.seen = Seen
          /\ q.pc = IF op[o].kind = "delete" THEN "list" ELSE "mark"
      BY <1>1, <3>1 DEF Working
    <3>6. op[o].kind \in {"update", "delete"}
      BY <1>6 DEF ReadRole
    <3>7. WellFormed(q)
      BY <1>1, <3>3, <3>4, <3>5, <3>6 DEF WellFormed, Equipped
    <3>8. Fits(q)'
      BY <1>1, <1>6, <3>3, <3>5, <3>6 DEF Fits, ChangeFits, Tracks, Present
    <3> QED BY <1>5, <3>2, <3>7, <3>8
  <2> QED BY <1>3, <1>6, <2>1 DEF ReadRole
<1>7. CASE LoadRoles(o)
  <2>1. CASE op' = [op EXCEPT ![o].seen = IF row = None THEN None ELSE Seen, ![o].pc = "list"]
    <3>1. PICK q : q = [op[o] EXCEPT !.seen = IF row = None THEN None ELSE Seen, !.pc = "list"]
      OBVIOUS
    <3>2. op' = [op EXCEPT ![o] = q]
      BY <1>4, <2>1, <3>1
    <3>3. row # None => Seen \in SeenRow /\ Seen.id = row.id /\ Seen.name = row.name
      BY <1>1, SeenIs
    <3>4. q \in Working
      BY <1>1, <3>1, <3>3 DEF Working, Stages
    <3>5. q.kind = op[o].kind /\ q.name = op[o].name /\ q.pc = "list"
          /\ q.seen = IF row = None THEN None ELSE Seen
      BY <1>1, <3>1 DEF Working
    <3>6. op[o].kind \in {"reconcile", "ensure"}
      BY <1>7 DEF LoadRoles
    <3>7. WellFormed(q)
      BY <1>1, <3>3, <3>4, <3>5, <3>6 DEF WellFormed, Equipped
    <3>8. None \notin SeenRow
      BY DEF None, SeenRow
    <3>9. Fits(q)'
      BY <1>1, <3>3, <3>5, <3>6, <3>8 DEF Fits, ReconciliationFits, Tracks, Present
    <3> QED BY <1>5, <3>2, <3>7, <3>9
  <2> QED BY <1>3, <1>7, <2>1 DEF LoadRoles
<1>8. CASE ListSubjects(o)
  <2> DEFINE S == IF Present(op[o].seen.id) THEN assigned ELSE {}
  <2>1. PICK q : q = [op[o] EXCEPT !.subjects = S, !.pc = "mark"]
    OBVIOUS
  <2>2. op' = [op EXCEPT ![o] = q]
    BY <1>4, <1>8, <2>1 DEF ListSubjects
  <2>3. S \in SUBSET Users
    BY <1>1 DEF DataOK
  <2>4. q \in Working /\ q.kind = op[o].kind /\ q.name = op[o].name /\ q.seen = op[o].seen
        /\ q.pc = "mark" /\ q.subjects = S
    BY <1>1, <2>1, <2>3 DEF Working, Stages
  <2>5. op[o].kind = "delete" /\ op[o].pc = "list"
    BY <1>8 DEF ListSubjects
  <2>6. WellFormed(q)
    BY <1>1, <2>4, <2>5 DEF WellFormed, Equipped
  <2>7. history = "clean" => Tracks(op[o])
    BY <1>1, <2>5, Context DEF Fits, ChangeFits
  <2>8. history = "clean" => Fits(q)'
    BY <1>1, <2>4, <2>5, <2>7 DEF Fits, ChangeFits, Tracks, Present
  <2> QED BY <1>5, <2>2, <2>6, <2>8
<1>9. CASE ListRoles(o)
  <2>1. CASE /\ Plan(o) # "nothing"
             /\ op' = [op EXCEPT ![o].pc = Plan(o),
                                 ![o].name = IF Plan(o) = "import" THEN realmRole.name ELSE None]
    <3> DEFINE n == IF Plan(o) = "import" THEN realmRole.name ELSE None
    <3>1. PICK q : q = [op[o] EXCEPT !.pc = Plan(o), !.name = n]
      OBVIOUS
    <3>2. op' = [op EXCEPT ![o] = q]
      BY <1>4, <2>1, <3>1
    <3>3. op[o].kind \in {"reconcile", "ensure"} /\ op[o].pc = "list"
      BY <1>9 DEF ListRoles
    <3>4. Plan(o) \in {"createmissing", "import", "rename", "marksynced"}
      BY <2>1 DEF Plan
    <3>5. realmRole # None => realmRole.name \in Names
      BY <1>1 DEF DataOK, RealmRole
    <3>6. Plan(o) = "import" => realmRole # None
      BY DEF Plan
    <3>7. q \in Working /\ q.kind = op[o].kind /\ q.name = n /\ q.seen = op[o].seen
          /\ q.pc = Plan(o)
      BY <1>1, <3>1, <3>4, <3>5, <3>6 DEF Working, Stages
    <3>8. Plan(o) # "import" => op[o].seen # None
      BY <2>1 DEF Plan
    <3>9. op[o].seen \in SeenRow \cup {None}
      BY <1>1 DEF Working
    <3>10. WellFormed(q)
      BY <3>3, <3>4, <3>5, <3>6, <3>7, <3>8, <3>9 DEF WellFormed, Equipped
    <3>11. ASSUME history = "clean" PROVE Fits(q)'
      <4>1. IF op[o].seen = None THEN row = None ELSE Tracks(op[o])
        BY <1>1, <3>3, <3>11, Context DEF Fits, ReconciliationFits
      <4>2. CASE Plan(o) \in {"createmissing", "rename"}
        <5>1. Plan(o) = "createmissing" => realmRole = None
          BY DEF Plan
        <5> QED BY <1>1, <3>3, <3>7, <3>8, <4>1, <4>2, <5>1 DEF Fits, ReconciliationFits, Tracks, Present
      <4>3. CASE Plan(o) = "marksynced"
        <5>1. realmRole # None /\ realmRole.name = op[o].seen.name
          BY <4>3 DEF Plan
        <5> QED BY <1>1, <3>3, <3>7, <3>8, <4>1, <4>3, <5>1 DEF Fits, ReconciliationFits, Tracks, Present, Agree
      <4>4. CASE Plan(o) = "import"
        <5>1. op[o].seen = None
          BY <4>4 DEF Plan
        <5> QED BY <1>1, <3>3, <3>6, <3>7, <4>1, <4>4, <5>1 DEF Fits, ReconciliationFits
      <4> QED BY <3>4, <4>2, <4>3, <4>4
    <3> QED BY <1>5, <3>2, <3>10, <3>11
  <2> QED BY <1>3, <1>9, <2>1 DEF ListRoles
<1> QED BY <1>3, <1>6, <1>7, <1>8, <1>9 DEF ReadRole
-----------------------------------------------------------------------------
LEMMA ChangeContext ==
    ASSUME Inv, NEW o \in Operations, op[o] # Idle,
           op[o].kind \in {"update", "delete"}, op[o].pc # "read"
    PROVE  /\ op[o].seen.id \in RowIds /\ op[o].seen.name \in Names
           /\ op[o].seen \in SeenRow /\ op[o].subjects \in SUBSET Users
           /\ history = "clean" => Tracks(op[o]) /\ ChangeFits(op[o])
<1>1. op[o].seen \in SeenRow /\ op[o].subjects \in SUBSET Users
  BY Context DEF Equipped, Working
<1> QED BY <1>1, Context DEF SeenRow, Fits, ChangeFits

LEMMA MarkPendingKeeps ==
    ASSUME Inv, NEW o \in Operations, UNCHANGED paused, MarkPending(o)
    PROVE  Inv'
<1>1. /\ op[o] # Idle /\ op[o].kind \in {"update", "delete"} /\ op[o].pc = "mark"
      /\ UNCHANGED <<assigned, realmRole, history>> /\ Goto(o, "write")
      /\ row' = Marked(op[o].seen.id, "pending", "none")
      /\ "write" \in Stages /\ "none" \in Codes
  BY DEF MarkPending, At, Stages, Codes
<1>2. op[o].seen \in SeenRow /\ op[o].seen.id \in RowIds /\ (history = "clean" => Tracks(op[o]) /\ ChangeFits(op[o]))
  BY <1>1, ChangeContext
<1>3. DataOK'
  BY <1>1, <1>2, Context, MarkedIs DEF DataOK
<1>4. history = "clean" => /\ row' # None /\ row'.id = row.id /\ row'.name = row.name
                           /\ row'.sync = "pending" /\ row'.code = "none"
  BY <1>1, <1>2, Context, MarkedIs DEF Tracks, Present
<1>5. StepOK
  BY <1>1, <1>3, <1>4, Context DEF StepOK, Settled
<1>6. ASSUME NEW q, Becomes(op[o], q, "write", op[o].code)
      PROVE  Equipped(q) /\ (history' = "clean" => Fits(q)')
  <2>1. Equipped(q)
    BY <1>1, <1>2, <1>6, Context DEF Becomes, Equipped
  <2>2. history' = "clean" => Fits(q)'
    BY <1>1, <1>2, <1>4, <1>6 DEF Becomes, Fits, ChangeFits, Tracks, Present
  <2> QED BY <2>1, <2>2
<1> QED BY <1>1, <1>5, <1>6, GotoStep

\* The row is announced: whatever happens to the realm role, nothing is promised.
LEMMA Unpromised ==
    ASSUME Inv, NEW o \in Operations, op[o] # Idle, op[o].kind \in {"update", "delete"},
           op[o].pc \notin {"read", "list", "mark", "fail"},
           UNCHANGED <<row, assigned, history, paused>>, realmRole' \in RealmRole \cup {None}
    PROVE  StepOK
<1>1. history = "clean" => row.sync # "synced" /\ row.code = "none"
  BY ChangeContext DEF ChangeFits
<1> QED BY <1>1, Context DEF StepOK, DataOK, Settled

LEMMA UpdateRoleKeeps ==
    ASSUME Inv, NEW o \in Operations, UNCHANGED paused, UpdateRole(o) \/ UpdateRoleFails(o)
    PROVE  Inv'
<1>1. /\ op[o] # Idle /\ op[o].kind = "update" /\ op[o].pc = "write"
      /\ UNCHANGED <<row, assigned, history>>
      /\ {"persist", "fail"} \subseteq Stages /\ "idp" \in Codes
  BY DEF UpdateRole, UpdateRoleFails, At, Stages, Codes
<1>2. op[o].seen \in SeenRow /\ op[o].name \in Names /\ (history = "clean" => Tracks(op[o]) /\ ChangeFits(op[o]))
  BY <1>1, Context, ChangeContext DEF Equipped
<1>3. realmRole' \in {realmRole, Renamed(op[o].name)}
  BY DEF UpdateRole, UpdateRoleFails
<1>4. realmRole' \in RealmRole \cup {None}
  BY <1>1, <1>2, <1>3, Context, RenamedIs DEF DataOK
<1>5. StepOK
  BY <1>1, <1>4, Unpromised
<1>6. CASE Goto(o, "persist") /\ realmRole # None /\ realmRole' = Renamed(op[o].name)
  <2>1. realmRole' # None /\ realmRole'.name = op[o].name
    BY <1>1, <1>2, <1>6, Context, RenamedIs
  <2>2. ASSUME NEW q, Becomes(op[o], q, "persist", op[o].code)
        PROVE  Equipped(q) /\ (history' = "clean" => Fits(q)')
    BY <1>1, <1>2, <2>1, <2>2 DEF Becomes, Equipped, Fits, ChangeFits, Tracks, Present
  <2> QED BY <1>1, <1>5, <1>6, <2>2, GotoStep
<1>7. CASE Fail(o, "idp")
  <2>1. ASSUME NEW q, Becomes(op[o], q, "fail", "idp")
        PROVE  Equipped(q) /\ (history' = "clean" => Fits(q)')
    BY <1>1, <1>2, <2>1 DEF Becomes, Equipped, Fits, ChangeFits, Tracks, Present
  <2> QED BY <1>1, <1>5, <1>7, <2>1, FailStep DEF Fail
<1> QED BY <1>6, <1>7 DEF UpdateRole, UpdateRoleFails

LEMMA PersistUpdatedKeeps ==
    ASSUME Inv, NEW o \in Operations, UNCHANGED paused,
           PersistUpdatedRole(o) \/ PersistUpdatedFails(o)
    PROVE  Inv'
<1>1. /\ op[o] # Idle /\ op[o].kind = "update" /\ op[o].pc = "persist"
      /\ UNCHANGED <<assigned, realmRole>> /\ "undo" \in Stages
  BY DEF PersistUpdatedRole, PersistUpdatedFails, At, Stages
<1>2. op[o].seen \in SeenRow /\ op[o].name \in Names /\ (history = "clean" => Tracks(op[o]) /\ ChangeFits(op[o]))
  BY <1>1, Context, ChangeContext DEF Equipped
<1>3. CASE Present(op[o].seen.id)
           /\ row' = [row EXCEPT !.name = op[o].name, !.sync = "synced", !.code = "none"]
           /\ ((End(o) /\ UNCHANGED history) \/ (Goto(o, "undo") /\ Disturb))
  <2>1. row \in Row
    BY <1>1, <1>3, Context DEF DataOK, Present
  <2>2. row' \in Row /\ row'.name = op[o].name /\ row'.code = "none"
    BY <1>2, <1>3, <2>1 DEF Row, Codes
  <2>3. history' = "clean" => history = "clean" /\ Agree'
    BY <1>1, <1>2, <1>3, <2>2 DEF Disturb, ChangeFits, Agree
  <2>4. StepOK
    BY <1>1, <1>3, <2>2, <2>3, Context DEF StepOK, Settled, DataOK, Disturb
  <2>5. CASE End(o)
    BY <1>1, <2>4, <2>5, EndStep
  <2>6. CASE Goto(o, "undo") /\ Disturb
    <3>1. ASSUME NEW q, Becomes(op[o], q, "undo", op[o].code)
          PROVE  Equipped(q) /\ (history' = "clean" => Fits(q)')
      BY <1>1, <1>2, <2>6, <3>1 DEF Becomes, Equipped, Disturb
    <3> QED BY <1>1, <2>4, <2>6, <3>1, GotoStep
  <2> QED BY <1>3, <2>5, <2>6
<1>4. CASE Goto(o, "undo") /\ UNCHANGED <<row, history>>
  <2>1. StepOK
    BY <1>1, <1>4, StillOK
  <2>2. ASSUME NEW q, Becomes(op[o], q, "undo", op[o].code)
        PROVE  Equipped(q) /\ (history' = "clean" => Fits(q)')
    BY <1>1, <1>2, <1>4, <2>2 DEF Becomes, Equipped, Fits, ChangeFits, Tracks, Present
  <2> QED BY <1>1, <1>4, <2>1, <2>2, GotoStep
<1>5. CASE PersistUpdatedRole(o)
  <2>1. UNCHANGED history
    BY <1>5 DEF PersistUpdatedRole
  <2>2. CASE /\ Present(op[o].seen.id) /\ End(o)
             /\ row' = [row EXCEPT !.name = op[o].name, !.sync = "synced", !.code = "none"]
    BY <1>3, <2>1, <2>2
  <2>3. CASE Goto(o, "undo") /\ UNCHANGED row
    BY <1>4, <2>1, <2>3
  <2> QED BY <1>5, <2>2, <2>3 DEF PersistUpdatedRole
<1>6. CASE PersistUpdatedFails(o)
  BY <1>3, <1>4, <1>6 DEF PersistUpdatedFails
<1> QED BY <1>5, <1>6

LEMMA UndoUpdateKeeps ==
    ASSUME Inv, NEW o \in Operations, UNCHANGED paused, UndoUpdate(o) \/ UndoUpdateFails(o)
    PROVE  Inv'
<1>1. /\ op[o] # Idle /\ op[o].kind = "update" /\ op[o].pc = "undo"
      /\ UNCHANGED <<row, assigned, history>>
      /\ "fail" \in Stages /\ {"update", "compensation"} \subseteq Codes
      /\ realmRole' \in {realmRole, Renamed(op[o].seen.name)}
  BY DEF UndoUpdate, UndoUpdateFails, At, Stages, Codes
<1>2. op[o].seen \in SeenRow /\ op[o].seen.name \in Names /\ op[o].name \in Names
      /\ (history = "clean" => Tracks(op[o]) /\ ChangeFits(op[o]))
  BY <1>1, Context, ChangeContext DEF Equipped
<1>3. realmRole' \in RealmRole \cup {None}
  BY <1>1, <1>2, Context, RenamedIs DEF DataOK
<1>4. StepOK
  BY <1>1, <1>3, Unpromised
<1>5. ASSUME NEW c \in {"update", "compensation"}, Fail(o, c),
             c = "update" => realmRole # None /\ realmRole' = Renamed(op[o].seen.name)
      PROVE  Inv'
  <2>1. c = "update" => realmRole' # None /\ realmRole'.name = op[o].seen.name
    BY <1>1, <1>2, <1>5, Context, RenamedIs
  <2>2. ASSUME NEW q, Becomes(op[o], q, "fail", c)
        PROVE  Equipped(q) /\ (history' = "clean" => Fits(q)')
    BY <1>1, <1>2, <2>1, <2>2 DEF Becomes, Equipped, Fits, ChangeFits, Tracks, Present, Agree
  <2> QED BY <1>1, <1>4, <1>5, <2>2, FailStep DEF Fail
<1>6. CASE UndoUpdate(o)
  <2>1. /\ Fail(o, IF realmRole # None THEN "update" ELSE "compensation")
        /\ realmRole' = Renamed(op[o].seen.name)
    BY <1>6 DEF UndoUpdate
  <2>2. CASE realmRole # None
    <3>1. Fail(o, "update")
      BY <2>1, <2>2 DEF Fail
    <3> QED BY <1>5, <2>1, <2>2, <3>1
  <2>3. CASE realmRole = None
    <3>1. Fail(o, "compensation")
      BY <2>1, <2>3 DEF Fail
    <3> QED BY <1>5, <3>1
  <2> QED BY <2>2, <2>3
<1>7. CASE UndoUpdateFails(o)
  <2>1. Fail(o, "compensation")
    BY <1>7 DEF UndoUpdateFails
  <2> QED BY <1>5, <2>1
<1> QED BY <1>6, <1>7

LEMMA DeleteRoleKeeps ==
    ASSUME Inv, NEW o \in Operations, UNCHANGED paused, DeleteRole(o) \/ DeleteRoleFails(o)
    PROVE  Inv'
<1>1. /\ op[o] # Idle /\ op[o].kind = "delete" /\ op[o].pc = "write"
      /\ UNCHANGED <<row, assigned, history>> /\ realmRole' \in {realmRole, None}
      /\ {"persist", "fail"} \subseteq Stages /\ "idp" \in Codes
  BY DEF DeleteRole, DeleteRoleFails, At, Stages, Codes
<1>2. op[o].seen \in SeenRow /\ (history = "clean" => Tracks(op[o]) /\ ChangeFits(op[o]))
  BY <1>1, ChangeContext
<1>3. StepOK
  <2>1. realmRole' \in RealmRole \cup {None}
    BY <1>1, Context DEF DataOK
  <2> QED BY <1>1, <2>1, Unpromised
<1>4. CASE Goto(o, "persist")
  <2>1. ASSUME NEW q, Becomes(op[o], q, "persist", op[o].code)
        PROVE  Equipped(q) /\ (history' = "clean" => Fits(q)')
    BY <1>1, <1>2, <2>1 DEF Becomes, Equipped, Fits, ChangeFits, Tracks, Present
  <2> QED BY <1>1, <1>3, <1>4, <2>1, GotoStep
<1>5. CASE Fail(o, "idp")
  <2>1. ASSUME NEW q, Becomes(op[o], q, "fail", "idp")
        PROVE  Equipped(q) /\ (history' = "clean" => Fits(q)')
    BY <1>1, <1>2, <2>1 DEF Becomes, Equipped, Fits, ChangeFits, Tracks, Present
  <2> QED BY <1>1, <1>3, <1>5, <2>1, FailStep DEF Fail
<1> QED BY <1>4, <1>5 DEF DeleteRole, DeleteRoleFails

LEMMA DeleteRowsKeeps ==
    ASSUME Inv, NEW o \in Operations, UNCHANGED paused,
           DeleteFromDatabase(o) \/ DeleteFromDatabaseFails(o)
    PROVE  Inv'
<1>1. /\ op[o] # Idle /\ op[o].kind = "delete" /\ op[o].pc = "persist"
      /\ UNCHANGED realmRole /\ "undo" \in Stages
  BY DEF DeleteFromDatabase, DeleteFromDatabaseFails, At, Stages
<1>2. op[o].seen \in SeenRow /\ (history = "clean" => Tracks(op[o]) /\ ChangeFits(op[o]))
  BY <1>1, ChangeContext
<1>3. ASSUME DeleteRows(op[o].seen.id), history' \in {history, "disturbed"}
      PROVE  StepOK
  <2>1. DataOK'
    <3>1. row' \in {row, None} /\ assigned' \in {assigned, {}}
      BY <1>3 DEF DeleteRows
    <3> QED BY <1>1, <3>1, Context DEF DataOK
  <2>2. history' = "clean" => history = "clean" /\ row' = None
    BY <1>2, <1>3 DEF DeleteRows, Tracks
  <2>3. history' \in {"clean", "recreated", "disturbed"}
    BY <1>1, <1>3, Context
  <2>4. history' = "clean" => Settled'
    BY <2>2 DEF Settled
  <2> QED BY <2>1, <2>2, <2>3, <2>4 DEF StepOK
<1>4. ASSUME UNCHANGED <<row, assigned, history>> PROVE StepOK
  BY <1>1, <1>4, StillOK
<1>5. StepOK
  BY <1>3, <1>4 DEF DeleteFromDatabase, DeleteFromDatabaseFails, Disturb
<1>6. CASE DeleteFromDatabase(o)
  BY <1>1, <1>5, <1>6, EndStep DEF DeleteFromDatabase
<1>7. CASE DeleteFromDatabaseFails(o)
  <2>1. history' = "clean" => UNCHANGED <<row, assigned, history>>
    BY <1>7 DEF DeleteFromDatabaseFails, Disturb
  <2>2. ASSUME NEW q, Becomes(op[o], q, "undo", op[o].code)
        PROVE  Equipped(q) /\ (history' = "clean" => Fits(q)')
    BY <1>1, <1>2, <2>1, <2>2 DEF Becomes, Equipped, Fits, ChangeFits, Tracks, Present
  <2> QED BY <1>1, <1>5, <1>7, <2>2, GotoStep DEF DeleteFromDatabaseFails
<1> QED BY <1>6, <1>7

LEMMA UndoDeleteKeeps ==
    ASSUME Inv, NEW o \in Operations, UNCHANGED paused,
           UndoDelete(o) \/ Reassign(o) \/ UndoDeleteFails(o)
    PROVE  Inv'
<1>1. /\ op[o] # Idle /\ op[o].kind = "delete" /\ op[o].pc \in {"undo", "reassign"}
      /\ UNCHANGED <<row, assigned, history>>
      /\ {"reassign", "fail"} \subseteq Stages /\ "delete" \in Codes
  BY DEF UndoDelete, Reassign, UndoDeleteFails, At, Stages, Codes
<1>2. /\ op[o].seen \in SeenRow /\ op[o].seen.name \in Names /\ op[o].subjects \in SUBSET Users
      /\ history = "clean" => Tracks(op[o]) /\ ChangeFits(op[o])
  BY <1>1, ChangeContext
<1>3. ASSUME NEW S \in SUBSET Users, realmRole # None
      PROVE  LET new == [realmRole EXCEPT !.members = @ \cup S] IN
             new \in RealmRole /\ new # None /\ new.name = realmRole.name
                /\ new.members = realmRole.members \cup S
  <2>1. realmRole \in RealmRole
    BY <1>1, <1>3, Context DEF DataOK
  <2> DEFINE new == [realmRole EXCEPT !.members = @ \cup S]
  <2>2. new \in RealmRole /\ new.name = realmRole.name /\ new.members = realmRole.members \cup S
    BY <2>1 DEF RealmRole
  <2>3. None \notin RealmRole
    BY DEF None, RealmRole
  <2> QED BY <2>2, <2>3
<1>4. CASE UndoDelete(o)
  <2>1. realmRole' = Made(op[o].seen.name) /\ Goto(o, "reassign") /\ op[o].pc = "undo"
    BY <1>4 DEF UndoDelete, At
  <2>2. realmRole' \in RealmRole /\ realmRole' # None /\ realmRole'.name = op[o].seen.name
    BY <1>1, <1>2, <2>1, Context, MadeIs
  <2>3. StepOK
    BY <1>1, <2>1, <2>2, Unpromised
  <2>4. ASSUME NEW q, Becomes(op[o], q, "reassign", op[o].code)
        PROVE  Equipped(q) /\ (history' = "clean" => Fits(q)')
    BY <1>1, <1>2, <2>1, <2>2, <2>4 DEF Becomes, Equipped, Fits, ChangeFits, Tracks, Present
  <2> QED BY <1>1, <2>1, <2>3, <2>4, GotoStep
<1>5. CASE Reassign(o)
  <2>1. op[o].pc = "reassign"
    BY <1>5 DEF Reassign, At
  <2>2. CASE /\ realmRole # None /\ Fail(o, "delete")
             /\ realmRole' = [realmRole EXCEPT !.members = @ \cup op[o].subjects]
    <3>1. realmRole' \in RealmRole /\ realmRole' # None /\ realmRole'.name = realmRole.name
          /\ realmRole'.members = realmRole.members \cup op[o].subjects
      BY <1>2, <1>3, <2>2
    <3>2. StepOK
      BY <1>1, <2>1, <3>1, Unpromised
    <3>3. ASSUME NEW q, Becomes(op[o], q, "fail", "delete")
          PROVE  Equipped(q) /\ (history' = "clean" => Fits(q)')
      BY <1>1, <1>2, <2>1, <3>1, <3>3 DEF Becomes, Equipped, Fits, ChangeFits, Tracks, Present, Agree
    <3> QED BY <1>1, <2>2, <3>2, <3>3, FailStep DEF Fail
  <2>3. CASE realmRole = None /\ UNCHANGED realmRole /\ (Fail(o, "delete") \/ End(o))
    <3>1. history # "clean"
      BY <1>1, <1>2, <2>1, <2>3 DEF ChangeFits
    <3>2. StepOK
      BY <1>1, <2>3, StillOK
    <3>3. ASSUME NEW q, Becomes(op[o], q, "fail", "delete")
          PROVE  Equipped(q) /\ (history' = "clean" => Fits(q)')
      BY <1>1, <1>2, <3>1, <3>3 DEF Becomes, Equipped
    <3>4. CASE Fail(o, "delete")
      BY <1>1, <3>2, <3>3, <3>4, FailStep DEF Fail
    <3> QED BY <1>1, <2>3, <3>2, <3>4, EndStep
  <2> QED BY <1>5, <2>2, <2>3 DEF Reassign
<1>6. CASE UndoDeleteFails(o)
  <2>1. realmRole' \in RealmRole \cup {None}
    <3>1. CASE realmRole' \in {realmRole, Made(op[o].seen.name)}
      BY <1>1, <1>2, <3>1, Context, MadeIs DEF DataOK
    <3>2. CASE realmRole # None /\ \E S \in SUBSET op[o].subjects :
                  realmRole' = [realmRole EXCEPT !.members = @ \cup S]
      BY <1>2, <1>3, <3>2
    <3> QED BY <1>6, <3>1, <3>2 DEF UndoDeleteFails
  <2>2. StepOK
    BY <1>1, <2>1, Unpromised
  <2> QED BY <1>1, <1>6, <2>2, EndStep DEF UndoDeleteFails
<1> QED BY <1>4, <1>5, <1>6

LEMMA MarkFailedKeeps ==
    ASSUME Inv, NEW o \in Operations, UNCHANGED paused, MarkFailed(o)
    PROVE  Inv'
<1>1. /\ op[o] # Idle /\ op[o].kind \in Kinds /\ op[o].pc = "fail" /\ End(o)
      /\ UNCHANGED <<assigned, realmRole, history>>
      /\ row' = Marked(op[o].seen.id, "failed", op[o].code)
  BY DEF MarkFailed, At
<1>2. op[o].seen.id \in RowIds /\ op[o].code \in Codes
  BY <1>1, Context DEF Equipped, SeenRow
<1>3. DataOK'
  BY <1>1, <1>2, Context, MarkedIs DEF DataOK
<1>4. ASSUME history = "clean" PROVE Settled'
  <2>1. Settled /\ Fits(op[o])
    BY <1>1, <1>4, Context
  <2>2. CASE row # None /\ Present(op[o].seen.id)
    <3>1. row'.sync = "failed" /\ row'.code = op[o].code /\ row'.name = row.name /\ row # None
      BY <1>1, <1>2, <2>2, Context, MarkedIs
    <3>2. /\ op[o].code \in {"update", "delete"} => Agree
          /\ op[o].code = "delete" => assigned \subseteq realmRole.members
      BY <1>1, <2>1, Context DEF Fits, ChangeFits, ReconciliationFits, Kinds, Equipped
    <3> QED BY <1>1, <3>1, <3>2 DEF Settled, Agree
  <2>3. CASE row = None
    <3>1. row' = None
      BY <1>1, <1>2, <2>3, Context, MarkedIs
    <3> QED BY <3>1 DEF Settled
  <2>4. CASE row # None /\ ~Present(op[o].seen.id)
    <3>1. row' = row
      BY <1>1, <1>2, <2>4, Context, MarkedIs
    <3> QED BY <1>1, <2>1, <3>1 DEF Settled, Agree
  <2> QED BY <2>2, <2>3, <2>4
<1>5. StepOK
  BY <1>1, <1>3, <1>4, Context DEF StepOK
<1> QED BY <1>1, <1>5, EndStep

LEMMA ReconciliationContext ==
    ASSUME Inv, NEW o \in Operations, op[o] # Idle, op[o].kind \in {"reconcile", "ensure"},
           op[o].pc \in {"createmissing", "rename", "marksynced"}
    PROVE  /\ op[o].seen \in SeenRow /\ op[o].seen.id \in RowIds /\ op[o].seen.name \in Names
           /\ history = "clean" => Settled /\ Tracks(op[o]) /\ ReconciliationFits(op[o])
<1>1. op[o].seen \in SeenRow
  BY Context DEF Equipped
<1> QED BY <1>1, Context DEF SeenRow, Fits, ReconciliationFits

\* The realm role takes the name of the row that the reconciliation has read.
LEMMA NamedAsSeen ==
    ASSUME Inv, NEW o \in Operations, op[o] # Idle, op[o].kind \in {"reconcile", "ensure"},
           UNCHANGED <<row, assigned, history, paused>>,
           \/ op[o].pc = "createmissing" /\ realmRole' \in {realmRole, Made(op[o].seen.name)}
           \/ op[o].pc = "rename" /\ realmRole' \in {realmRole, Renamed(op[o].seen.name)}
    PROVE  StepOK
<1>1. /\ op[o].seen.name \in Names
      /\ history = "clean" => Settled /\ Tracks(op[o]) /\ ReconciliationFits(op[o])
  BY ReconciliationContext
<1>2. DataOK'
  BY <1>1, Context, MadeIs, RenamedIs DEF DataOK
<1>3. ASSUME history = "clean" PROVE Settled'
  <2>1. CASE realmRole' = realmRole
    BY <1>1, <1>3, <2>1 DEF Settled, Agree
  <2>2. CASE op[o].pc = "createmissing" /\ realmRole' = Made(op[o].seen.name)
    <3>1. realmRole = None
      BY <1>1, <1>3, <2>2 DEF ReconciliationFits
    <3>2. row # None /\ ~(row.sync = "synced" \/ row.code \in {"update", "delete"})
      BY <1>1, <1>3, <3>1 DEF Settled, Agree, Tracks, Present
    <3> QED BY <3>2 DEF Settled
  <2>3. CASE op[o].pc = "rename" /\ realmRole' = Renamed(op[o].seen.name) /\ realmRole # None
    <3>1. realmRole' # None /\ realmRole'.name = row.name /\ realmRole'.members = realmRole.members
      BY <1>1, <1>3, <2>3, Context, RenamedIs DEF Tracks
    <3> QED BY <1>1, <1>3, <3>1 DEF Settled, Agree
  <2>4. CASE realmRole' = Renamed(op[o].seen.name) /\ realmRole = None
    <3>1. realmRole' = realmRole
      BY <2>4 DEF Renamed
    <3> QED BY <2>1, <3>1
  <2> QED BY <2>1, <2>2, <2>3, <2>4
<1> QED BY <1>2, <1>3, Context DEF StepOK

LEMMA CorrectionKeeps ==
    ASSUME Inv, NEW o \in Operations, UNCHANGED paused, CreateMissing(o) \/ UpdateMatched(o)
    PROVE  Inv'
<1>1. /\ op[o] # Idle /\ op[o].kind \in {"reconcile", "ensure"}
      /\ op[o].pc \in {"createmissing", "rename"}
      /\ UNCHANGED <<row, assigned, history>>
      /\ {"marksynced", "fail"} \subseteq Stages /\ "idp" \in Codes
  BY DEF CreateMissing, UpdateMatched, At, Stages, Codes
<1>2. /\ op[o].seen \in SeenRow /\ op[o].seen.name \in Names
      /\ history = "clean" => Settled /\ Tracks(op[o]) /\ ReconciliationFits(op[o])
  BY <1>1, ReconciliationContext
<1>3. StepOK
  BY <1>1, NamedAsSeen DEF CreateMissing, UpdateMatched, At
<1>4. CASE Goto(o, "marksynced") /\ realmRole' # None /\ realmRole'.name = op[o].seen.name
  <2>1. ASSUME NEW q, Becomes(op[o], q, "marksynced", op[o].code)
        PROVE  Equipped(q) /\ (history' = "clean" => Fits(q)')
    BY <1>1, <1>2, <1>4, <2>1
       DEF Becomes, Equipped, Fits, ReconciliationFits, Tracks, Present, Agree
  <2> QED BY <1>1, <1>3, <1>4, <2>1, GotoStep
<1>5. CASE Fail(o, "idp")
  <2>1. ASSUME NEW q, Becomes(op[o], q, "fail", "idp")
        PROVE  Equipped(q) /\ (history' = "clean" => Fits(q)')
    BY <1>1, <1>2, <2>1 DEF Becomes, Equipped, Fits, ReconciliationFits
  <2> QED BY <1>1, <1>3, <1>5, <2>1, FailStep DEF Fail
<1>6. CASE CreateMissing(o)
  <2>1. realmRole' = Made(op[o].seen.name) /\ Goto(o, "marksynced")
    BY <1>6 DEF CreateMissing
  <2> QED BY <1>1, <1>2, <1>4, <2>1, Context, MadeIs
<1>7. CASE UpdateMatched(o) /\ realmRole # None
  <2>1. realmRole' = Renamed(op[o].seen.name) /\ Goto(o, "marksynced")
    BY <1>7 DEF UpdateMatched
  <2> QED BY <1>1, <1>2, <1>4, <1>7, <2>1, Context, RenamedIs
<1>8. CASE UpdateMatched(o) /\ realmRole = None
  <2>1. Fail(o, "idp")
    BY <1>8 DEF UpdateMatched
  <2> QED BY <1>5, <2>1
<1> QED BY <1>6, <1>7, <1>8

LEMMA MarkedSyncedOK ==
    ASSUME Inv, NEW o \in Operations, op[o] # Idle, op[o].kind \in {"reconcile", "ensure"},
           op[o].pc = "marksynced", UNCHANGED <<assigned, realmRole, history, paused>>,
           row' \in {row, Marked(op[o].seen.id, "synced", "none")}
    PROVE  StepOK
<1>1. /\ op[o].seen.id \in RowIds
      /\ history = "clean" => Settled /\ Tracks(op[o]) /\ ReconciliationFits(op[o])
  BY ReconciliationContext
<1>2. "none" \in Codes
  BY DEF Codes
<1>3. DataOK'
  BY <1>1, <1>2, Context, MarkedIs DEF DataOK
<1>4. ASSUME history = "clean" PROVE Settled'
  <2>1. CASE row' = row
    BY <1>1, <1>4, <2>1 DEF Settled, Agree
  <2>2. CASE row' = Marked(op[o].seen.id, "synced", "none")
    <3>1. row'.name = row.name /\ row'.code = "none"
      BY <1>1, <1>2, <1>4, <2>2, Context, MarkedIs DEF Tracks, Present
    <3>2. Agree
      BY <1>1, <1>4 DEF ReconciliationFits
    <3> QED BY <3>1, <3>2 DEF Settled, Agree
  <2> QED BY <2>1, <2>2
<1> QED BY <1>3, <1>4, Context DEF StepOK

LEMMA MarkSyncedKeeps ==
    ASSUME Inv, NEW o \in Operations, UNCHANGED paused, MarkSynced(o)
    PROVE  Inv'
<1>1. StepOK
  BY MarkedSyncedOK DEF MarkSynced, At
<1> QED BY <1>1, EndStep DEF MarkSynced, At

LEMMA CorrectionFailsKeeps ==
    ASSUME Inv, NEW o \in Operations, UNCHANGED paused, CorrectionFails(o)
    PROVE  Inv'
<1>1. /\ op[o] # Idle /\ op[o].kind \in {"reconcile", "ensure"}
      /\ op[o].pc \in {"createmissing", "rename", "marksynced"}
      /\ UNCHANGED <<assigned, history>> /\ Fail(o, "idp")
      /\ "fail" \in Stages /\ "idp" \in Codes
  BY DEF CorrectionFails, At, Stages, Codes
<1>2. StepOK
  BY <1>1, NamedAsSeen, MarkedSyncedOK DEF CorrectionFails, At
<1>3. op[o].seen \in SeenRow
  BY <1>1, ReconciliationContext
<1>4. ASSUME NEW q, Becomes(op[o], q, "fail", "idp")
      PROVE  Equipped(q) /\ (history' = "clean" => Fits(q)')
  BY <1>1, <1>3, <1>4 DEF Becomes, Equipped, Fits, ReconciliationFits
<1> QED BY <1>1, <1>2, <1>4, FailStep DEF Fail

LEMMA ImportKeeps ==
    ASSUME Inv, NEW o \in Operations, UNCHANGED paused, Import(o)
    PROVE  Inv'
<1>1. /\ op[o] # Idle /\ op[o].kind = "reconcile" /\ op[o].pc = "import"
      /\ UNCHANGED <<assigned, realmRole, history>> /\ End(o)
  BY DEF Import, At
<1>2. op[o].name \in Names
  BY <1>1, Context DEF Equipped
<1>3. CASE row = None /\ FreshIds # {} /\ row' = NewRow(op[o].name)
  <2>1. row' \in Row /\ row'.name = op[o].name /\ row'.code = "none"
    BY <1>2, <1>3, NewRowIs
  <2>2. DataOK'
    BY <1>1, <2>1, Context DEF DataOK
  <2>3. history = "clean" => Agree'
    BY <1>1, <2>1, Context DEF Fits, ReconciliationFits, Agree
  <2>4. StepOK
    BY <1>1, <2>1, <2>2, <2>3, Context DEF StepOK, Settled
  <2> QED BY <1>1, <2>4, EndStep
<1>4. CASE UNCHANGED row
  BY <1>1, <1>4, StillOK, EndStep
<1> QED BY <1>3, <1>4 DEF Import

LEMMA CrashKeeps ==
    ASSUME Inv, NEW o \in Operations, UNCHANGED paused, Crash(o)
    PROVE  Inv'
BY StillOK, EndStep DEF Crash

LEMMA BeginKeeps ==
    ASSUME Inv, NEW o \in Operations, UNCHANGED paused,
           NEW k \in Kinds, NEW n \in Names \cup {None}, Begin(o, k, n)
    PROVE  Inv'
<1>1. PICK q : q = [kind |-> k, pc |-> IF k = "create" THEN "write" ELSE "read",
                    name |-> n, seen |-> None, subjects |-> {}, code |-> "none"]
  OBVIOUS
<1>2. op' = [op EXCEPT ![o] = q] /\ UNCHANGED <<row, assigned, realmRole>>
      /\ (k \in {"create", "update"} <=> n # None)
  BY <1>1 DEF Begin
<1>3. WellFormed(q)
  BY <1>1, <1>2 DEF WellFormed, Working, Equipped, Stages, Codes
<1>4. history' \in {"clean", "recreated", "disturbed"}
  BY TypeParts DEF Begin, Disturb, Inv, TypeInv
<1>5. history' = "clean" => history = "clean" /\ \A p \in Operations : op[p] = Idle
  BY DEF Begin, Disturb
<1>6. DataOK' /\ paused' \in BOOLEAN
  BY <1>2, TypeParts DEF Inv, TypeInv, DataOK
<1>7. history = "clean" => Settled'
  BY <1>2 DEF Inv, CleanInv, Settled, Agree
<1>8. Fits(q)'
  BY <1>1 DEF Fits, CreationFits, ChangeFits, ReconciliationFits, Kinds
<1> QED BY <1>2, <1>3, <1>4, <1>5, <1>6, <1>7, <1>8, Frame

LEMMA UntouchedKeeps ==
    ASSUME Inv, UNCHANGED <<row, assigned, realmRole, op, history>>, paused' \in BOOLEAN
    PROVE  Inv'
<1>1. TypeOK'
  BY TypeParts, NextTypeParts DEF Inv, TypeInv, DataOK
<1>2. \A o \in Operations : WellFormed(op[o])'
  BY DEF Inv, TypeInv, WellFormed, Equipped
<1>3. history' = "clean" => CleanInv'
  BY DEF Inv, CleanInv, Settled, Agree, Sole, Fits, CreationFits, ChangeFits,
         ReconciliationFits, Tracks, Present
<1> QED BY <1>1, <1>2, <1>3 DEF Inv, TypeInv
-----------------------------------------------------------------------------
LEMMA InitInv == Init => Inv
<1> SUFFICES ASSUME Init PROVE Inv
  OBVIOUS
<1>1. DataOK
  <2>1. (CHOOSE i \in RowIds : TRUE) \in RowIds
    BY ConstantsAssumption
  <2>2. row \in Row \cup {None}
    BY <2>1 DEF Init, Row, Codes
  <2>3. realmRole \in RealmRole \cup {None}
    BY DEF Init, RealmRole
  <2> QED BY <2>2, <2>3 DEF Init, DataOK
<1>2. TypeOK /\ \A o \in Operations : op[o] = Idle
  BY <1>1, TypeParts DEF Init
<1>3. row # None => row.sync = "pending" /\ row.code = "none"
  BY DEF Init
<1>4. CleanInv
  BY <1>2, <1>3 DEF CleanInv, Settled, Sole
<1> QED BY <1>2, <1>4 DEF Inv, TypeInv, WellFormed

LEMMA StepInv == Inv /\ [Next]_vars => Inv'
<1> SUFFICES ASSUME Inv, [Next]_vars PROVE Inv'
  OBVIOUS
<1>1. paused \in BOOLEAN
  BY TypeParts DEF Inv, TypeInv
<1>2. CASE UNCHANGED vars
  BY <1>1, <1>2, UntouchedKeeps DEF vars
<1>3. CASE Pause
  BY <1>3, UntouchedKeeps DEF Pause
<1>4. ASSUME NEW o \in Operations, UNCHANGED paused, Step(o) PROVE Inv'
  <2>1. CASE CreateStep(o)
    BY <1>4, <2>1, CreateRoleKeeps, PersistCreatedKeeps, CreateEndKeeps DEF CreateStep
  <2>2. CASE ChangeStep(o)
    BY <1>4, <2>2, ReadKeeps, MarkPendingKeeps, UpdateRoleKeeps, PersistUpdatedKeeps, UndoUpdateKeeps,
       DeleteRoleKeeps, DeleteRowsKeeps, UndoDeleteKeeps, MarkFailedKeeps DEF ChangeStep
  <2>3. CASE ReconcileStep(o)
    BY <1>4, <2>3, ReadKeeps, CorrectionKeeps, MarkSyncedKeeps, ImportKeeps DEF ReconcileStep
  <2> QED BY <1>4, <2>1, <2>2, <2>3 DEF Step
<1>5. ASSUME NEW o \in Operations, UNCHANGED paused, Fault(o) PROVE Inv'
  BY <1>5, CreateRoleKeeps, PersistCreatedKeeps, CreateEndKeeps, UpdateRoleKeeps,
     PersistUpdatedKeeps, UndoUpdateKeeps, DeleteRoleKeeps, DeleteRowsKeeps, UndoDeleteKeeps,
     CorrectionFailsKeeps, CrashKeeps DEF Fault
<1>6. ASSUME NEW o \in Operations, UNCHANGED paused, Act(o) PROVE Inv'
  BY <1>4, <1>5, <1>6, BeginKeeps DEF Act
<1> QED BY <1>2, <1>3, <1>6 DEF Next

\* Every variable keeps its type, whatever overlaps, fails or dies; what an
\* operation takes back or marks, it has read before.
THEOREM TypeCorrect == Spec => []TypeOK
<1>1. Inv => TypeOK
  BY DEF Inv, TypeInv
<1> QED BY <1>1, InitInv, StepInv, PTL DEF Spec

\* A row that says "synced" agrees with Keycloak, whatever fails or dies on the
\* way, as long as operations do not overlap, no commit goes unacknowledged and
\* no creation meets a role the database has.
THEOREM SyncedStands == Spec => []SyncedIsTrue
<1>1. Inv => SyncedIsTrue
  BY DEF Inv, CleanInv, Settled, SyncedIsTrue
<1> QED BY <1>1, InitInv, StepInv, PTL DEF Spec

\* Under the same conditions: a change that the database refused has left no
\* trace in Keycloak once the row says so.
THEOREM RefusalUndone == Spec => []RefusedIsUndone
<1>1. Inv => RefusedIsUndone
  BY DEF Inv, CleanInv, Settled, RefusedIsUndone
<1> QED BY <1>1, InitInv, StepInv, PTL DEF Spec

=============================================================================
