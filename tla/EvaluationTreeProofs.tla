------------------------ MODULE EvaluationTreeProofs ------------------------
(***************************************************************************)
(* Theorems about EvaluationTree, for any numbers of rows and any number   *)
(* of requests in progress at once.  The inductive invariant says what the *)
(* row locks buy: no row is locked by two requests, a request that is to   *)
(* add a member to a group holds the group's row and has counted its       *)
(* members under that lock, and a request that is to use, remove or delete *)
(* a model holds the row of the allowed models it decided on.  A second    *)
(* one says what holds until two requests overlap: what a request read     *)
(* stands until its commit, so every cascade and prune reaches its rows.   *)
(***************************************************************************)
EXTENDS EvaluationTree, FiniteSetTheorems, TLAPS

-----------------------------------------------------------------------------
(* The inductive invariant                                                  *)

\* Which requests can be at which step, and the rows they address and hold.
Shape(x) ==
    /\ x.pc = "idle" => x = IdleTx
    /\ x.op = None => x.pc = "idle"
    /\ x.pc = "acquire" => x.op \in {"create", "move", "restore"}
    /\ x.pc = "lock" => x.op = "sync"
    /\ x.pc = "write" => x.op \notin {"move", "delete", "unassign", "deleteModel"}
    /\ x.pc \in {"unassign", "subset"} => x.op = "deleteModel"
    /\ x.pc \in {"affected", "cascade"} => x.op \in {"unassign", "deleteModel"}
    /\ x.pc \in {"prune", "commit"} => x.op \in {"delete", "move", "unassign", "deleteModel"}
    /\ x.op \in {"create", "createGroup"} => x.row \in Assignments
    /\ x.op \in {"move", "delete", "restore"} => x.row \in Convs \cap x.held
    /\ x.op \in {"create", "move", "delete", "restore", "deleteGroup"} => x.grp \in Groups
    /\ x.op = "deleteGroup" => x.grp \in x.held
    /\ x.op \in {"unassign", "restoreAssignment"} => x.row \in Assignments \cap x.held
    /\ x.op \in {"deleteModel", "restoreModel"} => x.row \in Models \cap x.held
    /\ x.op = "assign" => x.row \in Models /\ SubsetRow(x.row) \in x.shared
    /\ x.op = "sync" => EvaluationGroup \in x.held
    /\ x.doomed \subseteq x.held

\* The rows a request has locked exist, and only some requests lock models.
HeldOK(x) ==
    /\ \A m \in Models : m \in x.held => x.op \in {"deleteModel", "restoreModel"} /\ x.row = m
    /\ \A m \in Models : SubsetRow(m) \in x.held => x.op = "sync" \/ (x.op = "deleteModel" /\ x.row = m)
    /\ \A a \in Assignments : a \in x.held => asg[a].st # "none"
    /\ \A c \in Convs : c \in x.held => conv[c].st # "none"
    /\ \A g \in Groups : g \in x.held => group[g] # "none"
    /\ x.op = "restore" => conv[x.row].grp = x.grp
    /\ x.op \in {"create", "move", "delete", "restore", "deleteGroup"} => group[x.grp] # "none"

\* A request that is past the count and is to add a member to its group.
Joins(x) ==
    \/ x.op \in {"create", "restore"} /\ x.pc = "write"
    \/ x.op = "move" /\ x.pc \in {"prune", "commit"}

JoinOK(x) ==
    Joins(x) => /\ x.grp \in x.held
                /\ Cardinality(LiveIn(x.grp)) < MaxGroupSize
                /\ x.op # "restore" => group[x.grp] = "live"

\* Live assignments of m that answer for the allowed models.
Bound(m) == {a \in LiveAsgs(m) : ~asg[a].again}

ModelOK(x) ==
    /\ x.op = "assign" => x.row \in allowed /\ model[x.row] = "live"
    /\ x.op = "deleteModel" /\ x.pc # "unassign" => Bound(x.row) \subseteq x.held
    /\ x.op = "deleteModel" /\ x.pc \notin {"unassign", "subset"} /\ x.row \in allowed
         => SubsetRow(x.row) \in x.held
    /\ x.op = "sync" /\ x.pc = "write" => SubsetRows(allowed) \subseteq x.held

TxOK(x) == Shape(x) /\ HeldOK(x) /\ JoinOK(x) /\ ModelOK(x)

\* No row is locked by two requests, unless both have locked it FOR SHARE.
Exclusive ==
    \A t, u \in Txs : t # u => tx[t].held \cap (tx[u].held \cup tx[u].shared) = {}

\* A conversation that exists is in a group that exists.
TablesOK ==
    \A c \in Convs :
        /\ conv[c].st = "none" => conv[c].asg = None /\ conv[c].grp = None
        /\ conv[c].st # "none" => group[conv[c].grp] # "none"

IInv ==
    /\ TypeOK
    /\ TablesOK
    /\ Exclusive
    /\ \A t \in Txs : TxOK(tx[t])
    /\ CapRespected
    /\ AssignedWithinSubset

Kept == UNCHANGED <<model, allowed, asg, conv, group>>

\* x asks for no lock that conflicts with another request's.
Free(t, x) ==
    \A u \in Txs : u # t => /\ x.held \cap (tx[u].held \cup tx[u].shared) = {}
                           /\ x.shared \cap tx[u].held = {}

PCs == {"idle", "acquire", "lock", "write", "unassign", "subset", "affected", "cascade", "prune", "commit"}

-----------------------------------------------------------------------------
LEMMA InitIInv == Init => IInv
<1> SUFFICES ASSUME Init PROVE IInv
  OBVIOUS
<1> USE DEF Init
<1>1. IdleTx \in Tx
  BY DEF IdleTx, Tx
<1>2. TypeOK
  BY <1>1, ConstAssumption DEF TypeOK, AsgRow, ConvRow, Liveness
<1>3. TablesOK
  BY DEF TablesOK
<1>4. Exclusive
  BY DEF Exclusive, IdleTx
<1>5. ASSUME NEW t \in Txs PROVE TxOK(tx[t])
  BY ConstAssumption DEF AllOps, TxOK, Shape, HeldOK, JoinOK, Joins, ModelOK, IdleTx
<1>6. CapRespected
  <2>1. \A g \in Groups : LiveIn(g) = {}
    BY DEF LiveIn
  <2>2. Cardinality({}) = 0
    BY FS_EmptySet
  <2>3. 0 <= MaxGroupSize
    BY ConstAssumption
  <2> QED BY <2>1, <2>2, <2>3 DEF CapRespected
<1>7. AssignedWithinSubset
  BY DEF AssignedWithinSubset
<1> QED BY <1>2, <1>3, <1>4, <1>5, <1>6, <1>7 DEF IInv

\* What is said of a request depends on the tables only.
LEMMA KeptTx ==
    ASSUME Kept, NEW x
    PROVE  TxOK(x)' <=> TxOK(x)
<1>1. Shape(x)' <=> Shape(x)
  BY DEF Shape
<1>2. HeldOK(x)' <=> HeldOK(x)
  BY DEF HeldOK, Kept
<1>3. JoinOK(x)' <=> JoinOK(x)
  BY DEF JoinOK, Joins, LiveIn, Kept
<1>4. ModelOK(x)' <=> ModelOK(x)
  BY DEF ModelOK, Bound, LiveAsgs, SubsetRows, Kept
<1> QED BY <1>1, <1>2, <1>3, <1>4 DEF TxOK

\* A request moves on and writes no table: it takes only locks nobody else has.
LEMMA TxStep ==
    ASSUME IInv, NEW t \in Txs, NEW new \in Tx, tx' = [tx EXCEPT ![t] = new], Kept, raced' \in BOOLEAN,
           Free(t, new), TxOK(new)
    PROVE  IInv'
<1>1. TypeOK /\ \A u \in Txs : tx'[u] = IF u = t THEN new ELSE tx[u]
  BY DEF IInv, TypeOK
<1>2. TypeOK'
  BY <1>1 DEF TypeOK, Kept
<1>3. TablesOK'
  BY DEF IInv, TablesOK, Kept
<1>4. Exclusive'
  <2>1. \A u, v \in Txs : u # v => tx[u].held \cap (tx[v].held \cup tx[v].shared) = {}
    BY DEF IInv, Exclusive
  <2> SUFFICES ASSUME NEW u \in Txs, NEW v \in Txs, u # v
               PROVE  tx'[u].held \cap (tx'[v].held \cup tx'[v].shared) = {}
    BY DEF Exclusive
  <2>2. CASE u = t
    BY <1>1, <2>1, <2>2 DEF Free
  <2>3. CASE v = t
    <3>1. new.held \cap tx[u].held = {} /\ new.shared \cap tx[u].held = {}
      BY <2>3 DEF Free
    <3>2. tx'[u] = tx[u] /\ tx'[v] = new
      BY <1>1, <2>3
    <3> QED BY <3>1, <3>2
  <2>4. CASE u # t /\ v # t
    BY <1>1, <2>1, <2>4
  <2> QED BY <2>2, <2>3, <2>4
<1>5. ASSUME NEW u \in Txs PROVE TxOK(tx[u])'
  <2>1. PICK x : x = tx'[u]
    OBVIOUS
  <2>2. TxOK(x)
    BY <1>1, <2>1 DEF IInv
  <2>3. TxOK(x)'
    BY <2>2, KeptTx
  <2> QED BY <2>1, <2>3
<1>6. CapRespected'
  BY DEF IInv, CapRespected, LiveIn, Kept
<1>7. AssignedWithinSubset'
  BY DEF IInv, AssignedWithinSubset, Kept
<1> QED BY <1>2, <1>3, <1>4, <1>5, <1>6, <1>7 DEF IInv

\* Locking what is not busy keeps the locks exclusive.
LEMMA LockMore ==
    ASSUME IInv, NEW t \in Txs, NEW R, ~Busy(t, R)
    PROVE  \A u \in Txs : u # t => /\ (tx[t].held \cup R) \cap (tx[u].held \cup tx[u].shared) = {}
                                   /\ tx[t].shared \cap tx[u].held = {}
BY DEF IInv, Exclusive, Busy

LEMMA IdleHolds ==
    ASSUME IInv, NEW t \in Txs, tx[t].pc = "idle"
    PROVE  tx[t].held = {} /\ tx[t].shared = {} /\ tx[t].op = None
BY DEF IInv, TxOK, Shape, IdleTx

-----------------------------------------------------------------------------
(* Requests begin.                                                          *)

\* What a request has once it has begun.
Begun(t, op, next, r, g, H) ==
    \E new \in Tx : /\ tx' = [tx EXCEPT ![t] = new]
                    /\ Free(t, new)
                    /\ new.op = op /\ new.pc = next /\ new.row = r /\ new.grp = g
                    /\ new.held = H /\ new.doomed = {}

\* A request starts with the locks it asks for.
LEMMA BeginStep ==
    ASSUME IInv, NEW t \in Txs, NEW op, NEW next \in PCs, NEW r \in Rows \cup {None},
           NEW g \in Groups \cup {None}, NEW H \in SUBSET Rows, Begin(t, op, next, r, g, H)
    PROVE  Kept /\ Begun(t, op, next, r, g, H)
<1>1. op \in Ops /\ tx[t].pc = "idle" /\ ~Busy(t, H) /\ Kept
  BY DEF Begin, Kept
<1>2. PICK new : new = [IdleTx EXCEPT !.op = op, !.pc = next, !.row = r, !.grp = g, !.held = H]
  OBVIOUS
<1>3. new \in Tx
  BY <1>1, <1>2 DEF IdleTx, Tx, PCs
<1>4. new.op = op /\ new.pc = next /\ new.row = r /\ new.grp = g /\ new.held = H /\ new.doomed = {} /\ new.shared = {}
  BY <1>2 DEF IdleTx
<1>6. tx' = [tx EXCEPT ![t] = new]
  BY <1>2, Zenon DEF Begin
<1>7. Free(t, new)
  BY <1>1, <1>4, LockMore DEF Free
<1> QED BY <1>1, <1>3, <1>4, <1>6, <1>7 DEF Begun

LEMMA RowKinds ==
    /\ \A m \in Models : m \notin Assignments \cup Convs \cup Groups \cup {None}
    /\ \A a \in Assignments : a \notin Models \cup Convs \cup Groups \cup {None}
    /\ \A c \in Convs : c \notin Models \cup Assignments \cup Groups \cup {None}
    /\ \A g \in Groups : g \notin Models \cup Assignments \cup Convs \cup {None}
    /\ \A m \in Models : SubsetRow(m) \notin Models \cup Assignments \cup Convs \cup Groups \cup {None, EvaluationGroup}
    /\ \A m, n \in Models : SubsetRow(m) = SubsetRow(n) => m = n
    /\ EvaluationGroup \notin Models \cup Assignments \cup Convs \cup Groups \cup {None}
<1>1. \A m \in Models : SubsetRow(m) \in SubsetRows(Models)
  BY DEF SubsetRows
<1>2. \A m \in Models : SubsetRow(m) # EvaluationGroup
  BY DEF SubsetRow, EvaluationGroup
<1>3. \A m, n \in Models : SubsetRow(m) = SubsetRow(n) => m = n
  BY DEF SubsetRow
<1> QED BY <1>1, <1>2, <1>3, RowAssumption, ConstAssumption

LEMMA BeginSafe ==
    ASSUME IInv, raced' \in BOOLEAN, NEW t \in Txs,
           \/ \E a \in Assignments, g \in Groups : CreateRead(t, a, g)
           \/ \E c \in Convs, g \in Groups : MoveLock(t, c, g)
           \/ \E c \in Convs : RestoreLock(t, c) \/ DeleteLock(t, c)
           \/ \E a \in Assignments : CreateGroupRead(t, a) \/ RestoreAssignmentLock(t, a) \/ UnassignLock(t, a)
           \/ \E g \in Groups : DeleteGroupLock(t, g)
           \/ \E m \in Models : DeleteModelLock(t, m) \/ RestoreModelLock(t, m)
    PROVE  IInv'
<1>0. /\ TypeOK /\ TablesOK /\ None \notin AllOps
      /\ \A c \in Convs : conv[c].st # "none" => conv[c].grp \in Groups /\ group[conv[c].grp] # "none"
  BY ConstAssumption DEF IInv, TypeOK, TablesOK, ConvRow
<1>1. ASSUME NEW a \in Assignments, NEW g \in Groups, CreateRead(t, a, g) PROVE IInv'
  <2>1. PICK H \in SUBSET Rows : H = {}
    BY DEF Rows
  <2>3. Begin(t, "create", "acquire", a, g, H) /\ group[g] # "none"
    BY <1>0, <1>1, <2>1 DEF CreateRead
  <2>4. "acquire" \in PCs /\ a \in Rows \cup {None} /\ g \in Groups \cup {None}
    BY DEF PCs, Rows
  <2>5. Kept /\ Begun(t, "create", "acquire", a, g, H)
    BY <2>3, <2>4, BeginStep, Zenon
  <2>6. PICK new \in Tx : /\ tx' = [tx EXCEPT ![t] = new] /\ Free(t, new)
                          /\ new.op = "create" /\ new.pc = "acquire" /\ new.row = a /\ new.grp = g
                          /\ new.held = H /\ new.doomed = {}
    BY <2>5 DEF Begun
  <2>7. TxOK(new)
    <3>1. Shape(new)
      BY <1>0, <2>1, <2>6 DEF Shape, AllOps
    <3>2. HeldOK(new)
      BY <2>1, <2>3, <2>6, RowKinds DEF HeldOK
    <3>3. JoinOK(new) /\ ModelOK(new)
      BY <2>6 DEF JoinOK, Joins, ModelOK
    <3> QED BY <3>1, <3>2, <3>3 DEF TxOK
  <2> QED BY <2>6, <2>5, <2>7, TxStep
<1>2. ASSUME NEW c \in Convs, NEW g \in Groups, MoveLock(t, c, g) PROVE IInv'
  <2>1. PICK H \in SUBSET Rows : H = {c}
    BY DEF Rows
  <2>3. Begin(t, "move", "acquire", c, g, H) /\ group[g] # "none" /\ conv[c].st # "none"
    BY <1>0, <1>2, <2>1 DEF MoveLock
  <2>4. "acquire" \in PCs /\ c \in Rows \cup {None} /\ g \in Groups \cup {None}
    BY DEF PCs, Rows
  <2>5. Kept /\ Begun(t, "move", "acquire", c, g, H)
    BY <2>3, <2>4, BeginStep, Zenon
  <2>6. PICK new \in Tx : /\ tx' = [tx EXCEPT ![t] = new] /\ Free(t, new)
                          /\ new.op = "move" /\ new.pc = "acquire" /\ new.row = c /\ new.grp = g
                          /\ new.held = H /\ new.doomed = {}
    BY <2>5 DEF Begun
  <2>7. TxOK(new)
    <3>1. Shape(new)
      BY <1>0, <2>1, <2>6 DEF Shape, AllOps
    <3>2. HeldOK(new)
      BY <2>1, <2>3, <2>6, RowKinds DEF HeldOK
    <3>3. JoinOK(new) /\ ModelOK(new)
      BY <2>6 DEF JoinOK, Joins, ModelOK
    <3> QED BY <3>1, <3>2, <3>3 DEF TxOK
  <2> QED BY <2>6, <2>5, <2>7, TxStep
<1>3. ASSUME NEW c \in Convs, RestoreLock(t, c) PROVE IInv'
  <2>1. PICK H \in SUBSET Rows : H = {c}
    BY DEF Rows
  <2>2. PICK h \in Groups : h = conv[c].grp
    BY <1>0, <1>3 DEF RestoreLock
  <2>3. Begin(t, "restore", "acquire", c, h, H) /\ conv[c].st # "none" /\ group[h] # "none"
    BY <1>0, <1>3, <2>1, <2>2 DEF RestoreLock
  <2>4. "acquire" \in PCs /\ c \in Rows \cup {None} /\ h \in Groups \cup {None}
    BY DEF PCs, Rows
  <2>5. Kept /\ Begun(t, "restore", "acquire", c, h, H)
    BY <2>3, <2>4, BeginStep, Zenon
  <2>6. PICK new \in Tx : /\ tx' = [tx EXCEPT ![t] = new] /\ Free(t, new)
                          /\ new.op = "restore" /\ new.pc = "acquire" /\ new.row = c /\ new.grp = h
                          /\ new.held = H /\ new.doomed = {}
    BY <2>5 DEF Begun
  <2>7. TxOK(new)
    <3>1. Shape(new)
      BY <1>0, <2>1, <2>6 DEF Shape, AllOps
    <3>2. HeldOK(new)
      BY <2>1, <2>3, <2>6, <2>2, RowKinds DEF HeldOK
    <3>3. JoinOK(new) /\ ModelOK(new)
      BY <2>6 DEF JoinOK, Joins, ModelOK
    <3> QED BY <3>1, <3>2, <3>3 DEF TxOK
  <2> QED BY <2>6, <2>5, <2>7, TxStep
<1>4. ASSUME NEW c \in Convs, DeleteLock(t, c) PROVE IInv'
  <2>1. PICK H \in SUBSET Rows : H = {c}
    BY DEF Rows
  <2>2. PICK h \in Groups : h = conv[c].grp
    BY <1>0, <1>4 DEF DeleteLock
  <2>3. Begin(t, "delete", "prune", c, h, H) /\ conv[c].st # "none" /\ group[h] # "none"
    BY <1>0, <1>4, <2>1, <2>2 DEF DeleteLock
  <2>4. "prune" \in PCs /\ c \in Rows \cup {None} /\ h \in Groups \cup {None}
    BY DEF PCs, Rows
  <2>5. Kept /\ Begun(t, "delete", "prune", c, h, H)
    BY <2>3, <2>4, BeginStep, Zenon
  <2>6. PICK new \in Tx : /\ tx' = [tx EXCEPT ![t] = new] /\ Free(t, new)
                          /\ new.op = "delete" /\ new.pc = "prune" /\ new.row = c /\ new.grp = h
                          /\ new.held = H /\ new.doomed = {}
    BY <2>5 DEF Begun
  <2>7. TxOK(new)
    <3>1. Shape(new)
      BY <1>0, <2>1, <2>6 DEF Shape, AllOps
    <3>2. HeldOK(new)
      BY <2>1, <2>3, <2>6, <2>2, RowKinds DEF HeldOK
    <3>3. JoinOK(new) /\ ModelOK(new)
      BY <2>6 DEF JoinOK, Joins, ModelOK
    <3> QED BY <3>1, <3>2, <3>3 DEF TxOK
  <2> QED BY <2>6, <2>5, <2>7, TxStep
<1>5. ASSUME NEW a \in Assignments, CreateGroupRead(t, a) PROVE IInv'
  <2>1. PICK H \in SUBSET Rows : H = {}
    BY DEF Rows
  <2>3. Begin(t, "createGroup", "write", a, None, H)
    BY <1>0, <1>5, <2>1 DEF CreateGroupRead
  <2>4. "write" \in PCs /\ a \in Rows \cup {None} /\ None \in Groups \cup {None}
    BY DEF PCs, Rows
  <2>5. Kept /\ Begun(t, "createGroup", "write", a, None, H)
    BY <2>3, <2>4, BeginStep, Zenon
  <2>6. PICK new \in Tx : /\ tx' = [tx EXCEPT ![t] = new] /\ Free(t, new)
                          /\ new.op = "createGroup" /\ new.pc = "write" /\ new.row = a /\ new.grp = None
                          /\ new.held = H /\ new.doomed = {}
    BY <2>5 DEF Begun
  <2>7. TxOK(new)
    <3>1. Shape(new)
      BY <1>0, <2>1, <2>6 DEF Shape, AllOps
    <3>2. HeldOK(new)
      BY <2>1, <2>3, <2>6, RowKinds DEF HeldOK
    <3>3. JoinOK(new) /\ ModelOK(new)
      BY <2>6 DEF JoinOK, Joins, ModelOK
    <3> QED BY <3>1, <3>2, <3>3 DEF TxOK
  <2> QED BY <2>6, <2>5, <2>7, TxStep
<1>6. ASSUME NEW a \in Assignments, RestoreAssignmentLock(t, a) PROVE IInv'
  <2>1. PICK H \in SUBSET Rows : H = {a}
    BY DEF Rows
  <2>3. Begin(t, "restoreAssignment", "write", a, None, H) /\ asg[a].st # "none"
    BY <1>0, <1>6, <2>1 DEF RestoreAssignmentLock
  <2>4. "write" \in PCs /\ a \in Rows \cup {None} /\ None \in Groups \cup {None}
    BY DEF PCs, Rows
  <2>5. Kept /\ Begun(t, "restoreAssignment", "write", a, None, H)
    BY <2>3, <2>4, BeginStep, Zenon
  <2>6. PICK new \in Tx : /\ tx' = [tx EXCEPT ![t] = new] /\ Free(t, new)
                          /\ new.op = "restoreAssignment" /\ new.pc = "write" /\ new.row = a /\ new.grp = None
                          /\ new.held = H /\ new.doomed = {}
    BY <2>5 DEF Begun
  <2>7. TxOK(new)
    <3>1. Shape(new)
      BY <1>0, <2>1, <2>6 DEF Shape, AllOps
    <3>2. HeldOK(new)
      BY <2>1, <2>3, <2>6, RowKinds DEF HeldOK
    <3>3. JoinOK(new) /\ ModelOK(new)
      BY <2>6 DEF JoinOK, Joins, ModelOK
    <3> QED BY <3>1, <3>2, <3>3 DEF TxOK
  <2> QED BY <2>6, <2>5, <2>7, TxStep
<1>7. ASSUME NEW a \in Assignments, UnassignLock(t, a) PROVE IInv'
  <2>1. PICK H \in SUBSET Rows : H = {a}
    BY DEF Rows
  <2>3. Begin(t, "unassign", "affected", a, None, H) /\ asg[a].st # "none"
    BY <1>0, <1>7, <2>1 DEF UnassignLock
  <2>4. "affected" \in PCs /\ a \in Rows \cup {None} /\ None \in Groups \cup {None}
    BY DEF PCs, Rows
  <2>5. Kept /\ Begun(t, "unassign", "affected", a, None, H)
    BY <2>3, <2>4, BeginStep, Zenon
  <2>6. PICK new \in Tx : /\ tx' = [tx EXCEPT ![t] = new] /\ Free(t, new)
                          /\ new.op = "unassign" /\ new.pc = "affected" /\ new.row = a /\ new.grp = None
                          /\ new.held = H /\ new.doomed = {}
    BY <2>5 DEF Begun
  <2>7. TxOK(new)
    <3>1. Shape(new)
      BY <1>0, <2>1, <2>6 DEF Shape, AllOps
    <3>2. HeldOK(new)
      BY <2>1, <2>3, <2>6, RowKinds DEF HeldOK
    <3>3. JoinOK(new) /\ ModelOK(new)
      BY <2>6 DEF JoinOK, Joins, ModelOK
    <3> QED BY <3>1, <3>2, <3>3 DEF TxOK
  <2> QED BY <2>6, <2>5, <2>7, TxStep
<1>8. ASSUME NEW g \in Groups, DeleteGroupLock(t, g) PROVE IInv'
  <2>1. PICK H \in SUBSET Rows : H = {g}
    BY DEF Rows
  <2>3. Begin(t, "deleteGroup", "write", None, g, H) /\ group[g] # "none"
    BY <1>0, <1>8, <2>1 DEF DeleteGroupLock
  <2>4. "write" \in PCs /\ None \in Rows \cup {None} /\ g \in Groups \cup {None}
    BY DEF PCs, Rows
  <2>5. Kept /\ Begun(t, "deleteGroup", "write", None, g, H)
    BY <2>3, <2>4, BeginStep, Zenon
  <2>6. PICK new \in Tx : /\ tx' = [tx EXCEPT ![t] = new] /\ Free(t, new)
                          /\ new.op = "deleteGroup" /\ new.pc = "write" /\ new.row = None /\ new.grp = g
                          /\ new.held = H /\ new.doomed = {}
    BY <2>5 DEF Begun
  <2>7. TxOK(new)
    <3>1. Shape(new)
      BY <1>0, <2>1, <2>6 DEF Shape, AllOps
    <3>2. HeldOK(new)
      BY <2>1, <2>3, <2>6, RowKinds DEF HeldOK
    <3>3. JoinOK(new) /\ ModelOK(new)
      BY <2>6 DEF JoinOK, Joins, ModelOK
    <3> QED BY <3>1, <3>2, <3>3 DEF TxOK
  <2> QED BY <2>6, <2>5, <2>7, TxStep
<1>9. ASSUME NEW m \in Models, DeleteModelLock(t, m) PROVE IInv'
  <2>1. PICK H \in SUBSET Rows : H = {m}
    BY DEF Rows
  <2>3. Begin(t, "deleteModel", "unassign", m, None, H)
    BY <1>0, <1>9, <2>1 DEF DeleteModelLock
  <2>4. "unassign" \in PCs /\ m \in Rows \cup {None} /\ None \in Groups \cup {None}
    BY DEF PCs, Rows
  <2>5. Kept /\ Begun(t, "deleteModel", "unassign", m, None, H)
    BY <2>3, <2>4, BeginStep, Zenon
  <2>6. PICK new \in Tx : /\ tx' = [tx EXCEPT ![t] = new] /\ Free(t, new)
                          /\ new.op = "deleteModel" /\ new.pc = "unassign" /\ new.row = m /\ new.grp = None
                          /\ new.held = H /\ new.doomed = {}
    BY <2>5 DEF Begun
  <2>7. TxOK(new)
    <3>1. Shape(new)
      BY <1>0, <2>1, <2>6 DEF Shape, AllOps
    <3>2. HeldOK(new)
      BY <2>1, <2>3, <2>6, RowKinds DEF HeldOK
    <3>3. JoinOK(new) /\ ModelOK(new)
      BY <2>6 DEF JoinOK, Joins, ModelOK
    <3> QED BY <3>1, <3>2, <3>3 DEF TxOK
  <2> QED BY <2>6, <2>5, <2>7, TxStep
<1>10. ASSUME NEW m \in Models, RestoreModelLock(t, m) PROVE IInv'
  <2>1. PICK H \in SUBSET Rows : H = {m}
    BY DEF Rows
  <2>3. Begin(t, "restoreModel", "write", m, None, H)
    BY <1>0, <1>10, <2>1 DEF RestoreModelLock
  <2>4. "write" \in PCs /\ m \in Rows \cup {None} /\ None \in Groups \cup {None}
    BY DEF PCs, Rows
  <2>5. Kept /\ Begun(t, "restoreModel", "write", m, None, H)
    BY <2>3, <2>4, BeginStep, Zenon
  <2>6. PICK new \in Tx : /\ tx' = [tx EXCEPT ![t] = new] /\ Free(t, new)
                          /\ new.op = "restoreModel" /\ new.pc = "write" /\ new.row = m /\ new.grp = None
                          /\ new.held = H /\ new.doomed = {}
    BY <2>5 DEF Begun
  <2>7. TxOK(new)
    <3>1. Shape(new)
      BY <1>0, <2>1, <2>6 DEF Shape, AllOps
    <3>2. HeldOK(new)
      BY <2>1, <2>3, <2>6, RowKinds DEF HeldOK
    <3>3. JoinOK(new) /\ ModelOK(new)
      BY <2>6 DEF JoinOK, Joins, ModelOK
    <3> QED BY <3>1, <3>2, <3>3 DEF TxOK
  <2> QED BY <2>6, <2>5, <2>7, TxStep
<1> QED BY <1>1, <1>2, <1>3, <1>4, <1>5, <1>6, <1>7, <1>8, <1>9, <1>10

-----------------------------------------------------------------------------
(* Requests lock and read on their way to the commit.                       *)

\* A request goes on: it keeps what it addresses, and adds to what it has locked.
Goes(t, x, pc, R, D) ==
    \E new \in Tx : /\ tx' = [tx EXCEPT ![t] = new]
                    /\ new.pc = pc /\ new.held = x.held \cup R /\ new.doomed = D
                    /\ new.op = x.op /\ new.row = x.row /\ new.grp = x.grp
                    /\ new.shared = x.shared

LEMMA GoesLocking ==
    ASSUME NEW t, NEW x \in Tx, NEW pc \in PCs, NEW R \in SUBSET Rows,
           tx' = [tx EXCEPT ![t] = [x EXCEPT !.pc = pc, !.held = x.held \cup R]]
    PROVE  Goes(t, x, pc, R, x.doomed)
<1>1. PICK new : new = [x EXCEPT !.pc = pc, !.held = x.held \cup R]
  OBVIOUS
<1>2. new \in Tx
  BY <1>1 DEF Tx, PCs
<1>3. /\ new.pc = pc /\ new.held = x.held \cup R /\ new.doomed = x.doomed
      /\ new.op = x.op /\ new.row = x.row /\ new.grp = x.grp /\ new.shared = x.shared
  BY <1>1 DEF Tx
<1>4. tx' = [tx EXCEPT ![t] = new]
  BY <1>1, Zenon
<1> QED BY <1>2, <1>3, <1>4 DEF Goes

LEMMA GoesReading ==
    ASSUME NEW t, NEW x \in Tx, NEW pc \in PCs, NEW E \in SUBSET Groups,
           tx' = [tx EXCEPT ![t] = [x EXCEPT !.pc = pc, !.empty = E]]
    PROVE  Goes(t, x, pc, {}, x.doomed)
<1>1. PICK new : new = [x EXCEPT !.pc = pc, !.empty = E]
  OBVIOUS
<1>2. new \in Tx
  BY <1>1 DEF Tx, PCs
<1>3. /\ new.pc = pc /\ new.held = x.held \cup {} /\ new.doomed = x.doomed
      /\ new.op = x.op /\ new.row = x.row /\ new.grp = x.grp /\ new.shared = x.shared
  BY <1>1 DEF Tx
<1>4. tx' = [tx EXCEPT ![t] = new]
  BY <1>1, Zenon
<1> QED BY <1>2, <1>3, <1>4 DEF Goes

\* The two ways into a group: its row is locked, then its members are counted.
LEMMA AcquireSafe ==
    ASSUME IInv, raced' \in BOOLEAN, NEW t \in Txs, AcquireGroup(t) \/ assert_group_has_room(t)
    PROVE  IInv'
<1>1. PICK x \in Tx : x = tx[t]
  BY DEF IInv, TypeOK
<1>2. TypeOK /\ TxOK(x) /\ x.pc = "acquire" /\ x.op \in {"create", "move", "restore"}
  BY <1>1 DEF IInv, AcquireGroup, assert_group_has_room, TxOK, Shape
<1>3. PICK g \in Groups : g = x.grp
  BY <1>2 DEF TxOK, Shape
<1>4. /\ ~Busy(t, {g}) /\ Cardinality(LiveIn(g)) < MaxGroupSize /\ Kept
      /\ x.op # "restore" => group[g] = "live"
  BY <1>1, <1>2, <1>3 DEF AcquireGroup, assert_group_has_room, Kept
<1>5. PICK pc \in {"write", "prune"} : pc = IF x.op = "move" THEN "prune" ELSE "write"
  OBVIOUS
<1>6. PICK new \in Tx : /\ tx' = [tx EXCEPT ![t] = new]
                        /\ new.pc = pc /\ new.held = x.held \cup {g} /\ new.doomed = x.doomed
                        /\ new.op = x.op /\ new.row = x.row /\ new.grp = x.grp
                        /\ new.shared = x.shared
  <2>1. x.held \cup {g} \in SUBSET Rows /\ pc \in PCs
    BY <1>3, <1>5 DEF Tx, Rows, PCs
  <2>2. CASE AcquireGroup(t)
    <3>1. PICK E \in SUBSET Groups : E = IF x.op = "move" THEN {conv[x.row].grp} ELSE {}
      <4>1. x.op = "move" => conv[x.row].grp \in Groups
        BY <1>2 DEF TxOK, Shape, HeldOK, TypeOK, ConvRow
      <4> QED BY <4>1
    <3>2. tx' = [tx EXCEPT ![t] = [x EXCEPT !.held = x.held \cup {g}, !.pc = pc, !.empty = E]]
      BY <1>1, <1>2, <1>3, <1>5, <2>2, <3>1 DEF AcquireGroup, TypeOK
    <3>3. PICK new : new = [x EXCEPT !.held = x.held \cup {g}, !.pc = pc, !.empty = E]
      OBVIOUS
    <3>4. new \in Tx
      BY <2>1, <3>3 DEF Tx, PCs
    <3>5. /\ new.pc = pc /\ new.held = x.held \cup {g} /\ new.doomed = x.doomed
          /\ new.op = x.op /\ new.row = x.row /\ new.grp = x.grp /\ new.shared = x.shared
      BY <3>3 DEF Tx
    <3>6. tx' = [tx EXCEPT ![t] = new]
      BY <3>2, <3>3, Zenon
    <3> QED BY <3>4, <3>5, <3>6
  <2>3. CASE assert_group_has_room(t)
    <3>2. tx' = [tx EXCEPT ![t] = [x EXCEPT !.held = x.held \cup {g}, !.pc = pc]]
      BY <1>1, <1>2, <1>3, <1>5, <2>3 DEF assert_group_has_room, TypeOK
    <3>3. PICK new : new = [x EXCEPT !.held = x.held \cup {g}, !.pc = pc]
      OBVIOUS
    <3>4. new \in Tx
      BY <2>1, <3>3 DEF Tx, PCs
    <3>5. /\ new.pc = pc /\ new.held = x.held \cup {g} /\ new.doomed = x.doomed
          /\ new.op = x.op /\ new.row = x.row /\ new.grp = x.grp /\ new.shared = x.shared
      BY <3>3 DEF Tx
    <3>6. tx' = [tx EXCEPT ![t] = new]
      BY <3>2, <3>3, Zenon
    <3> QED BY <3>4, <3>5, <3>6
  <2> QED BY <2>2, <2>3
<1>7. TxOK(new)
  <2>1. Shape(new)
    BY <1>2, <1>5, <1>6, ConstAssumption DEF TxOK, Shape, AllOps
  <2>2. HeldOK(new)
    BY <1>2, <1>3, <1>6, RowKinds DEF TxOK, HeldOK
  <2>3. JoinOK(new)
    BY <1>3, <1>4, <1>6 DEF JoinOK
  <2>4. ModelOK(new)
    BY <1>2, <1>6 DEF ModelOK
  <2> QED BY <2>1, <2>2, <2>3, <2>4 DEF TxOK
<1>8. Free(t, new)
  BY <1>1, <1>4, <1>6, LockMore DEF Free
<1> QED BY <1>4, <1>6, <1>7, <1>8, TxStep

\* assert_model_assignable_to_group and the start of sync_group_models.
LEMMA ReadSafe ==
    ASSUME IInv, raced' \in BOOLEAN, NEW t \in Txs,
           (\E m \in Models : AssignRead(t, m)) \/ (\E T \in SUBSET Models : SyncRead(t, T))
    PROVE  IInv'
<1>1. TypeOK /\ SubsetRows(allowed) \in SUBSET Rows /\ None \notin AllOps /\ EvaluationGroup \in Rows
  BY ConstAssumption DEF IInv, TypeOK, SubsetRows, Rows
<1>2. ASSUME NEW m \in Models, AssignRead(t, m) PROVE IInv'
  <2>1. PICK S \in SUBSET Rows : S = SubsetRows(allowed)
    BY <1>1
  <2>2. PICK new : new = [IdleTx EXCEPT !.op = "assign", !.pc = "write", !.row = m, !.shared = S]
    OBVIOUS
  <2>3. "assign" \in Ops /\ m \in allowed /\ model[m] = "live" /\ Kept
    BY <1>2 DEF AssignRead, Kept
  <2>4. tx' = [tx EXCEPT ![t] = new]
    BY <1>2, <2>1, <2>2, Zenon DEF AssignRead
  <2>5. new \in Tx
    BY <2>2, <2>3 DEF IdleTx, Tx, Rows
  <2>6. new.op = "assign" /\ new.pc = "write" /\ new.row = m /\ new.shared = S /\ new.held = {} /\ new.doomed = {}
    BY <2>2 DEF IdleTx
  <2>7. SubsetRow(m) \in S
    BY <2>1, <2>3 DEF SubsetRows
  <2>8. Shape(new)
    BY <1>1, <2>6, <2>7 DEF Shape, AllOps
  <2>9. HeldOK(new) /\ JoinOK(new) /\ ModelOK(new)
    BY <2>3, <2>6 DEF HeldOK, JoinOK, Joins, ModelOK
  <2>10. Free(t, new)
    BY <1>2, <2>1, <2>6 DEF AssignRead, Free
  <2> QED BY <2>3, <2>4, <2>5, <2>8, <2>9, <2>10, TxStep DEF TxOK
<1>3. ASSUME NEW T \in SUBSET Models, SyncRead(t, T) PROVE IInv'
  <2>1. PICK new : new = [IdleTx EXCEPT !.op = "sync", !.pc = "lock", !.target = T, !.held = {EvaluationGroup}]
    OBVIOUS
  <2>2. "sync" \in Ops /\ ~Busy(t, {EvaluationGroup}) /\ Kept
    BY <1>3 DEF SyncRead, Kept
  <2>3. tx' = [tx EXCEPT ![t] = new]
    BY <1>3, <2>1, Zenon DEF SyncRead
  <2>4. new \in Tx
    BY <1>1, <2>1, <2>2 DEF IdleTx, Tx
  <2>5. new.op = "sync" /\ new.pc = "lock" /\ new.held = {EvaluationGroup} /\ new.shared = {} /\ new.doomed = {}
    BY <2>1 DEF IdleTx
  <2>6. Shape(new)
    BY <1>1, <2>5 DEF Shape, AllOps
  <2>7. HeldOK(new) /\ JoinOK(new) /\ ModelOK(new)
    BY <2>5, RowKinds DEF HeldOK, JoinOK, Joins, ModelOK
  <2>8. Free(t, new)
    BY <2>2, <2>5, LockMore DEF Free
  <2> QED BY <2>2, <2>3, <2>4, <2>6, <2>7, <2>8, TxStep DEF TxOK
<1> QED BY <1>2, <1>3

\* The UPDATEs of a model delete, and the row locks of a group edit.
LEMMA LockSafe ==
    ASSUME IInv, raced' \in BOOLEAN, NEW t \in Txs,
           DeleteModelAssignments(t) \/ DeleteModelSubset(t) \/ SyncLock(t)
    PROVE  IInv'
<1>1. PICK x \in Tx : x = tx[t]
  BY DEF IInv, TypeOK
<1>2. TypeOK /\ TxOK(x) /\ SubsetRows(allowed) \in SUBSET Rows /\ Kept /\ None \notin AllOps
  BY <1>1, ConstAssumption
     DEF IInv, TypeOK, SubsetRows, Rows, DeleteModelAssignments, DeleteModelSubset, SyncLock, Kept
<1>3. CASE DeleteModelAssignments(t)
  <2>1. x.pc = "unassign" /\ x.op = "deleteModel" /\ x.row \in Models
    BY <1>1, <1>2, <1>3 DEF DeleteModelAssignments, TxOK, Shape
  <2>2. PICK R \in SUBSET Assignments : R = LiveAsgs(x.row)
    BY DEF LiveAsgs
  <2>3. /\ tx' = [tx EXCEPT ![t] = [x EXCEPT !.pc = "subset", !.held = x.held \cup R]]
        /\ ~Busy(t, R)
    BY <1>1, <1>2, <1>3, <2>2 DEF DeleteModelAssignments, TypeOK
  <2>4. R \in SUBSET Rows /\ "subset" \in PCs
    BY DEF Rows, PCs
  <2>5. PICK new \in Tx : /\ tx' = [tx EXCEPT ![t] = new]
                          /\ new.pc = "subset" /\ new.held = x.held \cup R /\ new.doomed = x.doomed
                          /\ new.op = x.op /\ new.row = x.row /\ new.grp = x.grp
                          /\ new.shared = x.shared
    <3>1. Goes(t, x, "subset", R, x.doomed)
      BY <2>3, <2>4, GoesLocking, Zenon
    <3> QED BY <3>1 DEF Goes
  <2>6. Shape(new)
    BY <1>2, <2>1, <2>5 DEF TxOK, Shape, AllOps
  <2>7. HeldOK(new)
    BY <1>2, <2>1, <2>2, <2>5, RowKinds DEF TxOK, HeldOK, LiveAsgs
  <2>8. JoinOK(new) /\ ModelOK(new)
    BY <2>1, <2>2, <2>5 DEF JoinOK, Joins, ModelOK, Bound
  <2>9. Free(t, new)
    BY <1>1, <2>3, <2>5, LockMore DEF Free
  <2> QED BY <1>2, <2>5, <2>6, <2>7, <2>8, <2>9, TxStep DEF TxOK
<1>4. CASE DeleteModelSubset(t)
  <2>1. x.pc = "subset" /\ x.op = "deleteModel" /\ x.row \in Models
    BY <1>1, <1>2, <1>4 DEF DeleteModelSubset, TxOK, Shape
  <2>2. PICK R : R = SubsetRows(allowed \cap {x.row})
    OBVIOUS
  <2>3. /\ tx' = [tx EXCEPT ![t] = [x EXCEPT !.pc = "affected", !.held = x.held \cup R]]
        /\ ~Busy(t, R)
    BY <1>1, <1>2, <1>4, <2>2 DEF DeleteModelSubset, TypeOK
  <2>4. R \in SUBSET Rows /\ "affected" \in PCs /\ R \subseteq {SubsetRow(x.row)}
        /\ (x.row \in allowed => SubsetRow(x.row) \in R)
    BY <1>2, <2>1, <2>2 DEF SubsetRows, Rows, PCs
  <2>5. PICK new \in Tx : /\ tx' = [tx EXCEPT ![t] = new]
                          /\ new.pc = "affected" /\ new.held = x.held \cup R /\ new.doomed = x.doomed
                          /\ new.op = x.op /\ new.row = x.row /\ new.grp = x.grp
                          /\ new.shared = x.shared
    <3>1. Goes(t, x, "affected", R, x.doomed)
      BY <2>3, <2>4, GoesLocking, Zenon
    <3> QED BY <3>1 DEF Goes
  <2>6. Shape(new)
    BY <1>2, <2>1, <2>5 DEF TxOK, Shape, AllOps
  <2>7. HeldOK(new)
    BY <1>2, <2>1, <2>4, <2>5, RowKinds DEF TxOK, HeldOK
  <2>8. JoinOK(new) /\ ModelOK(new)
    BY <1>2, <2>1, <2>4, <2>5 DEF TxOK, JoinOK, Joins, ModelOK
  <2>9. Free(t, new)
    BY <1>1, <2>3, <2>5, LockMore DEF Free
  <2> QED BY <1>2, <2>5, <2>6, <2>7, <2>8, <2>9, TxStep DEF TxOK
<1>5. CASE SyncLock(t)
  <2>1. x.pc = "lock" /\ x.op = "sync"
    BY <1>1, <1>2, <1>5 DEF SyncLock, TxOK, Shape
  <2>2. PICK R \in SUBSET Rows : R = SubsetRows(allowed)
    BY <1>2
  <2>3. /\ tx' = [tx EXCEPT ![t] = [x EXCEPT !.pc = "write", !.held = x.held \cup R]]
        /\ ~Busy(t, R)
    BY <1>1, <1>2, <1>5, <2>2 DEF SyncLock, TypeOK
  <2>4. "write" \in PCs /\ \A r \in R : \E m \in Models : r = SubsetRow(m)
    BY <1>2, <2>2 DEF PCs, SubsetRows, TypeOK
  <2>5. PICK new \in Tx : /\ tx' = [tx EXCEPT ![t] = new]
                          /\ new.pc = "write" /\ new.held = x.held \cup R /\ new.doomed = x.doomed
                          /\ new.op = x.op /\ new.row = x.row /\ new.grp = x.grp
                          /\ new.shared = x.shared
    <3>1. Goes(t, x, "write", R, x.doomed)
      BY <2>3, <2>4, GoesLocking, Zenon
    <3> QED BY <3>1 DEF Goes
  <2>6. Shape(new)
    BY <1>2, <2>1, <2>5 DEF TxOK, Shape, AllOps
  <2>7. HeldOK(new)
    BY <1>2, <2>1, <2>4, <2>5, RowKinds DEF TxOK, HeldOK
  <2>8. JoinOK(new) /\ ModelOK(new)
    BY <2>1, <2>2, <2>5 DEF JoinOK, Joins, ModelOK
  <2>9. Free(t, new)
    BY <1>1, <2>3, <2>5, LockMore DEF Free
  <2> QED BY <1>2, <2>5, <2>6, <2>7, <2>8, <2>9, TxStep DEF TxOK
<1> QED BY <1>3, <1>4, <1>5

\* The cascade of an unassign or a model delete, and the read of the prune.
LEMMA CascadeSafe ==
    ASSUME IInv, raced' \in BOOLEAN, NEW t \in Txs,
           CascadeRead(t) \/ CascadeConversations(t) \/ PruneRead(t)
    PROVE  IInv'
<1>1. PICK x \in Tx : x = tx[t]
  BY DEF IInv, TypeOK
<1>2. TypeOK /\ TxOK(x) /\ Kept /\ None \notin AllOps
  BY <1>1, ConstAssumption DEF IInv, CascadeRead, CascadeConversations, PruneRead, Kept
<1>3. CASE CascadeRead(t)
  <2>1. x.pc = "affected" /\ x.op \in {"unassign", "deleteModel"}
    BY <1>1, <1>2, <1>3 DEF CascadeRead, TxOK, Shape
  <2>2. PICK E \in SUBSET Groups : E = {conv[c].grp : c \in ConvsOf(Scope(t))}
    <3>1. Scope(t) \subseteq Assignments
      BY <1>1, <1>2, <2>1 DEF Scope, TxOK, Shape
    <3>2. \A c \in ConvsOf(Scope(t)) : conv[c].asg # None /\ c \in Convs
      BY <3>1, RowKinds DEF ConvsOf
    <3>3. \A c \in ConvsOf(Scope(t)) : conv[c].grp \in Groups
      BY <3>2 DEF IInv, TablesOK, TypeOK, ConvRow
    <3> QED BY <3>3
  <2>3. tx' = [tx EXCEPT ![t] = [x EXCEPT !.pc = "cascade", !.empty = E]]
    BY <1>1, <1>2, <1>3, <2>2 DEF CascadeRead, TypeOK
  <2>4. "cascade" \in PCs
    BY DEF PCs
  <2>5. PICK new \in Tx : /\ tx' = [tx EXCEPT ![t] = new]
                          /\ new.pc = "cascade" /\ new.held = x.held \cup {} /\ new.doomed = x.doomed
                          /\ new.op = x.op /\ new.row = x.row /\ new.grp = x.grp
                          /\ new.shared = x.shared
    <3>1. Goes(t, x, "cascade", {}, x.doomed)
      BY <2>3, <2>4, GoesReading, Zenon
    <3> QED BY <3>1 DEF Goes
  <2>6. new.held = x.held
    BY <2>5
  <2>7. Shape(new)
    BY <1>2, <2>1, <2>5, <2>6 DEF TxOK, Shape, AllOps
  <2>8. HeldOK(new) /\ JoinOK(new)
    BY <1>2, <2>1, <2>5, <2>6 DEF TxOK, HeldOK, JoinOK, Joins
  <2>9. ModelOK(new)
    BY <1>2, <2>1, <2>5, <2>6 DEF TxOK, ModelOK
  <2>10. Free(t, new)
    BY <1>1, <2>5, <2>6 DEF Free, IInv, Exclusive
  <2> QED BY <1>2, <2>5, <2>7, <2>8, <2>9, <2>10, TxStep DEF TxOK
<1>4. CASE CascadeConversations(t)
  <2>1. x.pc = "cascade" /\ x.op \in {"unassign", "deleteModel"}
    BY <1>1, <1>2, <1>4 DEF CascadeConversations, TxOK, Shape
  <2>2. PICK C \in SUBSET Convs : C = {c \in ConvsOf(Scope(t)) : conv[c].st = "live"}
    BY DEF ConvsOf
  <2>3. /\ tx' = [tx EXCEPT ![t] = [x EXCEPT !.pc = "prune", !.doomed = C, !.held = x.held \cup C]]
        /\ ~Busy(t, C)
    BY <1>1, <1>2, <1>4, <2>2 DEF CascadeConversations, TypeOK
  <2>4. PICK new : new = [x EXCEPT !.pc = "prune", !.doomed = C, !.held = x.held \cup C]
    OBVIOUS
  <2>5. new \in Tx
    BY <2>4 DEF Tx, Rows
  <2>6. /\ new.pc = "prune" /\ new.held = x.held \cup C /\ new.doomed = C
        /\ new.op = x.op /\ new.row = x.row /\ new.grp = x.grp /\ new.shared = x.shared
    BY <2>4 DEF Tx
  <2>7. tx' = [tx EXCEPT ![t] = new]
    BY <2>3, <2>4, Zenon
  <2>8. Shape(new)
    BY <1>2, <2>1, <2>6 DEF TxOK, Shape, AllOps
  <2>9. HeldOK(new)
    BY <1>2, <2>1, <2>2, <2>6, RowKinds DEF TxOK, HeldOK
  <2>10. JoinOK(new) /\ ModelOK(new)
    BY <1>2, <2>1, <2>6 DEF TxOK, JoinOK, Joins, ModelOK
  <2>11. Free(t, new)
    BY <1>1, <2>3, <2>6, LockMore DEF Free
  <2> QED BY <1>2, <2>5, <2>7, <2>8, <2>9, <2>10, <2>11, TxStep DEF TxOK
<1>5. CASE PruneRead(t)
  <2>1. x.pc = "prune" /\ x.op \in {"delete", "move", "unassign", "deleteModel"}
    BY <1>1, <1>2, <1>5 DEF PruneRead, TxOK, Shape
  <2>2. PICK E \in SUBSET Groups : E = {g \in Examined(t) : group[g] = "live" /\ LiveIn(g) \subseteq Leaving(t)}
    <3>1. Examined(t) \subseteq Groups
      BY <1>1, <1>2 DEF Examined, TxOK, Shape, Tx
    <3> QED BY <3>1
  <2>3. tx' = [tx EXCEPT ![t] = [x EXCEPT !.pc = "commit", !.empty = E]]
    BY <1>1, <1>2, <1>5, <2>2 DEF PruneRead, TypeOK
  <2>4. "commit" \in PCs
    BY DEF PCs
  <2>5. PICK new \in Tx : /\ tx' = [tx EXCEPT ![t] = new]
                          /\ new.pc = "commit" /\ new.held = x.held \cup {} /\ new.doomed = x.doomed
                          /\ new.op = x.op /\ new.row = x.row /\ new.grp = x.grp
                          /\ new.shared = x.shared
    <3>1. Goes(t, x, "commit", {}, x.doomed)
      BY <2>3, <2>4, GoesReading, Zenon
    <3> QED BY <3>1 DEF Goes
  <2>6. new.held = x.held
    BY <2>5
  <2>7. Shape(new)
    BY <1>2, <2>1, <2>5, <2>6 DEF TxOK, Shape, AllOps
  <2>8. HeldOK(new)
    BY <1>2, <2>1, <2>5, <2>6 DEF TxOK, HeldOK
  <2>9. JoinOK(new)
    BY <1>2, <2>1, <2>5, <2>6 DEF TxOK, JoinOK, Joins
  <2>10. ModelOK(new)
    BY <1>2, <2>1, <2>5, <2>6 DEF TxOK, ModelOK
  <2>11. Free(t, new)
    BY <1>1, <2>5, <2>6 DEF Free, IInv, Exclusive
  <2> QED BY <1>2, <2>5, <2>7, <2>8, <2>9, <2>10, <2>11, TxStep DEF TxOK
<1> QED BY <1>3, <1>4, <1>5

-----------------------------------------------------------------------------
(* Commits: the tables change, the request ends and its locks go.           *)

\* What the commit of one request leaves of what another one, u, relies on.
ConvFrame(u) ==
    /\ \A c \in Convs : c \in tx[u].held => conv'[c] = conv[c]
    /\ \A g \in Groups : g \in tx[u].held => group'[g] = group[g] /\ LiveIn(g)' \subseteq LiveIn(g)
    /\ \A g \in Groups : group[g] # "none" => group'[g] # "none"

ModelFrame(u) ==
    /\ \A a \in Assignments : asg[a].st # "none" => asg'[a].st # "none"
    /\ \A m \in Models : m \in allowed /\ SubsetRow(m) \in tx[u].shared /\ model[m] = "live"
         => m \in allowed' /\ model'[m] = "live"
    /\ \A m \in Models : tx[u].op = "deleteModel" /\ tx[u].row = m =>
         /\ m \in allowed' => m \in allowed
         /\ Bound(m)' \subseteq Bound(m)
    /\ tx[u].op = "sync" => allowed' \subseteq allowed

LEMMA LiveInFinite ==
    ASSUME NEW g
    PROVE  /\ IsFiniteSet(LiveIn(g)) /\ Cardinality(LiveIn(g)) \in Nat
           /\ IsFiniteSet(LiveIn(g)') /\ Cardinality(LiveIn(g)') \in Nat
<1>1. LiveIn(g) \in SUBSET Convs /\ LiveIn(g)' \in SUBSET Convs
  BY DEF LiveIn
<1>2. IsFiniteSet(LiveIn(g)) /\ IsFiniteSet(LiveIn(g)')
  BY <1>1, ConstAssumption, FS_Subset
<1> QED BY <1>2, FS_CardinalityType

LEMMA Shrinks ==
    ASSUME NEW g, LiveIn(g)' \subseteq LiveIn(g)
    PROVE  Cardinality(LiveIn(g)') <= Cardinality(LiveIn(g))
BY LiveInFinite, FS_Subset

\* Others go on as if nothing had happened.
LEMMA OtherTx ==
    ASSUME IInv, NEW u \in Txs, tx'[u] = tx[u], ConvFrame(u), ModelFrame(u)
    PROVE  TxOK(tx[u])'
<1>1. PICK x \in Tx : x = tx[u]
  BY DEF IInv, TypeOK
<1>2. TxOK(x) /\ tx'[u] = x
  BY <1>1 DEF IInv
<1>3. Shape(tx[u])'
  BY <1>2 DEF TxOK, Shape
<1>4. HeldOK(tx[u])'
  <2>1. x.op \in {"create", "move", "delete", "restore", "deleteGroup"} => x.grp \in Groups
    BY <1>2 DEF TxOK, Shape
  <2>2. x.op = "restore" => x.row \in Convs \cap x.held
    BY <1>2 DEF TxOK, Shape
  <2> QED BY <1>1, <1>2, <2>1, <2>2 DEF TxOK, HeldOK, ConvFrame, ModelFrame
<1>5. JoinOK(tx[u])'
  <2> SUFFICES ASSUME Joins(x)
               PROVE  /\ x.grp \in x.held
                      /\ Cardinality(LiveIn(x.grp)') < MaxGroupSize
                      /\ x.op # "restore" => group'[x.grp] = "live"
    BY <1>2 DEF JoinOK, Joins
  <2>1. PICK g \in Groups : g = x.grp
    BY <1>2 DEF TxOK, Shape, Joins
  <2>2. g \in x.held /\ Cardinality(LiveIn(g)) < MaxGroupSize /\ (x.op # "restore" => group[g] = "live")
    BY <1>2, <2>1 DEF TxOK, JoinOK
  <2>3. group'[g] = group[g] /\ LiveIn(g)' \subseteq LiveIn(g)
    BY <1>1, <2>2 DEF ConvFrame
  <2>4. Cardinality(LiveIn(g)') < MaxGroupSize
    BY <2>2, <2>3, Shrinks, LiveInFinite, ConstAssumption
  <2> QED BY <2>1, <2>2, <2>3, <2>4
<1>6. ModelOK(tx[u])'
  <2>1. x.op = "assign" => x.row \in Models /\ SubsetRow(x.row) \in x.shared
    BY <1>2 DEF TxOK, Shape
  <2>2. x.op = "assign" => x.row \in allowed' /\ model'[x.row] = "live"
    BY <1>1, <1>2, <2>1 DEF TxOK, ModelOK, ModelFrame
  <2>3. x.op = "deleteModel" => /\ x.row \in allowed' => x.row \in allowed
                                /\ Bound(x.row)' \subseteq Bound(x.row)
    BY <1>1, <1>2 DEF TxOK, Shape, ModelFrame
  <2>4. x.op = "sync" => SubsetRows(allowed') \subseteq SubsetRows(allowed)
    BY <1>1 DEF ModelFrame, SubsetRows
  <2>5. /\ x.op = "deleteModel" /\ x.pc # "unassign" => Bound(x.row) \subseteq x.held
        /\ x.op = "deleteModel" /\ x.pc \notin {"unassign", "subset"} /\ x.row \in allowed
             => SubsetRow(x.row) \in x.held
        /\ x.op = "sync" /\ x.pc = "write" => SubsetRows(allowed) \subseteq x.held
    BY <1>2 DEF TxOK, ModelOK
  <2>6. SubsetRows(allowed)' = SubsetRows(allowed') /\ SubsetRow(x.row)' = SubsetRow(x.row)
    BY DEF SubsetRows, SubsetRow
  <2> QED BY <1>2, <2>2, <2>3, <2>4, <2>5, <2>6 DEF ModelOK
<1> QED BY <1>3, <1>4, <1>5, <1>6 DEF TxOK

LEMMA CommitStep ==
    ASSUME IInv, NEW t \in Txs, Commit(t), TypeOK', TablesOK', CapRespected', AssignedWithinSubset',
           \A u \in Txs : u # t => ConvFrame(u) /\ ModelFrame(u)
    PROVE  IInv'
<1>1. TypeOK /\ \A u \in Txs : tx'[u] = IF u = t THEN IdleTx ELSE tx[u]
  BY DEF IInv, TypeOK, Commit
<1>2. Exclusive'
  BY <1>1 DEF IInv, Exclusive, IdleTx
<1>3. TxOK(tx[t])'
  BY <1>1, ConstAssumption DEF AllOps, TxOK, Shape, HeldOK, JoinOK, Joins, ModelOK, IdleTx
<1>4. ASSUME NEW u \in Txs, u # t PROVE TxOK(tx[u])'
  BY <1>1, <1>4, OtherTx
<1> QED BY <1>2, <1>3, <1>4 DEF IInv

LEMMA CommitTypes ==
    ASSUME TypeOK, NEW t \in Txs, Commit(t)
    PROVE  tx' \in [Txs -> Tx]
<1>1. IdleTx \in Tx
  BY DEF IdleTx, Tx
<1> QED BY <1>1 DEF TypeOK, Commit

LEMMA ConvsKept ==
    ASSUME UNCHANGED <<conv, group>>
    PROVE  (\A g : LiveIn(g)' = LiveIn(g)) /\ \A u \in Txs : ConvFrame(u)
<1>1. \A g : LiveIn(g)' = LiveIn(g)
  BY DEF LiveIn
<1> QED BY <1>1 DEF ConvFrame

LEMMA ModelsKept ==
    ASSUME UNCHANGED <<model, allowed, asg>>
    PROVE  \A u \in Txs : ModelFrame(u)
<1>1. \A m : Bound(m)' = Bound(m)
  BY DEF Bound, LiveAsgs
<1> QED BY <1>1 DEF ModelFrame

LEMMA AbortSafe ==
    ASSUME IInv, raced' \in BOOLEAN, NEW t \in Txs, Abort(t)
    PROVE  IInv'
<1>1. Commit(t) /\ Kept
  BY DEF Abort, Kept
<1>2. TypeOK'
  BY <1>1, CommitTypes DEF IInv, TypeOK, Kept
<1>3. TablesOK' /\ AssignedWithinSubset'
  BY <1>1 DEF IInv, TablesOK, AssignedWithinSubset, Kept
<1>5. CapRespected'
  BY <1>1, ConvsKept DEF IInv, CapRespected, Kept
<1>4. \A u \in Txs : ConvFrame(u) /\ ModelFrame(u)
  BY <1>1, ConvsKept, ModelsKept DEF Kept
<1> QED BY <1>1, <1>2, <1>3, <1>4, <1>5, CommitStep

\* A commit that writes conversations and groups only.
LEMMA ConvCommit ==
    ASSUME IInv, raced' \in BOOLEAN, NEW t \in Txs, Commit(t), UNCHANGED <<model, allowed, asg>>,
           conv' \in [Convs -> ConvRow], group' \in [Groups -> Liveness],
           \A c \in Convs : conv'[c].st # "none" => conv'[c].asg # None /\ conv'[c].grp # None,
           TablesOK', CapRespected', \A u \in Txs : u # t => ConvFrame(u)
    PROVE  IInv'
<1>1. TypeOK'
  BY CommitTypes DEF IInv, TypeOK
<1>2. AssignedWithinSubset'
  BY DEF IInv, AssignedWithinSubset
<1> QED BY <1>1, <1>2, ModelsKept, CommitStep

\* One element more makes a finite set larger by at most one.
LEMMA AddAtMostOne ==
    ASSUME NEW S, NEW x, IsFiniteSet(S), Cardinality(S) \in Nat
    PROVE  IsFiniteSet(S \cup {x}) /\ Cardinality(S \cup {x}) <= Cardinality(S) + 1
<1>1. /\ IsFiniteSet(S \cup {x})
      /\ Cardinality(S \cup {x}) = IF x \in S THEN Cardinality(S) ELSE Cardinality(S) + 1
  BY ONLY IsFiniteSet(S), FS_AddElement
<1> QED BY ONLY <1>1, Cardinality(S) \in Nat

\* A group that was counted under its lock has room for one more.
LEMMA RoomForOne ==
    ASSUME IInv, NEW t \in Txs, Joins(tx[t]), NEW g \in Groups, g = tx[t].grp, NEW c,
           \A h \in Groups : h # g => LiveIn(h)' \subseteq LiveIn(h),
           LiveIn(g)' \subseteq LiveIn(g) \cup {c}
    PROVE  CapRespected'
<1>1. ASSUME NEW h \in Groups, h # g PROVE Cardinality(LiveIn(h)') <= MaxGroupSize
  <2>1. Cardinality(LiveIn(h)') <= Cardinality(LiveIn(h))
    BY <1>1, Shrinks
  <2>2. Cardinality(LiveIn(h)) <= MaxGroupSize
    BY DEF IInv, CapRespected
  <2> QED BY <2>1, <2>2, LiveInFinite, ConstAssumption
<1>2. Cardinality(LiveIn(g)') <= MaxGroupSize
  <2>1. Cardinality(LiveIn(g)) < MaxGroupSize
    BY DEF IInv, TxOK, JoinOK
  <2>2. IsFiniteSet(LiveIn(g) \cup {c}) /\ Cardinality(LiveIn(g) \cup {c}) <= Cardinality(LiveIn(g)) + 1
    <3>1. IsFiniteSet(LiveIn(g)) /\ Cardinality(LiveIn(g)) \in Nat
      BY LiveInFinite
    <3> QED BY ONLY <3>1, AddAtMostOne
  <2>3. Cardinality(LiveIn(g)') <= Cardinality(LiveIn(g) \cup {c}) /\ Cardinality(LiveIn(g) \cup {c}) \in Nat
    BY <2>2, FS_Subset, FS_CardinalityType
  <2> QED BY <2>1, <2>2, <2>3, LiveInFinite, ConstAssumption
<1> QED BY <1>1, <1>2 DEF CapRespected

\* Only members leave.
LEMMA NoneJoins ==
    ASSUME IInv, \A h \in Groups : LiveIn(h)' \subseteq LiveIn(h)
    PROVE  CapRespected'
<1> SUFFICES ASSUME NEW h \in Groups PROVE Cardinality(LiveIn(h)') <= MaxGroupSize
  BY DEF CapRespected
<1>1. Cardinality(LiveIn(h)') <= Cardinality(LiveIn(h)) /\ Cardinality(LiveIn(h)) <= MaxGroupSize
  BY Shrinks DEF IInv, CapRespected
<1> QED BY <1>1, LiveInFinite, ConstAssumption

LEMMA CreateCommitSafe ==
    ASSUME IInv, raced' \in BOOLEAN, NEW t \in Txs, NEW c \in Convs, CreateCommit(t, c)
    PROVE  IInv'
<1>1. PICK x \in Tx : x = tx[t]
  BY DEF IInv, TypeOK
<1>2. /\ TypeOK /\ TablesOK /\ TxOK(x) /\ x.op = "create" /\ x.pc = "write" /\ conv[c].st = "none"
      /\ Commit(t) /\ UNCHANGED <<model, allowed, asg, group>>
  BY <1>1 DEF IInv, CreateCommit
<1>3. /\ x.row \in Assignments /\ x.grp \in Groups /\ group[x.grp] # "none" /\ x.grp \in x.held
      /\ Joins(x)
  BY <1>2 DEF TxOK, Shape, HeldOK, JoinOK, Joins
<1>4. PICK new \in ConvRow : new.st = "live" /\ new.asg = x.row /\ new.grp = x.grp /\ conv' = [conv EXCEPT ![c] = new]
  <2>1. PICK new : new = [st |-> "live", asg |-> x.row, grp |-> x.grp]
    OBVIOUS
  <2>2. new \in ConvRow /\ new.st = "live" /\ new.asg = x.row /\ new.grp = x.grp
    BY <1>3, <2>1 DEF ConvRow, Liveness
  <2>3. conv' = [conv EXCEPT ![c] = new]
    BY <1>1, <2>1, Zenon DEF CreateCommit
  <2> QED BY <2>2, <2>3
<1>5. \A d \in Convs : conv'[d] = IF d = c THEN new ELSE conv[d]
  BY <1>2, <1>4 DEF TypeOK
<1>6. conv' \in [Convs -> ConvRow] /\ group' \in [Groups -> Liveness]
  BY <1>2, <1>4 DEF TypeOK
<1>7. \A d \in Convs : conv'[d].st # "none" => conv'[d].asg # None /\ conv'[d].grp # None
  BY <1>2, <1>3, <1>4, <1>5, RowKinds DEF TypeOK
<1>8. TablesOK'
  BY <1>2, <1>3, <1>4, <1>5 DEF TablesOK
<1>9. /\ \A h \in Groups : h # x.grp => LiveIn(h)' \subseteq LiveIn(h)
      /\ LiveIn(x.grp)' \subseteq LiveIn(x.grp) \cup {c}
  BY <1>4, <1>5 DEF LiveIn
<1>10. CapRespected'
  BY <1>1, <1>3, <1>9, RoomForOne
<1>11. ASSUME NEW u \in Txs, u # t PROVE ConvFrame(u)
  <2>1. c \notin tx[u].held /\ x.grp \notin tx[u].held
    BY <1>1, <1>2, <1>3, <1>11 DEF IInv, Exclusive, TxOK, HeldOK
  <2> QED BY <1>2, <1>5, <1>9, <2>1 DEF ConvFrame
<1> QED BY <1>2, <1>6, <1>7, <1>8, <1>10, <1>11, ConvCommit

LEMMA RestoreCommitSafe ==
    ASSUME IInv, raced' \in BOOLEAN, NEW t \in Txs, RestoreCommit(t)
    PROVE  IInv'
<1>1. PICK x \in Tx : x = tx[t]
  BY DEF IInv, TypeOK
<1>2. /\ TypeOK /\ TablesOK /\ TxOK(x) /\ x.op = "restore" /\ x.pc = "write"
      /\ Commit(t) /\ UNCHANGED <<model, allowed, asg>>
  BY <1>1 DEF IInv, RestoreCommit
<1>3. PICK c \in Convs : c = x.row
  BY <1>2 DEF TxOK, Shape
<1>4. /\ c \in x.held /\ x.grp \in Groups /\ group[x.grp] # "none" /\ x.grp \in x.held /\ Joins(x)
      /\ conv[c].grp = x.grp /\ conv[c].st # "none" /\ conv[c] \in ConvRow
  BY <1>2, <1>3 DEF TxOK, Shape, HeldOK, JoinOK, Joins, TypeOK
<1>5. group' = [group EXCEPT ![x.grp] = "live"]
  BY <1>1 DEF RestoreCommit, revive_pruned_group
<1>6. conv' = [conv EXCEPT ![c] = [conv[c] EXCEPT !.st = "live"]]
  BY <1>1, <1>2, <1>3 DEF RestoreCommit, TypeOK
<1>7. PICK new \in ConvRow : new.st = "live" /\ new.asg = conv[c].asg /\ new.grp = x.grp /\ conv' = [conv EXCEPT ![c] = new]
  <2>1. PICK new : new = [conv[c] EXCEPT !.st = "live"]
    OBVIOUS
  <2>2. new \in ConvRow /\ new.st = "live" /\ new.asg = conv[c].asg /\ new.grp = x.grp
    BY <1>4, <2>1 DEF ConvRow, Liveness
  <2>3. conv' = [conv EXCEPT ![c] = new]
    BY <1>6, <2>1, Zenon
  <2> QED BY <2>2, <2>3
<1>8. \A d \in Convs : conv'[d] = IF d = c THEN new ELSE conv[d]
  BY <1>2, <1>7 DEF TypeOK
<1>9. conv' \in [Convs -> ConvRow] /\ group' \in [Groups -> Liveness]
  BY <1>2, <1>5, <1>7 DEF TypeOK, Liveness
<1>10. \A d \in Convs : conv'[d].st # "none" => conv'[d].asg # None /\ conv'[d].grp # None
  BY <1>2, <1>4, <1>7, <1>8 DEF TypeOK
<1>11. \A g \in Groups : group'[g] = IF g = x.grp THEN "live" ELSE group[g]
  BY <1>2, <1>5 DEF TypeOK
<1>12. TablesOK'
  <2>1. \A d \in Convs : conv[d].st # "none" => conv[d].grp \in Groups
    BY <1>2 DEF TypeOK, ConvRow
  <2> QED BY <1>2, <1>4, <1>7, <1>8, <1>11, <2>1 DEF TablesOK
<1>13. /\ \A h \in Groups : h # x.grp => LiveIn(h)' \subseteq LiveIn(h)
       /\ LiveIn(x.grp)' \subseteq LiveIn(x.grp) \cup {c}
  BY <1>7, <1>8 DEF LiveIn
<1>14. CapRespected'
  BY <1>1, <1>4, <1>13, RoomForOne
<1>15. ASSUME NEW u \in Txs, u # t PROVE ConvFrame(u)
  <2>1. c \notin tx[u].held /\ x.grp \notin tx[u].held
    BY <1>1, <1>4, <1>15 DEF IInv, Exclusive
  <2> QED BY <1>8, <1>11, <1>13, <2>1 DEF ConvFrame
<1> QED BY <1>2, <1>9, <1>10, <1>12, <1>14, <1>15, ConvCommit

LEMMA CreateGroupCommitSafe ==
    ASSUME IInv, raced' \in BOOLEAN, NEW t \in Txs, NEW g \in Groups, NEW C \in SUBSET Convs,
           CreateGroupCommit(t, g, C)
    PROVE  IInv'
<1>1. PICK x \in Tx : x = tx[t]
  BY DEF IInv, TypeOK
<1>2. /\ TypeOK /\ TablesOK /\ TxOK(x) /\ x.op = "createGroup" /\ group[g] = "none"
      /\ (\A c \in C : conv[c].st = "none") /\ Cardinality(C) <= MaxGroupSize
      /\ Commit(t) /\ UNCHANGED <<model, allowed, asg>> /\ group' = [group EXCEPT ![g] = "live"]
  BY <1>1 DEF IInv, CreateGroupCommit
<1>3. x.row \in Assignments
  BY <1>2 DEF TxOK, Shape
<1>4. PICK new \in ConvRow : new.st = "live" /\ new.asg = x.row /\ new.grp = g
                             /\ conv' = [c \in Convs |-> IF c \in C THEN new ELSE conv[c]]
  <2>1. PICK new : new = [st |-> "live", asg |-> x.row, grp |-> g]
    OBVIOUS
  <2>2. new \in ConvRow /\ new.st = "live" /\ new.asg = x.row /\ new.grp = g
    BY <1>3, <2>1 DEF ConvRow, Liveness
  <2>3. conv' = [c \in Convs |-> IF c \in C THEN new ELSE conv[c]]
    BY <1>1, <2>1 DEF CreateGroupCommit
  <2> QED BY <2>2, <2>3
<1>5. \A d \in Convs : conv'[d] = IF d \in C THEN new ELSE conv[d]
  BY <1>4
<1>6. conv' \in [Convs -> ConvRow] /\ group' \in [Groups -> Liveness]
  BY <1>2, <1>4 DEF TypeOK, Liveness
<1>7. \A d \in Convs : conv'[d].st # "none" => conv'[d].asg # None /\ conv'[d].grp # None
  BY <1>2, <1>3, <1>4, <1>5, RowKinds DEF TypeOK
<1>8. \A h \in Groups : group'[h] = IF h = g THEN "live" ELSE group[h]
  BY <1>2 DEF TypeOK
<1>9. TablesOK'
  <2>1. \A d \in Convs : conv[d].st # "none" => conv[d].grp \in Groups
    BY <1>2 DEF TypeOK, ConvRow
  <2> QED BY <1>2, <1>4, <1>5, <1>8, <2>1 DEF TablesOK
<1>10. /\ \A h \in Groups : h # g => LiveIn(h)' \subseteq LiveIn(h)
       /\ LiveIn(g)' \subseteq C
  BY <1>2, <1>4, <1>5 DEF LiveIn, TablesOK
<1>11. CapRespected'
  <2>1. ASSUME NEW h \in Groups, h # g PROVE Cardinality(LiveIn(h)') <= MaxGroupSize
    <3>1. Cardinality(LiveIn(h)') <= Cardinality(LiveIn(h)) /\ Cardinality(LiveIn(h)) <= MaxGroupSize
      BY <1>10, <2>1, Shrinks DEF IInv, CapRespected
    <3> QED BY <3>1, LiveInFinite, ConstAssumption
  <2>2. Cardinality(LiveIn(g)') <= MaxGroupSize
    <3>1. IsFiniteSet(C)
      BY ConstAssumption, FS_Subset
    <3>2. Cardinality(LiveIn(g)') <= Cardinality(C) /\ Cardinality(C) \in Nat
      BY <1>10, <3>1, FS_Subset, FS_CardinalityType
    <3> QED BY <1>2, <3>2, LiveInFinite, ConstAssumption
  <2> QED BY <2>1, <2>2 DEF CapRespected
<1>12. ASSUME NEW u \in Txs, u # t PROVE ConvFrame(u)
  <2>1. g \notin tx[u].held /\ \A c \in C : c \notin tx[u].held
    BY <1>2 DEF IInv, TxOK, HeldOK
  <2> QED BY <1>2, <1>5, <1>8, <1>10, <2>1 DEF ConvFrame
<1> QED BY <1>2, <1>6, <1>7, <1>9, <1>11, <1>12, ConvCommit

\* Tombstones keep everything but the status.
LEMMA Tombstones ==
    ASSUME TypeOK, NEW C \in SUBSET Convs, conv' = Tombstone(C), \A c \in C : conv[c].st # "none"
    PROVE  /\ conv' \in [Convs -> ConvRow]
           /\ \A d \in Convs : /\ conv'[d].asg = conv[d].asg /\ conv'[d].grp = conv[d].grp
                               /\ conv'[d].st = IF d \in C THEN "dead" ELSE conv[d].st
                               /\ d \notin C => conv'[d] = conv[d]
           /\ \A d \in Convs : conv'[d].st # "none" => conv'[d].asg # None /\ conv'[d].grp # None
           /\ \A h \in Groups : LiveIn(h)' \subseteq LiveIn(h)
<1>1. ASSUME NEW d \in Convs
      PROVE  /\ conv'[d] \in ConvRow
             /\ conv'[d].asg = conv[d].asg /\ conv'[d].grp = conv[d].grp
             /\ conv'[d].st = IF d \in C THEN "dead" ELSE conv[d].st
             /\ d \notin C => conv'[d] = conv[d]
  <2>1. conv[d] \in ConvRow
    BY DEF TypeOK
  <2>2. CASE d \in C
    <3>1. conv'[d] = [conv[d] EXCEPT !.st = "dead"]
      BY <2>2 DEF Tombstone
    <3> QED BY <2>1, <2>2, <3>1 DEF ConvRow, Liveness
  <2>3. CASE d \notin C
    <3>1. conv'[d] = conv[d]
      BY <2>3 DEF Tombstone
    <3> QED BY <2>1, <2>3, <3>1
  <2> QED BY <2>2, <2>3
<1>2. conv' \in [Convs -> ConvRow]
  <2>1. conv' = [d \in Convs |-> conv'[d]]
    BY DEF Tombstone
  <2> QED BY <1>1, <2>1
<1>3. \A d \in Convs : conv'[d].st # "none" => conv'[d].asg # None /\ conv'[d].grp # None
  BY <1>1 DEF TypeOK
<1>4. \A h \in Groups : LiveIn(h)' \subseteq LiveIn(h)
  BY <1>1 DEF LiveIn
<1> QED BY <1>1, <1>2, <1>3, <1>4

LEMMA DeleteGroupCommitSafe ==
    ASSUME IInv, raced' \in BOOLEAN, NEW t \in Txs, DeleteGroupCommit(t)
    PROVE  IInv'
<1>1. PICK x \in Tx : x = tx[t]
  BY DEF IInv, TypeOK
<1>2. /\ TypeOK /\ TablesOK /\ TxOK(x) /\ x.op = "deleteGroup"
      /\ Commit(t) /\ UNCHANGED <<model, allowed, asg>> /\ group' = [group EXCEPT ![x.grp] = "dead"]
  BY <1>1 DEF IInv, DeleteGroupCommit
<1>3. x.grp \in Groups /\ x.grp \in x.held /\ group[x.grp] # "none"
  BY <1>2 DEF TxOK, Shape, HeldOK
<1>4. PICK C \in SUBSET Convs : C = LiveIn(x.grp)
  BY DEF LiveIn
<1>5. conv' = Tombstone(C) /\ ~Busy(t, C) /\ \A c \in C : conv[c].st # "none"
  BY <1>1, <1>4 DEF DeleteGroupCommit, LiveIn
<1>6. /\ conv' \in [Convs -> ConvRow]
      /\ \A d \in Convs : /\ conv'[d].asg = conv[d].asg /\ conv'[d].grp = conv[d].grp
                          /\ conv'[d].st = IF d \in C THEN "dead" ELSE conv[d].st
                          /\ d \notin C => conv'[d] = conv[d]
      /\ \A d \in Convs : conv'[d].st # "none" => conv'[d].asg # None /\ conv'[d].grp # None
      /\ \A h \in Groups : LiveIn(h)' \subseteq LiveIn(h)
  BY <1>2, <1>5, Tombstones
<1>7. group' \in [Groups -> Liveness] /\ \A h \in Groups : group'[h] = IF h = x.grp THEN "dead" ELSE group[h]
  BY <1>2 DEF TypeOK, Liveness
<1>8. TablesOK'
  <2>1. \A d \in Convs : conv[d].st # "none" => conv[d].grp \in Groups
    BY <1>2 DEF TypeOK, ConvRow
  <2> QED BY <1>2, <1>5, <1>6, <1>7, <2>1 DEF TablesOK
<1>9. CapRespected'
  BY <1>6, NoneJoins
<1>10. ASSUME NEW u \in Txs, u # t PROVE ConvFrame(u)
  <2>1. x.grp \notin tx[u].held /\ \A c \in C : c \notin tx[u].held
    BY <1>1, <1>3, <1>5, <1>10 DEF IInv, Exclusive, Busy
  <2> QED BY <1>3, <1>6, <1>7, <2>1 DEF ConvFrame
<1> QED BY <1>2, <1>6, <1>7, <1>8, <1>9, <1>10, ConvCommit

\* A commit that writes models, assignments and allowed models only.
LEMMA ModelCommit ==
    ASSUME IInv, raced' \in BOOLEAN, NEW t \in Txs, Commit(t), UNCHANGED <<conv, group>>,
           model' \in [Models -> {"live", "dead"}], allowed' \in SUBSET Models,
           asg' \in [Assignments -> AsgRow], \A a \in Assignments : asg'[a].st # "none" => asg'[a].model # None,
           AssignedWithinSubset', \A u \in Txs : u # t => ModelFrame(u)
    PROVE  IInv'
<1>1. TypeOK'
  BY CommitTypes DEF IInv, TypeOK
<1>2. TablesOK'
  BY DEF IInv, TablesOK
<1>3. CapRespected'
  BY ConvsKept DEF IInv, CapRespected
<1> QED BY <1>1, <1>2, <1>3, ConvsKept, CommitStep

LEMMA AssignCommitSafe ==
    ASSUME IInv, raced' \in BOOLEAN, NEW t \in Txs, NEW a \in Assignments, AssignCommit(t, a)
    PROVE  IInv'
<1>1. PICK x \in Tx : x = tx[t]
  BY DEF IInv, TypeOK
<1>2. /\ TypeOK /\ TxOK(x) /\ x.op = "assign" /\ asg[a].st = "none" /\ ~KeyBusy(t, x.row)
      /\ Commit(t) /\ UNCHANGED <<model, allowed, conv, group>>
  BY <1>1 DEF IInv, AssignCommit
<1>3. x.row \in Models /\ x.row \in allowed /\ model[x.row] = "live"
  BY <1>2 DEF TxOK, Shape, ModelOK
<1>4. PICK new \in AsgRow : new.st = "live" /\ new.model = x.row /\ asg' = [asg EXCEPT ![a] = new]
  <2>1. PICK new : new = [st |-> "live", model |-> x.row, again |-> FALSE]
    OBVIOUS
  <2>2. new \in AsgRow /\ new.st = "live" /\ new.model = x.row
    BY <1>3, <2>1 DEF AsgRow, Liveness
  <2>3. asg' = [asg EXCEPT ![a] = new]
    BY <1>1, <2>1, Zenon DEF AssignCommit
  <2> QED BY <2>2, <2>3
<1>5. asg' \in [Assignments -> AsgRow] /\ \A b \in Assignments : asg'[b] = IF b = a THEN new ELSE asg[b]
  BY <1>2, <1>4 DEF TypeOK
<1>6. \A b \in Assignments : asg'[b].st # "none" => asg'[b].model # None
  BY <1>2, <1>3, <1>4, <1>5, RowKinds DEF TypeOK
<1>7. AssignedWithinSubset'
  BY <1>2, <1>3, <1>4, <1>5 DEF IInv, AssignedWithinSubset
<1>8. ASSUME NEW u \in Txs, u # t PROVE ModelFrame(u)
  <2>1. tx[u].op = "deleteModel" => tx[u].row # x.row
    BY <1>2, <1>8 DEF IInv, TxOK, Shape, KeyBusy
  <2>2. \A m \in Models : tx[u].op = "deleteModel" /\ tx[u].row = m => Bound(m)' \subseteq Bound(m)
    BY <1>4, <1>5, <2>1 DEF Bound, LiveAsgs
  <2> QED BY <1>2, <1>4, <1>5, <2>2 DEF ModelFrame
<1>9. model' \in [Models -> {"live", "dead"}] /\ allowed' \in SUBSET Models
  BY <1>2 DEF TypeOK
<1> QED BY <1>2, <1>5, <1>6, <1>7, <1>8, <1>9, ModelCommit

LEMMA RestoreAssignmentCommitSafe ==
    ASSUME IInv, raced' \in BOOLEAN, NEW t \in Txs, RestoreAssignmentCommit(t)
    PROVE  IInv'
<1>1. PICK x \in Tx : x = tx[t]
  BY DEF IInv, TypeOK
<1>2. /\ TypeOK /\ TxOK(x) /\ x.op = "restoreAssignment"
      /\ Commit(t) /\ UNCHANGED <<model, allowed, conv, group>>
  BY <1>1 DEF IInv, RestoreAssignmentCommit
<1>3. PICK a \in Assignments : a = x.row
  BY <1>2 DEF TxOK, Shape
<1>4. asg[a] \in AsgRow /\ asg[a].st # "none"
  BY <1>2, <1>3 DEF TxOK, Shape, HeldOK, TypeOK
<1>5. PICK new \in AsgRow : /\ new.st = "live" /\ new.model = asg[a].model /\ new.again = TRUE
                            /\ asg' = [asg EXCEPT ![a] = new]
  <2>1. PICK new : new = [asg[a] EXCEPT !.st = "live", !.again = TRUE]
    OBVIOUS
  <2>2. new \in AsgRow /\ new.st = "live" /\ new.model = asg[a].model /\ new.again = TRUE
    BY <1>4, <2>1 DEF AsgRow, Liveness
  <2>3. asg' = [asg EXCEPT ![a] = [asg[a] EXCEPT !.st = "live", !.again = TRUE]]
    BY <1>1, <1>2, <1>3 DEF RestoreAssignmentCommit, TypeOK
  <2>4. asg' = [asg EXCEPT ![a] = new]
    BY <2>1, <2>3, Zenon
  <2> QED BY <2>2, <2>4
<1>6. asg' \in [Assignments -> AsgRow] /\ \A b \in Assignments : asg'[b] = IF b = a THEN new ELSE asg[b]
  BY <1>2, <1>5 DEF TypeOK
<1>7. \A b \in Assignments : asg'[b].st # "none" => asg'[b].model # None
  BY <1>2, <1>4, <1>5, <1>6 DEF TypeOK
<1>8. AssignedWithinSubset'
  BY <1>2, <1>5, <1>6 DEF IInv, AssignedWithinSubset
<1>9. ASSUME NEW u \in Txs PROVE ModelFrame(u)
  <2>1. \A m \in Models : Bound(m)' \subseteq Bound(m)
    BY <1>5, <1>6 DEF Bound, LiveAsgs
  <2> QED BY <1>2, <1>5, <1>6, <2>1 DEF ModelFrame
<1>10. model' \in [Models -> {"live", "dead"}] /\ allowed' \in SUBSET Models
  BY <1>2 DEF TypeOK
<1> QED BY <1>2, <1>6, <1>7, <1>8, <1>9, <1>10, ModelCommit

LEMMA RestoreModelCommitSafe ==
    ASSUME IInv, raced' \in BOOLEAN, NEW t \in Txs, RestoreModelCommit(t)
    PROVE  IInv'
<1>1. /\ TypeOK /\ Commit(t) /\ UNCHANGED <<allowed, asg, conv, group>>
      /\ model' = [model EXCEPT ![tx[t].row] = "live"]
  BY DEF IInv, RestoreModelCommit
<1>2. model' \in [Models -> {"live", "dead"}] /\ \A m \in Models : model[m] = "live" => model'[m] = "live"
  BY <1>1 DEF TypeOK
<1>3. AssignedWithinSubset'
  <2>1. \A a \in Assignments : asg[a].st = "live" => asg[a].model \in Models
    BY <1>1 DEF TypeOK, AsgRow
  <2> QED BY <1>1, <1>2, <2>1 DEF IInv, AssignedWithinSubset
<1>4. \A u \in Txs : ModelFrame(u)
  <2>1. \A m : Bound(m)' = Bound(m)
    BY <1>1 DEF Bound, LiveAsgs
  <2> QED BY <1>1, <1>2, <2>1 DEF ModelFrame
<1>5. /\ allowed' \in SUBSET Models /\ asg' \in [Assignments -> AsgRow]
      /\ \A a \in Assignments : asg'[a].st # "none" => asg'[a].model # None
  BY <1>1 DEF TypeOK
<1> QED BY <1>1, <1>2, <1>3, <1>4, <1>5, ModelCommit

LEMMA SyncCommitSafe ==
    ASSUME IInv, raced' \in BOOLEAN, NEW t \in Txs, SyncCommit(t)
    PROVE  IInv'
<1>1. PICK x \in Tx : x = tx[t]
  BY DEF IInv, TypeOK
<1>2. /\ TypeOK /\ TxOK(x) /\ x.op = "sync" /\ x.pc = "write"
      /\ (\A m \in allowed \ x.target : LiveAsgs(m) = {})
      /\ (\A m \in x.target \ allowed : ~KeyBusy(t, m))
      /\ allowed' = x.target /\ Commit(t) /\ UNCHANGED <<model, asg, conv, group>>
  BY <1>1 DEF IInv, SyncCommit
<1>3. EvaluationGroup \in x.held /\ SubsetRows(allowed) \subseteq x.held
  BY <1>2 DEF TxOK, Shape, ModelOK
<1>4. AssignedWithinSubset'
  <2>1. \A a \in Assignments : asg[a].st = "live" => a \in LiveAsgs(asg[a].model)
    BY DEF LiveAsgs
  <2> QED BY <1>2, <2>1 DEF IInv, AssignedWithinSubset
<1>5. ASSUME NEW u \in Txs, u # t PROVE ModelFrame(u)
  <2>1. \A m : Bound(m)' = Bound(m)
    BY <1>2 DEF Bound, LiveAsgs
  <2>2. \A m \in allowed : SubsetRow(m) \notin tx[u].shared
    BY <1>1, <1>3, <1>5 DEF IInv, Exclusive, SubsetRows
  <2>3. tx[u].op # "sync"
    BY <1>1, <1>3, <1>5 DEF IInv, Exclusive, TxOK, Shape
  <2>4. tx[u].op = "deleteModel" /\ tx[u].row \in allowed' => tx[u].row \in allowed
    BY <1>2, <1>5 DEF IInv, TxOK, Shape, KeyBusy
  <2> QED BY <1>2, <2>1, <2>2, <2>3, <2>4 DEF ModelFrame
<1>6. /\ allowed' \in SUBSET Models /\ asg' \in [Assignments -> AsgRow] /\ model' \in [Models -> {"live", "dead"}]
      /\ \A a \in Assignments : asg'[a].st # "none" => asg'[a].model # None
  BY <1>2 DEF TypeOK, Tx
<1> QED BY <1>2, <1>4, <1>5, <1>6, ModelCommit

\* What the last statement of a delete, a move or a cascade writes.
LEMMA PruneWrites ==
    ASSUME IInv, NEW t \in Txs, PruneCommit(t)
    PROVE  /\ conv' \in [Convs -> ConvRow] /\ group' \in [Groups -> Liveness]
           /\ \A d \in Convs : conv'[d].st # "none" => conv'[d].asg # None /\ conv'[d].grp # None
           /\ \A d \in Convs : /\ d \notin tx[t].held => conv'[d] = conv[d]
                               /\ conv'[d].asg = conv[d].asg /\ (conv'[d].st = "none" <=> conv[d].st = "none")
                               /\ conv'[d].st = "live" => conv[d].st = "live"
                               /\ \/ conv'[d].grp = conv[d].grp
                                  \/ tx[t].op = "move" /\ d = tx[t].row /\ conv'[d].grp = tx[t].grp /\ conv[d].st # "none"
           /\ \A g \in Groups : \/ group'[g] = group[g]
                                \/ g \in tx[t].empty /\ group[g] = "live" /\ group'[g] = "dead"
<1>1. PICK x \in Tx : x = tx[t]
  BY DEF IInv, TypeOK
<1>2. TypeOK /\ TxOK(x) /\ x.pc = "commit" /\ x.op \in {"delete", "move", "unassign", "deleteModel"}
  BY <1>1 DEF IInv, PruneCommit, TxOK, Shape
<1>3. group' \in [Groups -> Liveness]
      /\ \A g \in Groups : group'[g] = group[g] \/ (g \in x.empty /\ group[g] = "live" /\ group'[g] = "dead")
  BY <1>1, <1>2 DEF PruneCommit, TypeOK, Liveness
<1>4. CASE x.op = "move"
  <2>1. PICK c \in Convs : c = x.row
    BY <1>2, <1>4 DEF TxOK, Shape
  <2>2. c \in x.held /\ conv[c].st # "none" /\ x.grp \in Groups /\ conv[c] \in ConvRow
    BY <1>2, <1>4, <2>1 DEF TxOK, Shape, HeldOK, TypeOK
  <2>3. conv' = [conv EXCEPT ![c] = [conv[c] EXCEPT !.grp = x.grp]]
    BY <1>1, <1>2, <1>4, <2>1 DEF PruneCommit, TypeOK
  <2>4. PICK new \in ConvRow : /\ new.st = conv[c].st /\ new.asg = conv[c].asg /\ new.grp = x.grp
                               /\ conv' = [conv EXCEPT ![c] = new]
    <3>1. PICK new : new = [conv[c] EXCEPT !.grp = x.grp]
      OBVIOUS
    <3>2. new \in ConvRow /\ new.st = conv[c].st /\ new.asg = conv[c].asg /\ new.grp = x.grp
      BY <2>2, <3>1 DEF ConvRow
    <3>3. conv' = [conv EXCEPT ![c] = new]
      BY <2>3, <3>1, Zenon
    <3> QED BY <3>2, <3>3
  <2>5. conv' \in [Convs -> ConvRow] /\ \A d \in Convs : conv'[d] = IF d = c THEN new ELSE conv[d]
    BY <1>2, <2>4 DEF TypeOK
  <2>6. \A d \in Convs : conv'[d].st # "none" => conv'[d].asg # None /\ conv'[d].grp # None
    BY <1>2, <2>2, <2>4, <2>5, RowKinds DEF TypeOK
  <2>7. \A d \in Convs : /\ d \notin x.held => conv'[d] = conv[d]
                         /\ conv'[d].asg = conv[d].asg /\ (conv'[d].st = "none" <=> conv[d].st = "none")
                         /\ conv'[d].st = "live" => conv[d].st = "live"
                         /\ \/ conv'[d].grp = conv[d].grp
                            \/ x.op = "move" /\ d = x.row /\ conv'[d].grp = x.grp /\ conv[d].st # "none"
    BY <1>4, <2>1, <2>2, <2>4, <2>5
  <2> QED BY <1>1, <1>3, <2>5, <2>6, <2>7
<1>5. CASE x.op # "move"
  <2>1. PICK C \in SUBSET Convs : C = Leaving(t) /\ C \subseteq x.held
    <3>1. CASE x.op = "delete"
      <4>1. x.row \in Convs /\ x.row \in x.held
        BY <1>2, <3>1 DEF TxOK, Shape
      <4>2. Leaving(t) = {x.row}
        BY <1>1, <3>1 DEF Leaving
      <4> QED BY <4>1, <4>2
    <3>2. CASE x.op # "delete"
      <4>1. Leaving(t) = x.doomed
        BY <1>1, <1>5, <3>2 DEF Leaving
      <4>2. x.doomed \subseteq Convs /\ x.doomed \subseteq x.held
        BY <1>1, <1>2 DEF TxOK, Shape, Tx
      <4> QED BY <4>1, <4>2
    <3> QED BY <3>1, <3>2
  <2>2. conv' = Tombstone(C) /\ \A c \in C : conv[c].st # "none"
    BY <1>1, <1>2, <1>5, <2>1 DEF PruneCommit, TxOK, HeldOK
  <2>3. /\ conv' \in [Convs -> ConvRow]
        /\ \A d \in Convs : /\ conv'[d].asg = conv[d].asg /\ conv'[d].grp = conv[d].grp
                            /\ conv'[d].st = IF d \in C THEN "dead" ELSE conv[d].st
                            /\ d \notin C => conv'[d] = conv[d]
        /\ \A d \in Convs : conv'[d].st # "none" => conv'[d].asg # None /\ conv'[d].grp # None
    BY <1>2, <2>2, Tombstones
  <2> QED BY <1>1, <1>3, <2>1, <2>2, <2>3
<1> QED BY <1>4, <1>5

LEMMA PruneCommitSafe ==
    ASSUME IInv, raced' \in BOOLEAN, NEW t \in Txs, PruneCommit(t)
    PROVE  IInv'
<1>1. PICK x \in Tx : x = tx[t]
  BY DEF IInv, TypeOK
<1>2. /\ TypeOK /\ TablesOK /\ TxOK(x) /\ x.pc = "commit" /\ x.op \in {"delete", "move", "unassign", "deleteModel"}
      /\ Commit(t) /\ ~Busy(t, x.empty)
  BY <1>1 DEF IInv, PruneCommit, TxOK, Shape
<1>3. /\ conv' \in [Convs -> ConvRow] /\ group' \in [Groups -> Liveness]
      /\ \A d \in Convs : conv'[d].st # "none" => conv'[d].asg # None /\ conv'[d].grp # None
      /\ \A d \in Convs : /\ d \notin x.held => conv'[d] = conv[d]
                          /\ conv'[d].asg = conv[d].asg /\ (conv'[d].st = "none" <=> conv[d].st = "none")
                          /\ conv'[d].st = "live" => conv[d].st = "live"
                          /\ \/ conv'[d].grp = conv[d].grp
                             \/ x.op = "move" /\ d = x.row /\ conv'[d].grp = x.grp /\ conv[d].st # "none"
      /\ \A g \in Groups : \/ group'[g] = group[g]
                           \/ g \in x.empty /\ group[g] = "live" /\ group'[g] = "dead"
  BY <1>1, PruneWrites
<1>4. x.op = "move" => /\ x.grp \in Groups /\ x.grp \in x.held /\ group[x.grp] # "none" /\ Joins(x)
  BY <1>2 DEF TxOK, Shape, HeldOK, JoinOK, Joins
<1>5. \A g \in Groups : group[g] # "none" => group'[g] # "none"
  BY <1>3
<1>6. TablesOK'
  <2>1. \A d \in Convs : conv[d].st # "none" => conv[d].grp \in Groups
    BY <1>2 DEF TypeOK, ConvRow
  <2> QED BY <1>2, <1>3, <1>4, <1>5, <2>1 DEF TablesOK
<1>7. /\ \A h \in Groups : x.op # "move" \/ h # x.grp => LiveIn(h)' \subseteq LiveIn(h)
      /\ x.op = "move" => LiveIn(x.grp)' \subseteq LiveIn(x.grp) \cup {x.row}
  BY <1>3 DEF LiveIn
<1>8. CapRespected'
  <2>1. CASE x.op = "move"
    BY <1>1, <1>4, <1>7, <2>1, RoomForOne
  <2>2. CASE x.op # "move"
    BY <1>7, <2>2, NoneJoins
  <2> QED BY <2>1, <2>2
<1>9. ASSUME NEW u \in Txs, u # t PROVE ConvFrame(u)
  <2>1. /\ \A d \in Convs : d \in tx[u].held => d \notin x.held
        /\ \A g \in Groups : g \in tx[u].held => g \notin x.held /\ g \notin x.empty
    BY <1>1, <1>2, <1>9 DEF IInv, Exclusive, Busy
  <2> QED BY <1>3, <1>4, <1>5, <1>7, <2>1 DEF ConvFrame
<1>10. ASSUME NEW a \in Assignments
       PROVE  /\ asg'[a] \in AsgRow /\ asg'[a].model = asg[a].model /\ asg'[a].again = asg[a].again
              /\ asg'[a].st = IF a \in x.held THEN "dead" ELSE asg[a].st
  <2>1. asg[a] \in AsgRow
    BY <1>2 DEF TypeOK
  <2>2. CASE a \in x.held
    <3>1. asg'[a] = [asg[a] EXCEPT !.st = "dead"]
      BY <1>1, <2>2 DEF PruneCommit
    <3> QED BY <2>1, <2>2, <3>1 DEF AsgRow, Liveness
  <2>3. CASE a \notin x.held
    <3>1. asg'[a] = asg[a]
      BY <1>1, <2>3 DEF PruneCommit
    <3> QED BY <2>1, <2>3, <3>1
  <2> QED BY <2>2, <2>3
<1>11. asg' \in [Assignments -> AsgRow] /\ \A a \in Assignments : asg'[a].st # "none" => asg'[a].model # None
  <2>1. asg' = [a \in Assignments |-> asg'[a]]
    BY DEF PruneCommit
  <2>2. \A a \in Assignments : a \in x.held => asg[a].st # "none"
    BY <1>2 DEF TxOK, HeldOK
  <2>3. asg' \in [Assignments -> AsgRow]
    BY <1>10, <2>1
  <2> QED BY <1>2, <1>10, <2>2, <2>3 DEF TypeOK
<1>12. /\ model' \in [Models -> {"live", "dead"}] /\ allowed' \in SUBSET Models /\ allowed' \subseteq allowed
       /\ \A m \in Models : m \notin x.held => model'[m] = model[m]
       /\ \A m \in allowed : SubsetRow(m) \notin x.held => m \in allowed'
  BY <1>1, <1>2 DEF PruneCommit, TypeOK
<1>13. \A m \in Models : m \in x.held \/ SubsetRow(m) \in x.held =>
          /\ x.op = "deleteModel" /\ x.row = m /\ Bound(m) \subseteq x.held
          /\ m \in allowed => SubsetRow(m) \in x.held
  <2>1. \A m \in Models : m \in x.held \/ SubsetRow(m) \in x.held => x.op = "deleteModel" /\ x.row = m
    BY <1>2 DEF TxOK, HeldOK
  <2> QED BY <1>2, <2>1 DEF TxOK, ModelOK
<1>14. AssignedWithinSubset'
  <2> SUFFICES ASSUME NEW a \in Assignments, asg'[a].st = "live", ~asg'[a].again
               PROVE  asg'[a].model \in allowed' /\ model'[asg'[a].model] = "live"
    BY DEF AssignedWithinSubset
  <2>1. a \notin x.held /\ asg[a].st = "live" /\ ~asg[a].again
    BY <1>10
  <2>2. PICK m \in Models : m = asg[a].model
    BY <1>2, <2>1 DEF TypeOK, AsgRow
  <2>3. m \in allowed /\ model[m] = "live" /\ a \in Bound(m)
    BY <2>1, <2>2 DEF IInv, AssignedWithinSubset, Bound, LiveAsgs
  <2>4. m \notin x.held /\ SubsetRow(m) \notin x.held
    BY <1>13, <2>1, <2>3
  <2> QED BY <1>10, <1>12, <2>2, <2>3, <2>4
<1>15. ASSUME NEW u \in Txs, u # t PROVE ModelFrame(u)
  <2>1. \A m \in Models : SubsetRow(m) \in tx[u].shared => SubsetRow(m) \notin x.held
    BY <1>1, <1>15 DEF IInv, Exclusive
  <2>2. \A m \in Models : m \in allowed /\ SubsetRow(m) \in tx[u].shared /\ model[m] = "live"
          => m \in allowed' /\ model'[m] = "live"
    BY <1>12, <1>13, <2>1
  <2>3. \A m \in Models : Bound(m)' \subseteq Bound(m)
    BY <1>10 DEF Bound, LiveAsgs
  <2>4. \A a \in Assignments : asg[a].st # "none" => asg'[a].st # "none"
    BY <1>10
  <2> QED BY <1>12, <2>2, <2>3, <2>4 DEF ModelFrame
<1>16. TypeOK'
  BY <1>2, <1>3, <1>11, <1>12, CommitTypes DEF TypeOK
<1> QED BY <1>2, <1>6, <1>8, <1>9, <1>14, <1>15, <1>16, CommitStep

LEMMA NextIInv ==
    ASSUME IInv, [Next]_vars
    PROVE  IInv'
<1>1. CASE UNCHANGED vars
  <2>1. Kept /\ tx' = tx /\ raced' = raced
    BY <1>1 DEF vars, Kept
  <2>2. TypeOK' /\ TablesOK' /\ Exclusive' /\ AssignedWithinSubset'
    BY <2>1 DEF IInv, Kept, TypeOK, TablesOK, Exclusive, AssignedWithinSubset
  <2>3. CapRespected'
    BY <2>1 DEF IInv, Kept, CapRespected, LiveIn
  <2>4. ASSUME NEW u \in Txs PROVE TxOK(tx[u])'
    <3>1. PICK x : x = tx[u]
      OBVIOUS
    <3>2. TxOK(x) /\ x = tx'[u]
      BY <2>1, <3>1 DEF IInv
    <3>3. TxOK(x)'
      BY <2>1, <3>2, KeptTx
    <3> QED BY <3>2, <3>3
  <2> QED BY <2>2, <2>3, <2>4 DEF IInv
<1>2. CASE Next
  <2>1. raced' \in BOOLEAN
    BY <1>2 DEF Next
  <2>2. PICK t \in Txs :
          \/ \/ \E a \in Assignments, g \in Groups : CreateRead(t, a, g)
             \/ \E c \in Convs, g \in Groups : MoveLock(t, c, g)
             \/ \E c \in Convs : RestoreLock(t, c) \/ DeleteLock(t, c)
             \/ \E a \in Assignments : CreateGroupRead(t, a) \/ RestoreAssignmentLock(t, a) \/ UnassignLock(t, a)
             \/ \E g \in Groups : DeleteGroupLock(t, g)
             \/ \E m \in Models : DeleteModelLock(t, m) \/ RestoreModelLock(t, m)
          \/ AcquireGroup(t) \/ assert_group_has_room(t)
          \/ (\E m \in Models : AssignRead(t, m)) \/ (\E T \in SUBSET Models : SyncRead(t, T))
          \/ DeleteModelAssignments(t) \/ DeleteModelSubset(t) \/ SyncLock(t)
          \/ CascadeRead(t) \/ CascadeConversations(t) \/ PruneRead(t)
          \/ \E c \in Convs : CreateCommit(t, c)
          \/ \E g \in Groups, C \in SUBSET Convs : CreateGroupCommit(t, g, C)
          \/ \E a \in Assignments : AssignCommit(t, a)
          \/ RestoreCommit(t) \/ DeleteGroupCommit(t) \/ RestoreAssignmentCommit(t) \/ RestoreModelCommit(t)
          \/ SyncCommit(t) \/ PruneCommit(t) \/ Abort(t)
    BY <1>2 DEF Next, Step
  <2> QED BY <2>1, <2>2, BeginSafe, AcquireSafe, ReadSafe, LockSafe, CascadeSafe, CreateCommitSafe,
             CreateGroupCommitSafe, AssignCommitSafe, RestoreCommitSafe, DeleteGroupCommitSafe,
             RestoreAssignmentCommitSafe, RestoreModelCommitSafe, SyncCommitSafe, PruneCommitSafe, AbortSafe
<1> QED BY <1>1, <1>2

-----------------------------------------------------------------------------
(* Theorems                                                                 *)

\* However many requests are in progress, every row lock keeps its meaning from the
\* statement that takes it to the commit (with_for_update in repositories/conversations.py
\* and repositories/groups.py, the transactional wrapper of the endpoints).
THEOREM Invariance == Spec => []IInv
<1>1. IInv /\ [Next]_vars => IInv'
  BY NextIInv
<1> QED BY InitIInv, <1>1, PTL DEF Spec

\* The tables keep their types and their NOT NULL foreign keys, whatever the endpoints
\* interleave.
THEOREM TypeCorrect == Spec => []TypeOK
<1>1. IInv => TypeOK
  BY DEF IInv
<1> QED BY <1>1, Invariance, PTL

\* acquire_group_for_conversation and assert_group_has_room count under the group's row
\* lock, which is held until the commit: for every cap and every number of concurrent
\* creates, moves, restores and cascades, no group ever has more live members than the cap.
THEOREM CapHolds == Spec => []CapRespected
<1>1. IInv => CapRespected
  BY DEF IInv
<1> QED BY <1>1, Invariance, PTL

\* assert_model_assignable_to_group (FOR SHARE), sync_group_models (FOR UPDATE) and
\* unassign_group_models_for_model leave no window: an assignment that was not re-instated
\* always names a live model of the group's subset.
THEOREM AssignmentsStayAllowed == Spec => []AssignedWithinSubset
<1>1. IInv => AssignedWithinSubset
  BY DEF IInv
<1> QED BY <1>1, Invariance, PTL

-----------------------------------------------------------------------------
(* Who strands a conversation                                               *)

LEMMA QuietKeeps ==
    ASSUME UNCHANGED <<conv, group>>, NEW c
    PROVE  StrandedByPrune(c)
  BY DEF StrandedByPrune, Dangling

\* A commit under the group's row lock puts its conversation in a live group.
LEMMA JoinKeeps ==
    ASSUME IInv, NEW t \in Txs, NEW d \in Convs, CreateCommit(t, d), NEW c \in Convs
    PROVE  StrandedByPrune(c)
<1>1. PICK x \in Tx : x = tx[t]
  BY DEF IInv, TypeOK
<1>2. TypeOK /\ TxOK(x) /\ x.op = "create" /\ x.pc = "write" /\ group' = group
  BY <1>1 DEF IInv, CreateCommit
<1>3. group[x.grp] = "live"
  BY <1>2 DEF TxOK, JoinOK, Joins
<1>4. conv'[c] = IF c = d THEN [st |-> "live", asg |-> x.row, grp |-> x.grp] ELSE conv[c]
  BY <1>1, <1>2 DEF CreateCommit, TypeOK
<1>5. CASE c = d
  <2>1. conv'[c].grp = x.grp
    BY <1>4, <1>5
  <2> QED BY <1>2, <1>3, <2>1 DEF StrandedByPrune, Dangling
<1>6. CASE c # d
  BY <1>2, <1>4, <1>6 DEF StrandedByPrune, Dangling
<1> QED BY <1>5, <1>6

LEMMA ReviveKeeps ==
    ASSUME IInv, NEW t \in Txs, RestoreCommit(t), NEW c \in Convs
    PROVE  StrandedByPrune(c)
<1>1. PICK x \in Tx : x = tx[t]
  BY DEF IInv, TypeOK
<1>2. TypeOK /\ TxOK(x) /\ x.op = "restore" /\ x.row \in Convs /\ x.grp \in Groups /\ conv[x.row].grp = x.grp
  BY <1>1 DEF IInv, RestoreCommit, TxOK, Shape, HeldOK
<1>3. \A g : g # x.grp => group'[g] = group[g]
  BY <1>1, <1>2 DEF RestoreCommit, revive_pruned_group, TypeOK
<1>4. group'[x.grp] = "live"
  BY <1>1, <1>2 DEF RestoreCommit, revive_pruned_group, TypeOK
<1>5. conv' = [conv EXCEPT ![x.row] = [conv[x.row] EXCEPT !.st = "live"]] /\ conv[x.row] \in ConvRow
  BY <1>1, <1>2 DEF RestoreCommit, TypeOK
<1>6. CASE c = x.row
  <2>1. conv'[c] = [conv[c] EXCEPT !.st = "live"]
    BY <1>2, <1>5, <1>6 DEF TypeOK
  <2>2. conv'[c].grp = x.grp
    BY <1>2, <1>5, <1>6, <2>1 DEF ConvRow
  <2> QED BY <1>4, <2>2 DEF StrandedByPrune, Dangling
<1>7. CASE c # x.row
  <2>1. conv'[c] = conv[c]
    BY <1>2, <1>5, <1>7 DEF TypeOK
  <2> QED BY <1>3, <1>4, <2>1 DEF StrandedByPrune, Dangling
<1> QED BY <1>6, <1>7

LEMMA CreateGroupKeeps ==
    ASSUME IInv, NEW t \in Txs, NEW g \in Groups, NEW C \in SUBSET Convs, CreateGroupCommit(t, g, C),
           NEW c \in Convs
    PROVE  StrandedByPrune(c)
<1>1. TypeOK
  BY DEF IInv
<1>2. group'[g] = "live" /\ \A h : h # g => group'[h] = group[h]
  BY <1>1 DEF CreateGroupCommit, TypeOK
<1>3. conv'[c] = IF c \in C THEN [st |-> "live", asg |-> tx[t].row, grp |-> g] ELSE conv[c]
  BY DEF CreateGroupCommit
<1>4. CASE c \in C
  <2>1. conv'[c].grp = g
    BY <1>3, <1>4
  <2> QED BY <1>2, <2>1 DEF StrandedByPrune, Dangling
<1>5. CASE c \notin C
  BY <1>2, <1>3, <1>5 DEF StrandedByPrune, Dangling
<1> QED BY <1>4, <1>5

\* The bulk UPDATE of a group delete runs under the group's lock: it misses no member.
LEMMA DeleteGroupKeeps ==
    ASSUME IInv, NEW t \in Txs, DeleteGroupCommit(t), NEW c \in Convs
    PROVE  StrandedByPrune(c)
<1>1. PICK g : g = tx[t].grp
  OBVIOUS
<1>2. TypeOK /\ conv[c] \in ConvRow
  BY DEF IInv, TypeOK
<1>3. \A h : h # g => group'[h] = group[h]
  BY <1>1, <1>2 DEF DeleteGroupCommit, TypeOK
<1>4. conv'[c] = IF c \in LiveIn(g) THEN [conv[c] EXCEPT !.st = "dead"] ELSE conv[c]
  BY <1>1 DEF DeleteGroupCommit, Tombstone
<1>5. CASE c \in LiveIn(g)
  <2>1. conv'[c].st = "dead"
    BY <1>2, <1>4, <1>5 DEF ConvRow
  <2> QED BY <2>1 DEF StrandedByPrune, Dangling
<1>6. CASE c \notin LiveIn(g)
  <2>1. conv'[c] = conv[c]
    BY <1>4, <1>6
  <2>2. conv[c].st = "live" => conv[c].grp # g
    BY <1>6 DEF LiveIn
  <2> QED BY <1>3, <2>1, <2>2 DEF StrandedByPrune, Dangling
<1> QED BY <1>5, <1>6

LEMMA PruneKeeps ==
    ASSUME IInv, NEW t \in Txs, PruneCommit(t), NEW c \in Convs
    PROVE  StrandedByPrune(c)
<1>1. PICK x \in Tx : x = tx[t]
  BY DEF IInv, TypeOK
<1>2. TypeOK /\ TxOK(x) /\ x.pc = "commit"
  BY <1>1 DEF IInv, PruneCommit
<1>3. /\ conv'[c] \in ConvRow
      /\ conv'[c].st = "live" => conv'[c].grp # None /\ conv[c].st = "live"
      /\ \A g \in Groups : group'[g] = group[g] \/ g \in x.empty
      /\ conv'[c].grp = conv[c].grp \/ (x.op = "move" /\ conv'[c].grp = x.grp)
  BY <1>1, PruneWrites
<1>4. x.op = "move" => group[x.grp] = "live" /\ x.grp \in Groups
  BY <1>2 DEF TxOK, JoinOK, Joins, Shape
<1>5. SUFFICES ASSUME Dangling(c)', ~Dangling(c) PROVE conv'[c].grp \in x.empty
  BY <1>1, <1>2 DEF StrandedByPrune
<1>6. PICK g \in Groups : g = conv'[c].grp
  BY <1>3, <1>5 DEF Dangling, ConvRow
<1> QED BY <1>3, <1>4, <1>5, <1>6 DEF Dangling

LEMMA StepKeeps ==
    ASSUME IInv, [Next]_vars, NEW c \in Convs
    PROVE  StrandedByPrune(c)
<1>1. CASE UNCHANGED vars
  BY <1>1, QuietKeeps DEF vars
<1>2. ASSUME NEW t \in Txs,
             \/ \E a \in Assignments, g \in Groups : CreateRead(t, a, g)
             \/ \E d \in Convs, g \in Groups : MoveLock(t, d, g)
             \/ \E d \in Convs : RestoreLock(t, d) \/ DeleteLock(t, d)
             \/ \E a \in Assignments : CreateGroupRead(t, a) \/ RestoreAssignmentLock(t, a) \/ UnassignLock(t, a)
             \/ \E g \in Groups : DeleteGroupLock(t, g)
             \/ \E m \in Models : DeleteModelLock(t, m) \/ RestoreModelLock(t, m)
      PROVE  StrandedByPrune(c)
  <2>1. UNCHANGED <<conv, group>>
    BY <1>2 DEF CreateRead, MoveLock, RestoreLock, DeleteLock, CreateGroupRead, RestoreAssignmentLock, UnassignLock,
                DeleteGroupLock, DeleteModelLock, RestoreModelLock, Begin
  <2> QED BY <2>1, QuietKeeps
<1>3. ASSUME NEW t \in Txs,
             \/ AcquireGroup(t) \/ assert_group_has_room(t)
             \/ (\E m \in Models : AssignRead(t, m)) \/ (\E T \in SUBSET Models : SyncRead(t, T))
             \/ DeleteModelAssignments(t) \/ DeleteModelSubset(t) \/ SyncLock(t)
             \/ CascadeRead(t) \/ CascadeConversations(t) \/ PruneRead(t) \/ Abort(t)
      PROVE  StrandedByPrune(c)
  <2>1. UNCHANGED <<conv, group>>
    BY <1>3 DEF AcquireGroup, assert_group_has_room, AssignRead, SyncRead, DeleteModelAssignments, DeleteModelSubset,
                SyncLock, CascadeRead, CascadeConversations, PruneRead, Abort
  <2> QED BY <2>1, QuietKeeps
<1>4. ASSUME NEW t \in Txs,
             \/ \E a \in Assignments : AssignCommit(t, a)
             \/ RestoreAssignmentCommit(t) \/ RestoreModelCommit(t) \/ SyncCommit(t)
      PROVE  StrandedByPrune(c)
  <2>1. UNCHANGED <<conv, group>>
    BY <1>4 DEF AssignCommit, RestoreAssignmentCommit, RestoreModelCommit, SyncCommit
  <2> QED BY <2>1, QuietKeeps
<1>5. ASSUME NEW t \in Txs,
             \/ \E d \in Convs : CreateCommit(t, d)
             \/ \E g \in Groups, C \in SUBSET Convs : CreateGroupCommit(t, g, C)
             \/ RestoreCommit(t) \/ DeleteGroupCommit(t) \/ PruneCommit(t)
      PROVE  StrandedByPrune(c)
  BY <1>5, JoinKeeps, CreateGroupKeeps, ReviveKeeps, DeleteGroupKeeps, PruneKeeps
<1> QED BY <1>1, <1>2, <1>3, <1>4, <1>5, Zenon DEF Next, Step

\* The group row lock of acquire_group_for_conversation, revive_pruned_group and
\* delete_conversation_group: no create, move, restore or group delete leaves a live
\* conversation under a tombstoned group, whatever it races.  The only step that can is
\* soft_delete_empty_groups, on a group it chose from a stale snapshot.
THEOREM PruneAloneStrands == Spec => OnlyPrunesStrand
<1>1. IInv /\ [Next]_vars => [\A c \in Convs : StrandedByPrune(c)]_vars
  BY StepKeeps
<1> QED BY <1>1, Invariance, PTL DEF OnlyPrunesStrand, Spec

-----------------------------------------------------------------------------
(* Requests one at a time                                                   *)

\* The assignments a cascade covers and the conversations a request takes out of their
\* groups, from what is committed.
Covered(x) == IF x.op = "unassign" THEN {x.row} ELSE {a \in Assignments : asg[a].model = x.row}
Going(x) == IF x.op \in {"delete", "move"} THEN {x.row}
            ELSE {c \in ConvsOf(Covered(x)) : conv[c].st = "live"}

\* What a request read is still so.
ReadsStand(x) ==
    /\ x.op \in {"create", "createGroup"} => asg[x.row].st = "live"
    /\ x.op = "restore" => asg[conv[x.row].asg].st = "live"
    /\ x.op = "restoreAssignment" => model[asg[x.row].model] = "live"
    /\ x.op = "sync" => \A m \in x.target : model[m] = "live"
    /\ x.op \in {"move", "delete"} => conv[x.row].st = "live"
    /\ x.op = "delete" => x.grp = conv[x.row].grp
    /\ x.op = "move" => x.grp # conv[x.row].grp

\* The assignments a request is to remove: its own, or every live one of its model.
Removes(x) ==
    /\ x.op \in {"move", "delete"} => x.held \cap Assignments = {}
    /\ x.op = "unassign" => x.held \cap Assignments = {x.row}
    /\ x.op = "deleteModel" /\ x.pc # "unassign" => x.held \cap Assignments = LiveAsgs(x.row)
    /\ x.op = "deleteModel" /\ x.pc = "unassign" => x.held \cap Assignments = {}

\* The groups a request is to prune: those it empties.
Prunes(x) ==
    /\ x.pc = "cascade" \/ (x.pc = "prune" /\ x.op # "delete") =>
         \A c \in Going(x) : conv[c].grp \in x.empty
    /\ x.pc \in {"prune", "commit"} /\ x.op \notin {"delete", "move"} => x.doomed = Going(x)
    /\ x.pc = "commit" =>
         /\ \A g \in x.empty : LiveIn(g) \subseteq Going(x)
         /\ \A c \in Going(x) : LET g == conv[c].grp IN
                group[g] = "live" /\ LiveIn(g) \subseteq Going(x) => g \in x.empty

Undisturbed(x) == ReadsStand(x) /\ Removes(x) /\ Prunes(x)

\* Every row a cascade, a prune or a restore has to reach is reached.
LiveAssignmentLiveModel == \A a \in Assignments : asg[a].st = "live" => model[asg[a].model] = "live"
Whole == /\ NoDangling /\ NoEmptyGroup /\ LiveConvLiveAssignment
         /\ LiveSubsetLiveModel /\ LiveAssignmentLiveModel

Alone == \A t, u \in Txs : t # u => tx[t].pc = "idle" \/ tx[u].pc = "idle"

SerialInv == ~raced => Alone /\ Whole /\ \A t \in Txs : Undisturbed(tx[t])

-----------------------------------------------------------------------------
\* What is said of a request depends on the tables only.
LEMMA KeptUndisturbed ==
    ASSUME Kept, NEW x
    PROVE  Undisturbed(x)' <=> Undisturbed(x)
<1>1. Covered(x)' = Covered(x) /\ \A A : ConvsOf(A)' = ConvsOf(A)
  BY DEF Kept, Covered, ConvsOf
<1>2. Going(x)' = Going(x)
  <2>1. ConvsOf(Covered(x))' = ConvsOf(Covered(x))
    BY DEF Kept, Covered, ConvsOf
  <2> QED BY <2>1 DEF Kept, Going
<1>3. ReadsStand(x)' <=> ReadsStand(x)
  BY DEF Kept, ReadsStand
<1>4. LiveAsgs(x.row)' = LiveAsgs(x.row) /\ \A g : LiveIn(g)' = LiveIn(g)
  BY DEF Kept, LiveAsgs, LiveIn
<1>5. Removes(x)' <=> Removes(x)
  BY <1>4 DEF Removes
<1>6. Prunes(x)' <=> Prunes(x)
  BY <1>2, <1>4 DEF Prunes, Kept
<1> QED BY <1>3, <1>5, <1>6 DEF Undisturbed

LEMMA IdleUndisturbed == Undisturbed(IdleTx)
<1>1. IdleTx.op = None /\ IdleTx.pc = "idle"
  BY DEF IdleTx
<1>2. None \notin AllOps
  BY ConstAssumption
<1>3. ReadsStand(IdleTx) /\ Removes(IdleTx)
  BY <1>1, <1>2 DEF ReadsStand, Removes, AllOps
<1>4. Prunes(IdleTx)
  BY <1>1 DEF Prunes
<1> QED BY <1>3, <1>4 DEF Undisturbed

\* A request begins or goes on and writes no table.
LEMMA SerialGoes ==
    ASSUME TypeOK, Whole, \A u \in Txs : Undisturbed(tx[u]), Kept,
           NEW t \in Txs, NEW new, tx' = [tx EXCEPT ![t] = new], Undisturbed(new)
    PROVE  Whole' /\ \A u \in Txs : Undisturbed(tx[u])'
<1>1. Whole'
  BY DEF Whole, Kept, NoDangling, NoEmptyGroup, LiveIn, LiveConvLiveAssignment, LiveSubsetLiveModel, LiveAssignmentLiveModel
<1>2. ASSUME NEW u \in Txs PROVE Undisturbed(tx[u])'
  <2>1. PICK x : x = tx'[u] /\ Undisturbed(x)
    BY DEF TypeOK
  <2>2. Undisturbed(x)'
    BY <2>1, KeptUndisturbed
  <2> QED BY <2>1, <2>2
<1> QED BY <1>1, <1>2

\* The history flag: two requests in progress at once raise it.
LEMMA StillAlone ==
    ASSUME TypeOK, Alone, NEW t \in Txs, \A u \in Txs : u # t => tx'[u] = tx[u],
           ~(Cardinality({u \in Txs : tx'[u].pc # "idle"}) > 1)
    PROVE  Alone'
<1> DEFINE A == {u \in Txs : tx'[u].pc # "idle"}
<1> SUFFICES ASSUME NEW u \in A, NEW v \in A, u # v PROVE FALSE
  BY DEF Alone
<1>1. A = {u, v}
  <2>1. ASSUME NEW w \in A PROVE w = u \/ w = v
    BY DEF Alone
  <2> QED BY <2>1
<1>2. IsFiniteSet({u}) /\ Cardinality({u}) = 1
  BY FS_Singleton
<1>3. {u, v} = {u} \cup {v} /\ v \notin {u}
  OBVIOUS
<1>4. Cardinality({u} \cup {v}) = 2
  <2>1. Cardinality({u} \cup {v}) = Cardinality({u}) + 1
    BY <1>2, <1>3, FS_AddElement
  <2> QED BY <1>2, <2>1
<1>5. Cardinality(A) = 2
  <2> HIDE DEF A
  <2>1. A = {u} \cup {v}
    BY <1>1, <1>3
  <2> QED BY <1>4, <2>1, Zenon
<1>6. ~(Cardinality(A) > 1)
  OBVIOUS
<1> HIDE DEF A
<1> QED BY <1>5, <1>6

\* A request that is alone ends: nobody is left.
LEMMA LastOut ==
    ASSUME IInv, Alone, NEW t \in Txs, tx[t].pc # "idle", Commit(t)
    PROVE  \A u \in Txs : Undisturbed(tx[u])'
<1>1. ASSUME NEW u \in Txs PROVE tx'[u] = IdleTx
  <2>1. CASE u = t
    BY <2>1 DEF Commit, IInv, TypeOK
  <2>2. CASE u # t
    <3>1. tx[u].pc = "idle"
      BY <2>2 DEF Alone
    <3>2. tx[u] = IdleTx
      BY <3>1 DEF IInv, TxOK, Shape
    <3> QED BY <2>2, <3>2 DEF Commit, IInv, TypeOK
  <2> QED BY <2>1, <2>2
<1>2. Undisturbed(IdleTx)'
  <2>1. IdleTx.op = None /\ IdleTx.pc = "idle" /\ None \notin AllOps
    BY ConstAssumption DEF IdleTx
  <2>2. (ReadsStand(IdleTx) /\ Removes(IdleTx))'
    BY <2>1 DEF ReadsStand, Removes, AllOps
  <2>3. Prunes(IdleTx)'
    BY <2>1 DEF Prunes
  <2> QED BY <2>2, <2>3 DEF Undisturbed
<1> QED BY <1>1, <1>2

\* A step of request t that writes no table and leaves t with reads that stand.
Advances(t) == Kept /\ \E new : tx' = [tx EXCEPT ![t] = new] /\ Undisturbed(new)

\* A request begins: what it addresses is what it has just read.
LEMMA BeginAdvances ==
    ASSUME IInv, NEW t \in Txs, NEW op, NEW next \in PCs, NEW r \in Rows \cup {None},
           NEW g \in Groups \cup {None}, NEW H \in SUBSET Rows, Begin(t, op, next, r, g, H),
           next \notin {"cascade", "commit"}, next = "prune" => op = "delete",
           \A x : x.op = op /\ x.pc = next /\ x.row = r /\ x.grp = g /\ x.held = H
                  => ReadsStand(x) /\ Removes(x)
    PROVE  Advances(t)
<1>1. Kept /\ Begun(t, op, next, r, g, H)
  BY BeginStep
<1>2. PICK new \in Tx : /\ tx' = [tx EXCEPT ![t] = new]
                        /\ new.op = op /\ new.pc = next /\ new.row = r /\ new.grp = g /\ new.held = H
  BY <1>1 DEF Begun
<1>3. ReadsStand(new) /\ Removes(new)
  BY <1>2
<1>4. Prunes(new)
  BY <1>2 DEF Prunes
<1> QED BY <1>1, <1>2, <1>3, <1>4 DEF Advances, Undisturbed

LEMMA BeginsSerial ==
    ASSUME IInv, NEW t \in Txs,
           \/ \E a \in Assignments, g \in Groups : CreateRead(t, a, g)
           \/ \E c \in Convs, g \in Groups : MoveLock(t, c, g)
           \/ \E c \in Convs : RestoreLock(t, c) \/ DeleteLock(t, c)
           \/ \E a \in Assignments : CreateGroupRead(t, a) \/ RestoreAssignmentLock(t, a) \/ UnassignLock(t, a)
           \/ \E g \in Groups : DeleteGroupLock(t, g)
           \/ \E m \in Models : DeleteModelLock(t, m) \/ RestoreModelLock(t, m)
    PROVE  Advances(t)
<1>0. /\ \A c \in Convs : conv[c].st # "none" => conv[c].grp \in Groups
      /\ \A c \in Convs : c \in Rows \cup {None} /\ {c} \in SUBSET Rows
      /\ \A a \in Assignments : a \in Rows \cup {None} /\ {a} \in SUBSET Rows
      /\ \A m \in Models : m \in Rows \cup {None} /\ {m} \in SUBSET Rows
      /\ \A g \in Groups : g \in Groups \cup {None} /\ {g} \in SUBSET Rows
      /\ {} \in SUBSET Rows /\ None \in Groups \cup {None} /\ None \in Rows \cup {None}
      /\ {"acquire", "write", "prune", "affected", "unassign"} \subseteq PCs
  BY DEF IInv, TypeOK, ConvRow, Rows, PCs
<1>1. ASSUME NEW a \in Assignments, NEW g \in Groups, CreateRead(t, a, g) PROVE Advances(t)
  <2>1. Begin(t, "create", "acquire", a, g, {}) /\ asg[a].st = "live"
    BY <1>1 DEF CreateRead
  <2>2. \A x : x.op = "create" /\ x.row = a => ReadsStand(x) /\ Removes(x)
    BY <2>1 DEF ReadsStand, Removes
  <2> QED BY <1>0, <2>1, <2>2, BeginAdvances
<1>2. ASSUME NEW c \in Convs, NEW g \in Groups, MoveLock(t, c, g) PROVE Advances(t)
  <2>1. Begin(t, "move", "acquire", c, g, {c}) /\ conv[c].st = "live" /\ g # conv[c].grp
    BY <1>2 DEF MoveLock
  <2>2. \A x : x.op = "move" /\ x.row = c /\ x.grp = g /\ x.held = {c} => ReadsStand(x) /\ Removes(x)
    BY <2>1, RowKinds DEF ReadsStand, Removes
  <2> QED BY <1>0, <2>1, <2>2, BeginAdvances
<1>3. ASSUME NEW c \in Convs, RestoreLock(t, c) PROVE Advances(t)
  <2>1. Begin(t, "restore", "acquire", c, conv[c].grp, {c}) /\ conv[c].st = "dead" /\ asg[conv[c].asg].st = "live"
    BY <1>3 DEF RestoreLock
  <2>2. \A x : x.op = "restore" /\ x.row = c => ReadsStand(x) /\ Removes(x)
    BY <2>1 DEF ReadsStand, Removes
  <2>3. conv[c].grp \in Groups \cup {None}
    BY <1>0, <2>1
  <2> QED BY <1>0, <2>1, <2>2, <2>3, BeginAdvances
<1>4. ASSUME NEW c \in Convs, DeleteLock(t, c) PROVE Advances(t)
  <2>1. Begin(t, "delete", "prune", c, conv[c].grp, {c}) /\ conv[c].st = "live"
    BY <1>4 DEF DeleteLock
  <2>2. \A x : x.op = "delete" /\ x.row = c /\ x.grp = conv[c].grp /\ x.held = {c} => ReadsStand(x) /\ Removes(x)
    BY <2>1, RowKinds DEF ReadsStand, Removes
  <2>3. conv[c].grp \in Groups \cup {None}
    BY <1>0, <2>1
  <2> QED BY <1>0, <2>1, <2>2, <2>3, BeginAdvances
<1>5. ASSUME NEW a \in Assignments, CreateGroupRead(t, a) PROVE Advances(t)
  <2>1. Begin(t, "createGroup", "write", a, None, {}) /\ asg[a].st = "live"
    BY <1>5 DEF CreateGroupRead
  <2>2. \A x : x.op = "createGroup" /\ x.row = a => ReadsStand(x) /\ Removes(x)
    BY <2>1 DEF ReadsStand, Removes
  <2> QED BY <1>0, <2>1, <2>2, BeginAdvances
<1>6. ASSUME NEW a \in Assignments, RestoreAssignmentLock(t, a) PROVE Advances(t)
  <2>1. Begin(t, "restoreAssignment", "write", a, None, {a}) /\ model[asg[a].model] = "live"
    BY <1>6 DEF RestoreAssignmentLock
  <2>2. \A x : x.op = "restoreAssignment" /\ x.row = a => ReadsStand(x) /\ Removes(x)
    BY <2>1 DEF ReadsStand, Removes
  <2> QED BY <1>0, <2>1, <2>2, BeginAdvances
<1>7. ASSUME NEW a \in Assignments, UnassignLock(t, a) PROVE Advances(t)
  <2>1. Begin(t, "unassign", "affected", a, None, {a})
    BY <1>7 DEF UnassignLock
  <2>2. \A x : x.op = "unassign" /\ x.row = a /\ x.held = {a} => ReadsStand(x) /\ Removes(x)
    BY <2>1 DEF ReadsStand, Removes
  <2> QED BY <1>0, <2>1, <2>2, BeginAdvances
<1>8. ASSUME NEW g \in Groups, DeleteGroupLock(t, g) PROVE Advances(t)
  <2>1. Begin(t, "deleteGroup", "write", None, g, {g})
    BY <1>8 DEF DeleteGroupLock
  <2>2. \A x : x.op = "deleteGroup" => ReadsStand(x) /\ Removes(x)
    BY DEF ReadsStand, Removes
  <2> QED BY <1>0, <2>1, <2>2, BeginAdvances
<1>9. ASSUME NEW m \in Models, DeleteModelLock(t, m) PROVE Advances(t)
  <2>1. Begin(t, "deleteModel", "unassign", m, None, {m})
    BY <1>9 DEF DeleteModelLock
  <2>2. \A x : x.op = "deleteModel" /\ x.pc = "unassign" /\ x.held = {m} => ReadsStand(x) /\ Removes(x)
    BY RowKinds DEF ReadsStand, Removes
  <2> QED BY <1>0, <2>1, <2>2, BeginAdvances
<1>10. ASSUME NEW m \in Models, RestoreModelLock(t, m) PROVE Advances(t)
  <2>1. Begin(t, "restoreModel", "write", m, None, {m})
    BY <1>10 DEF RestoreModelLock
  <2>2. \A x : x.op = "restoreModel" => ReadsStand(x) /\ Removes(x)
    BY DEF ReadsStand, Removes
  <2> QED BY <1>0, <2>1, <2>2, BeginAdvances
<1> QED BY <1>1, <1>2, <1>3, <1>4, <1>5, <1>6, <1>7, <1>8, <1>9, <1>10

\* The reads of an assignment and of a group edit.
LEMMA ReadsSerial ==
    ASSUME IInv, NEW t \in Txs,
           (\E m \in Models : AssignRead(t, m)) \/ (\E T \in SUBSET Models : SyncRead(t, T))
    PROVE  Advances(t)
<1>1. ASSUME NEW m \in Models, AssignRead(t, m) PROVE Advances(t)
  <2>1. PICK new : new = [IdleTx EXCEPT !.op = "assign", !.pc = "write", !.row = m, !.shared = SubsetRows(allowed)]
    OBVIOUS
  <2>2. tx' = [tx EXCEPT ![t] = new] /\ Kept
    BY <1>1, <2>1, Zenon DEF AssignRead, Kept
  <2>3. new.op = "assign" /\ new.pc = "write"
    BY <2>1 DEF IdleTx
  <2>4. Undisturbed(new)
    BY <2>3 DEF Undisturbed, ReadsStand, Removes, Prunes
  <2> QED BY <2>2, <2>4 DEF Advances
<1>2. ASSUME NEW T \in SUBSET Models, SyncRead(t, T) PROVE Advances(t)
  <2>1. PICK new : new = [IdleTx EXCEPT !.op = "sync", !.pc = "lock", !.target = T, !.held = {EvaluationGroup}]
    OBVIOUS
  <2>2. tx' = [tx EXCEPT ![t] = new] /\ Kept /\ \A m \in T : model[m] = "live"
    BY <1>2, <2>1, Zenon DEF SyncRead, Kept
  <2>3. new.op = "sync" /\ new.pc = "lock" /\ new.target = T
    BY <2>1 DEF IdleTx
  <2>4. Undisturbed(new)
    BY <2>2, <2>3 DEF Undisturbed, ReadsStand, Removes, Prunes
  <2> QED BY <2>2, <2>4 DEF Advances
<1> QED BY <1>1, <1>2

\* The row locks taken on the way: a group to join, the rows of a model, the allowed models.
LEMMA LocksSerial ==
    ASSUME IInv, NEW t \in Txs, Undisturbed(tx[t]),
           \/ AcquireGroup(t) \/ assert_group_has_room(t)
           \/ DeleteModelAssignments(t) \/ DeleteModelSubset(t) \/ SyncLock(t)
    PROVE  Advances(t)
<1>1. PICK x \in Tx : x = tx[t]
  BY DEF IInv, TypeOK
<1>2. TypeOK /\ TxOK(x) /\ Undisturbed(x) /\ Kept
  BY <1>1 DEF IInv, AcquireGroup, assert_group_has_room, DeleteModelAssignments, DeleteModelSubset, SyncLock, Kept
<1>3. CASE AcquireGroup(t)
  <2>1. x.pc = "acquire" /\ x.op \in {"create", "move"} /\ x.grp \in Groups
    BY <1>1, <1>2, <1>3 DEF AcquireGroup, TxOK, Shape
  <2>2. PICK pc : pc = IF x.op = "move" THEN "prune" ELSE "write"
    OBVIOUS
  <2>3. PICK E : E = IF x.op = "move" THEN {conv[x.row].grp} ELSE {}
    OBVIOUS
  <2>4. PICK new : new = [x EXCEPT !.held = x.held \cup {x.grp}, !.pc = pc, !.empty = E]
    OBVIOUS
  <2>5. tx' = [tx EXCEPT ![t] = new]
    BY <1>1, <1>2, <1>3, <2>2, <2>3, <2>4 DEF AcquireGroup, TypeOK
  <2>6. new.op = x.op /\ new.row = x.row /\ new.grp = x.grp /\ new.pc = pc /\ new.empty = E /\ new.held = x.held \cup {x.grp}
    BY <2>4 DEF Tx
  <2>7. ReadsStand(new)
    BY <1>2, <2>1, <2>6 DEF Undisturbed, ReadsStand
  <2>8. Removes(new)
    BY <1>2, <2>1, <2>6, RowKinds DEF Undisturbed, Removes
  <2>9. Prunes(new)
    BY <2>1, <2>2, <2>3, <2>6 DEF Prunes, Going
  <2> QED BY <1>2, <2>5, <2>7, <2>8, <2>9 DEF Advances, Undisturbed
<1>4. CASE assert_group_has_room(t)
  <2>1. x.op = "restore"
    BY <1>1, <1>4 DEF assert_group_has_room
  <2>2. PICK new : new = [x EXCEPT !.held = x.held \cup {x.grp}, !.pc = "write"]
    OBVIOUS
  <2>3. tx' = [tx EXCEPT ![t] = new]
    BY <1>1, <1>2, <1>4, <2>2 DEF assert_group_has_room, TypeOK
  <2>4. new.op = x.op /\ new.row = x.row /\ new.grp = x.grp /\ new.pc = "write"
    BY <2>2 DEF Tx
  <2>5. Undisturbed(new)
    BY <1>2, <2>1, <2>4 DEF Undisturbed, ReadsStand, Removes, Prunes
  <2> QED BY <1>2, <2>3, <2>5 DEF Advances
<1>5. CASE DeleteModelAssignments(t)
  <2>1. x.pc = "unassign" /\ x.op = "deleteModel" /\ x.held \cap Assignments = {}
    BY <1>1, <1>2, <1>5 DEF DeleteModelAssignments, TxOK, Shape, Undisturbed, Removes
  <2>2. PICK new : new = [x EXCEPT !.pc = "subset", !.held = x.held \cup LiveAsgs(x.row)]
    OBVIOUS
  <2>3. tx' = [tx EXCEPT ![t] = new]
    BY <1>1, <1>2, <1>5, <2>2 DEF DeleteModelAssignments, TypeOK
  <2>4. new.op = x.op /\ new.row = x.row /\ new.pc = "subset" /\ new.held = x.held \cup LiveAsgs(x.row)
    BY <2>2 DEF Tx
  <2>5. new.held \cap Assignments = LiveAsgs(new.row)
    BY <2>1, <2>4 DEF LiveAsgs
  <2>6. Undisturbed(new)
    BY <2>1, <2>4, <2>5 DEF Undisturbed, ReadsStand, Removes, Prunes
  <2> QED BY <1>2, <2>3, <2>6 DEF Advances
<1>6. CASE DeleteModelSubset(t)
  <2>1. x.pc = "subset" /\ x.op = "deleteModel" /\ x.held \cap Assignments = LiveAsgs(x.row) /\ x.row \in Models
    BY <1>1, <1>2, <1>6 DEF DeleteModelSubset, TxOK, Shape, Undisturbed, Removes
  <2>2. PICK R : R = SubsetRows(allowed \cap {x.row})
    OBVIOUS
  <2>3. PICK new : new = [x EXCEPT !.pc = "affected", !.held = x.held \cup R]
    OBVIOUS
  <2>4. tx' = [tx EXCEPT ![t] = new]
    BY <1>1, <1>2, <1>6, <2>2, <2>3 DEF DeleteModelSubset, TypeOK
  <2>5. new.op = x.op /\ new.row = x.row /\ new.pc = "affected" /\ new.held = x.held \cup R
    BY <2>3 DEF Tx
  <2>6. R \cap Assignments = {}
    BY <2>1, <2>2, RowKinds DEF SubsetRows
  <2>7. new.held \cap Assignments = LiveAsgs(new.row)
    BY <2>1, <2>5, <2>6
  <2>8. Undisturbed(new)
    BY <2>1, <2>5, <2>7 DEF Undisturbed, ReadsStand, Removes, Prunes
  <2> QED BY <1>2, <2>4, <2>8 DEF Advances
<1>7. CASE SyncLock(t)
  <2>1. x.pc = "lock" /\ x.op = "sync"
    BY <1>1, <1>2, <1>7 DEF SyncLock, TxOK, Shape
  <2>2. PICK new : new = [x EXCEPT !.pc = "write", !.held = x.held \cup SubsetRows(allowed)]
    OBVIOUS
  <2>3. tx' = [tx EXCEPT ![t] = new]
    BY <1>1, <1>2, <1>7, <2>2 DEF SyncLock, TypeOK
  <2>4. new.op = x.op /\ new.pc = "write" /\ new.target = x.target
    BY <2>2 DEF Tx
  <2>5. Undisturbed(new)
    BY <1>2, <2>1, <2>4 DEF Undisturbed, ReadsStand, Removes, Prunes
  <2> QED BY <1>2, <2>3, <2>5 DEF Advances
<1> QED BY <1>3, <1>4, <1>5, <1>6, <1>7

\* The cascade reads the groups it touches before the conversations, and the prune the groups
\* it empties: alone, both find every one.
LEMMA CascadesSerial ==
    ASSUME IInv, NEW t \in Txs, Undisturbed(tx[t]),
           CascadeRead(t) \/ CascadeConversations(t) \/ PruneRead(t)
    PROVE  Advances(t)
<1>1. PICK x \in Tx : x = tx[t]
  BY DEF IInv, TypeOK
<1>2. TypeOK /\ TxOK(x) /\ Undisturbed(x) /\ Kept
  BY <1>1 DEF IInv, CascadeRead, CascadeConversations, PruneRead, Kept
<1>3. Scope(t) = Covered(x)
  BY <1>1 DEF Scope, Covered
<1>4. CASE CascadeRead(t)
  <2>1. x.pc = "affected" /\ x.op \in {"unassign", "deleteModel"}
    BY <1>1, <1>2, <1>4 DEF CascadeRead, TxOK, Shape
  <2>2. PICK E : E = {conv[c].grp : c \in ConvsOf(Covered(x))}
    OBVIOUS
  <2>3. PICK new : new = [x EXCEPT !.pc = "cascade", !.empty = E]
    OBVIOUS
  <2>4. tx' = [tx EXCEPT ![t] = new]
    BY <1>1, <1>2, <1>3, <1>4, <2>2, <2>3 DEF CascadeRead, TypeOK
  <2>5. new.op = x.op /\ new.row = x.row /\ new.pc = "cascade" /\ new.held = x.held /\ new.empty = E
    BY <2>3 DEF Tx
  <2>6. Going(new) \subseteq ConvsOf(Covered(x))
    BY <2>1, <2>5 DEF Going, Covered
  <2>7. ReadsStand(new) /\ Removes(new)
    BY <1>2, <2>1, <2>5 DEF Undisturbed, ReadsStand, Removes
  <2>8. Prunes(new)
    BY <2>2, <2>5, <2>6 DEF Prunes
  <2> QED BY <1>2, <2>4, <2>7, <2>8 DEF Advances, Undisturbed
<1>5. CASE CascadeConversations(t)
  <2>1. x.pc = "cascade" /\ x.op \in {"unassign", "deleteModel"} /\ \A c \in Going(x) : conv[c].grp \in x.empty
    BY <1>1, <1>2, <1>5 DEF CascadeConversations, TxOK, Shape, Undisturbed, Prunes
  <2>2. Going(x) = {c \in ConvsOf(Scope(t)) : conv[c].st = "live"} /\ Going(x) \subseteq Convs
    BY <1>3, <2>1 DEF Going, ConvsOf
  <2>3. PICK new : new = [x EXCEPT !.pc = "prune", !.doomed = Going(x), !.held = x.held \cup Going(x)]
    OBVIOUS
  <2>4. tx' = [tx EXCEPT ![t] = new]
    BY <1>1, <1>2, <1>5, <2>2, <2>3 DEF CascadeConversations, TypeOK
  <2>5. /\ new.op = x.op /\ new.row = x.row /\ new.pc = "prune" /\ new.held = x.held \cup Going(x) /\ new.empty = x.empty
        /\ new.doomed = Going(x)
    BY <2>3 DEF Tx
  <2>6. Going(new) = Going(x)
    BY <2>5 DEF Going, Covered
  <2>7. new.held \cap Assignments = x.held \cap Assignments
    BY <2>2, <2>5, RowKinds
  <2>8. ReadsStand(new) /\ Removes(new)
    BY <1>2, <2>1, <2>5, <2>7 DEF Undisturbed, ReadsStand, Removes
  <2>9. Prunes(new)
    BY <2>1, <2>5, <2>6 DEF Prunes
  <2> QED BY <1>2, <2>4, <2>8, <2>9 DEF Advances, Undisturbed
<1>6. CASE PruneRead(t)
  <2>1. x.pc = "prune" /\ x.op \in {"delete", "move", "unassign", "deleteModel"}
    BY <1>1, <1>2, <1>6 DEF PruneRead, TxOK, Shape
  <2>2. Leaving(t) = Going(x)
    BY <1>1, <1>2, <2>1 DEF Leaving, Going, Undisturbed, Prunes
  <2>3. \A c \in Going(x) : conv[c].grp \in Examined(t)
    <3>1. CASE x.op = "delete"
      BY <1>1, <1>2, <3>1 DEF Going, Examined, Undisturbed, ReadsStand
    <3>2. CASE x.op # "delete"
      BY <1>1, <1>2, <2>1, <3>2 DEF Examined, Undisturbed, Prunes
    <3> QED BY <3>1, <3>2
  <2>4. PICK E : E = {g \in Examined(t) : group[g] = "live" /\ LiveIn(g) \subseteq Leaving(t)}
    OBVIOUS
  <2>5. PICK new : new = [x EXCEPT !.pc = "commit", !.empty = E]
    OBVIOUS
  <2>6. tx' = [tx EXCEPT ![t] = new]
    BY <1>1, <1>2, <1>6, <2>4, <2>5 DEF PruneRead, TypeOK
  <2>7. /\ new.op = x.op /\ new.row = x.row /\ new.grp = x.grp /\ new.pc = "commit" /\ new.held = x.held
        /\ new.empty = E /\ new.doomed = x.doomed
    BY <2>5 DEF Tx
  <2>8. Going(new) = Going(x)
    BY <2>7 DEF Going, Covered
  <2>9. ReadsStand(new) /\ Removes(new)
    BY <1>2, <2>1, <2>7 DEF Undisturbed, ReadsStand, Removes
  <2>10. new.op \notin {"delete", "move"} => new.doomed = Going(new)
    BY <1>2, <2>1, <2>7, <2>8 DEF Undisturbed, Prunes
  <2>11. Prunes(new)
    BY <2>2, <2>3, <2>4, <2>7, <2>8, <2>10 DEF Prunes
  <2> QED BY <1>2, <2>6, <2>9, <2>11 DEF Advances, Undisturbed
<1> QED BY <1>4, <1>5, <1>6

-----------------------------------------------------------------------------
(* The commits of a request that is alone.                                  *)

\* Conversations join live groups on live assignments, and no member leaves.
LEMMA JoinsWhole ==
    ASSUME TypeOK, Whole, UNCHANGED <<model, allowed, asg>>,
           \A c \in Convs : \/ conv'[c] = conv[c]
                            \/ /\ conv[c].st # "live" /\ conv'[c].st = "live"
                               /\ group'[conv'[c].grp] = "live" /\ asg[conv'[c].asg].st = "live",
           \A g \in Groups : group[g] = "live" => group'[g] = "live",
           \A g \in Groups : \/ group'[g] = group[g]
                             \/ \E c \in Convs : conv'[c].st = "live" /\ conv'[c].grp = g
    PROVE  Whole'
<1>1. NoDangling'
  BY DEF Whole, NoDangling, TypeOK, ConvRow
<1>2. NoEmptyGroup'
  <2>1. \A g \in Groups : LiveIn(g) \subseteq LiveIn(g)'
    BY DEF LiveIn
  <2>2. ASSUME NEW g \in Groups, NEW c \in Convs, conv'[c].st = "live", conv'[c].grp = g PROVE c \in LiveIn(g)'
    BY <2>2 DEF LiveIn
  <2> QED BY <2>1, <2>2 DEF Whole, NoEmptyGroup
<1>3. LiveConvLiveAssignment'
  BY DEF Whole, LiveConvLiveAssignment
<1> QED BY <1>1, <1>2, <1>3 DEF Whole, LiveSubsetLiveModel, LiveAssignmentLiveModel

LEMMA CreatesWhole ==
    ASSUME IInv, Whole, NEW t \in Txs, Undisturbed(tx[t]),
           (\E c \in Convs : CreateCommit(t, c)) \/ RestoreCommit(t)
    PROVE  Whole'
<1>1. PICK x \in Tx : x = tx[t]
  BY DEF IInv, TypeOK
<1>2. TypeOK /\ TxOK(x) /\ Undisturbed(x)
  BY <1>1 DEF IInv
<1>3. ASSUME NEW c \in Convs, CreateCommit(t, c) PROVE Whole'
  <2>1. x.op = "create" /\ x.pc = "write" /\ x.grp \in Groups /\ group[x.grp] = "live" /\ asg[x.row].st = "live"
    BY <1>1, <1>2, <1>3 DEF CreateCommit, TxOK, Shape, JoinOK, Joins, Undisturbed, ReadsStand
  <2>2. /\ conv' = [conv EXCEPT ![c] = [st |-> "live", asg |-> x.row, grp |-> x.grp]] /\ conv[c].st = "none"
        /\ UNCHANGED <<model, allowed, asg, group>>
    BY <1>1, <1>3 DEF CreateCommit
  <2>3. \A d \in Convs : d # c => conv'[d] = conv[d]
    BY <1>2, <2>2 DEF TypeOK
  <2>4. conv'[c] = [st |-> "live", asg |-> x.row, grp |-> x.grp]
    BY <1>2, <2>2 DEF TypeOK
  <2>5. conv'[c].st = "live" /\ conv'[c].asg = x.row /\ conv'[c].grp = x.grp
    BY <2>4
  <2> QED BY <1>2, <2>1, <2>2, <2>3, <2>5, JoinsWhole
<1>4. CASE RestoreCommit(t)
  <2>1. /\ x.op = "restore" /\ x.pc = "write" /\ x.row \in Convs /\ x.grp \in Groups /\ conv[x.row].grp = x.grp
        /\ asg[conv[x.row].asg].st = "live" /\ conv[x.row] \in ConvRow
    BY <1>1, <1>2, <1>4 DEF RestoreCommit, TxOK, Shape, HeldOK, Undisturbed, ReadsStand, TypeOK
  <2>2. PICK new : new = [conv[x.row] EXCEPT !.st = "live"]
    OBVIOUS
  <2>3. new.st = "live" /\ new.asg = conv[x.row].asg /\ new.grp = x.grp
    BY <2>1, <2>2 DEF ConvRow
  <2>4. \A d \in Convs : conv'[d] = IF d = x.row THEN new ELSE conv[d]
    BY <1>1, <1>2, <1>4, <2>1, <2>2 DEF RestoreCommit, TypeOK
  <2>5. \A g \in Groups : group'[g] = IF g = x.grp THEN "live" ELSE group[g]
    BY <1>1, <1>2, <1>4, <2>1 DEF RestoreCommit, revive_pruned_group, TypeOK
  <2>6. UNCHANGED <<model, allowed, asg>>
    BY <1>4 DEF RestoreCommit
  <2>7. conv[x.row].st = "live" => conv[x.row] = new
    BY <2>1, <2>2 DEF ConvRow
  <2>8. \A c \in Convs : \/ conv'[c] = conv[c]
                         \/ /\ conv[c].st # "live" /\ conv'[c].st = "live"
                            /\ group'[conv'[c].grp] = "live" /\ asg[conv'[c].asg].st = "live"
    BY <2>1, <2>3, <2>4, <2>5, <2>7
  <2>9. conv'[x.row].st = "live" /\ conv'[x.row].grp = x.grp
    BY <2>1, <2>3, <2>4
  <2> QED BY <1>2, <2>1, <2>5, <2>6, <2>8, <2>9, JoinsWhole
<1> QED BY <1>3, <1>4

LEMMA CreateGroupWhole ==
    ASSUME IInv, Whole, NEW t \in Txs, Undisturbed(tx[t]),
           NEW g \in Groups, NEW C \in SUBSET Convs, CreateGroupCommit(t, g, C)
    PROVE  Whole'
<1>1. TypeOK
  BY DEF IInv
<1>2. tx[t].op = "createGroup" /\ asg[tx[t].row].st = "live" /\ C # {} /\ \A c \in C : conv[c].st = "none"
  BY DEF CreateGroupCommit, Undisturbed, ReadsStand
<1>3. \A h \in Groups : group'[h] = IF h = g THEN "live" ELSE group[h]
  BY <1>1 DEF CreateGroupCommit, TypeOK
<1>4. \A c \in Convs : conv'[c] = IF c \in C THEN [st |-> "live", asg |-> tx[t].row, grp |-> g] ELSE conv[c]
  BY DEF CreateGroupCommit
<1>5. \A c \in C : conv'[c].st = "live" /\ conv'[c].asg = tx[t].row /\ conv'[c].grp = g
  BY <1>4
<1>6. UNCHANGED <<model, allowed, asg>>
  BY DEF CreateGroupCommit
<1> QED BY <1>1, <1>2, <1>3, <1>4, <1>5, <1>6, JoinsWhole

\* Conversations leave, and exactly the groups they leave empty are tombstoned.
LEMMA LeavesWhole ==
    ASSUME TypeOK, Whole, NEW C \in SUBSET Convs, NEW E \in SUBSET Groups,
           \A c \in Convs : IF c \in C THEN conv'[c].st = "dead" ELSE conv'[c] = conv[c],
           \A g \in Groups : IF g \in E /\ group[g] = "live" THEN group'[g] = "dead" ELSE group'[g] = group[g],
           \A g \in E : LiveIn(g) \subseteq C,
           \A g \in Groups : group[g] = "live" /\ LiveIn(g) \subseteq C => g \in E
    PROVE  NoDangling' /\ NoEmptyGroup'
<1>1. NoDangling'
  <2> SUFFICES ASSUME NEW c \in Convs, conv'[c].st = "live" PROVE group'[conv'[c].grp] = "live"
    BY DEF NoDangling
  <2>1. c \notin C /\ conv'[c] = conv[c] /\ conv[c].st = "live"
    OBVIOUS
  <2>2. PICK g \in Groups : g = conv[c].grp
    BY <2>1 DEF TypeOK, ConvRow
  <2>3. c \in LiveIn(g) /\ group[g] = "live"
    BY <2>1, <2>2 DEF LiveIn, Whole, NoDangling
  <2> QED BY <2>1, <2>2, <2>3
<1>2. NoEmptyGroup'
  <2> SUFFICES ASSUME NEW g \in Groups, group'[g] = "live" PROVE LiveIn(g)' # {}
    BY DEF NoEmptyGroup
  <2>1. group[g] = "live" /\ g \notin E
    OBVIOUS
  <2>2. PICK c \in LiveIn(g) : c \notin C
    BY <2>1
  <2>3. c \in LiveIn(g)'
    BY <2>2 DEF LiveIn
  <2> QED BY <2>3
<1> QED BY <1>1, <1>2

LEMMA DeleteGroupWhole ==
    ASSUME IInv, Whole, NEW t \in Txs, DeleteGroupCommit(t)
    PROVE  Whole'
<1>1. PICK g \in Groups : g = tx[t].grp
  BY DEF DeleteGroupCommit, IInv, TxOK, Shape
<1>2. TypeOK /\ UNCHANGED <<model, allowed, asg>>
  BY DEF IInv, DeleteGroupCommit
<1>3. \A c \in Convs : conv'[c] = IF c \in LiveIn(g) THEN [conv[c] EXCEPT !.st = "dead"] ELSE conv[c]
  BY <1>1 DEF DeleteGroupCommit, Tombstone
<1>4. \A c \in Convs : IF c \in LiveIn(g) THEN conv'[c].st = "dead" ELSE conv'[c] = conv[c]
  BY <1>2, <1>3 DEF TypeOK, ConvRow
<1>5. \A h \in Groups : group'[h] = IF h = g THEN "dead" ELSE group[h]
  BY <1>1, <1>2 DEF DeleteGroupCommit, TypeOK
<1>6. NoDangling'
  <2> SUFFICES ASSUME NEW c \in Convs, conv'[c].st = "live" PROVE group'[conv'[c].grp] = "live"
    BY DEF NoDangling
  <2>1. c \notin LiveIn(g) /\ conv'[c] = conv[c] /\ conv[c].st = "live"
    BY <1>4
  <2>2. conv[c].grp \in Groups /\ conv[c].grp # g /\ group[conv[c].grp] = "live"
    BY <1>2, <2>1 DEF LiveIn, TypeOK, ConvRow, Whole, NoDangling
  <2> QED BY <1>5, <2>1, <2>2
<1>7. NoEmptyGroup'
  <2> SUFFICES ASSUME NEW h \in Groups, group'[h] = "live" PROVE LiveIn(h)' # {}
    BY DEF NoEmptyGroup
  <2>1. h # g /\ group[h] = "live"
    BY <1>5
  <2>2. PICK c : c \in LiveIn(h)
    BY <2>1 DEF Whole, NoEmptyGroup
  <2>3. c \in LiveIn(h)'
    BY <1>4, <2>1, <2>2 DEF LiveIn
  <2> QED BY <2>3
<1>8. LiveConvLiveAssignment'
  BY <1>2, <1>4 DEF Whole, LiveConvLiveAssignment
<1> QED BY <1>2, <1>6, <1>7, <1>8 DEF Whole, LiveSubsetLiveModel, LiveAssignmentLiveModel

\* An assignment made or re-instated names a live model; a group edit allows live models.
LEMMA ModelsWhole ==
    ASSUME IInv, Whole, NEW t \in Txs, Undisturbed(tx[t]),
           \/ \E a \in Assignments : AssignCommit(t, a)
           \/ RestoreAssignmentCommit(t) \/ RestoreModelCommit(t) \/ SyncCommit(t)
    PROVE  Whole'
<1>1. PICK x \in Tx : x = tx[t]
  BY DEF IInv, TypeOK
<1>2. TypeOK /\ TxOK(x) /\ Undisturbed(x) /\ UNCHANGED <<conv, group>>
  BY <1>1 DEF IInv, AssignCommit, RestoreAssignmentCommit, RestoreModelCommit, SyncCommit
<1>3. NoDangling' /\ NoEmptyGroup'
  BY <1>2 DEF Whole, NoDangling, NoEmptyGroup, LiveIn
<1>4. ASSUME NEW a \in Assignments, AssignCommit(t, a) PROVE Whole'
  <2>1. model[x.row] = "live" /\ UNCHANGED <<model, allowed>> /\ asg[a].st = "none"
    BY <1>1, <1>2, <1>4 DEF AssignCommit, TxOK, ModelOK
  <2>2. \A b \in Assignments : asg'[b] = IF b = a THEN [st |-> "live", model |-> x.row, again |-> FALSE] ELSE asg[b]
    BY <1>1, <1>2, <1>4 DEF AssignCommit, TypeOK
  <2>3. asg'[a].st = "live" /\ asg'[a].model = x.row
    BY <2>2
  <2>4. \A b \in Assignments : b # a => asg'[b] = asg[b]
    BY <2>2
  <2>5. LiveConvLiveAssignment'
    BY <1>2, <2>3, <2>4 DEF Whole, LiveConvLiveAssignment, TypeOK, ConvRow
  <2>6. LiveAssignmentLiveModel'
    BY <2>1, <2>3, <2>4 DEF Whole, LiveAssignmentLiveModel
  <2> QED BY <1>3, <2>1, <2>5, <2>6 DEF Whole, LiveSubsetLiveModel
<1>5. CASE RestoreAssignmentCommit(t)
  <2>1. x.op = "restoreAssignment" /\ x.row \in Assignments /\ model[asg[x.row].model] = "live" /\ asg[x.row] \in AsgRow
    BY <1>1, <1>2, <1>5 DEF RestoreAssignmentCommit, TxOK, Shape, Undisturbed, ReadsStand, TypeOK
  <2>2. PICK new : new = [asg[x.row] EXCEPT !.st = "live", !.again = TRUE]
    OBVIOUS
  <2>3. new.st = "live" /\ new.model = asg[x.row].model
    BY <2>1, <2>2 DEF AsgRow
  <2>4. \A b \in Assignments : asg'[b] = IF b = x.row THEN new ELSE asg[b]
    BY <1>1, <1>2, <1>5, <2>1, <2>2 DEF RestoreAssignmentCommit, TypeOK
  <2>5. UNCHANGED <<model, allowed>>
    BY <1>5 DEF RestoreAssignmentCommit
  <2>6. LiveConvLiveAssignment'
    BY <1>2, <2>3, <2>4 DEF Whole, LiveConvLiveAssignment, TypeOK, ConvRow
  <2>7. LiveAssignmentLiveModel'
    BY <2>1, <2>3, <2>4, <2>5 DEF Whole, LiveAssignmentLiveModel
  <2> QED BY <1>3, <2>5, <2>6, <2>7 DEF Whole, LiveSubsetLiveModel
<1>6. CASE RestoreModelCommit(t)
  <2>1. UNCHANGED <<allowed, asg>> /\ x.row \in Models
    BY <1>1, <1>2, <1>6 DEF RestoreModelCommit, TxOK, Shape
  <2>2. \A m \in Models : model[m] = "live" => model'[m] = "live"
    BY <1>1, <1>2, <1>6 DEF RestoreModelCommit, TypeOK
  <2>3. LiveSubsetLiveModel'
    BY <1>2, <2>1, <2>2 DEF Whole, LiveSubsetLiveModel, TypeOK
  <2>4. LiveAssignmentLiveModel'
    BY <1>2, <2>1, <2>2 DEF Whole, LiveAssignmentLiveModel, TypeOK, AsgRow
  <2> QED BY <1>2, <1>3, <2>1, <2>3, <2>4 DEF Whole, LiveConvLiveAssignment
<1>7. CASE SyncCommit(t)
  <2>1. UNCHANGED <<model, asg>> /\ allowed' = x.target /\ \A m \in x.target : model[m] = "live"
    BY <1>1, <1>2, <1>7 DEF SyncCommit, Undisturbed, ReadsStand
  <2> QED BY <1>2, <1>3, <2>1 DEF Whole, LiveSubsetLiveModel, LiveConvLiveAssignment, LiveAssignmentLiveModel
<1> QED BY <1>4, <1>5, <1>6, <1>7

\* What a prune commit does to models, assignments and the allowed models: a model and its
\* assignments go together.
LEMMA PruneModels ==
    ASSUME IInv, Whole, NEW t \in Txs, Undisturbed(tx[t]), PruneCommit(t)
    PROVE  /\ LiveSubsetLiveModel' /\ LiveAssignmentLiveModel'
           /\ \A a \in Assignments : asg[a].st = "live" /\ a \notin tx[t].held => asg'[a].st = "live"
<1>1. PICK x \in Tx : x = tx[t]
  BY DEF IInv, TypeOK
<1>2. /\ TypeOK /\ TxOK(x) /\ Undisturbed(x) /\ x.pc = "commit"
      /\ x.op \in {"delete", "move", "unassign", "deleteModel"}
  BY <1>1 DEF IInv, PruneCommit, TxOK, Shape
<1>3. \A m \in Models : model'[m] = IF m \in x.held THEN "dead" ELSE model[m]
  BY <1>1 DEF PruneCommit
<1>4. \A a \in Assignments : asg'[a] = IF a \in x.held THEN [asg[a] EXCEPT !.st = "dead"] ELSE asg[a]
  BY <1>1 DEF PruneCommit
<1>5. \A a \in Assignments : IF a \in x.held THEN asg'[a].st = "dead" ELSE asg'[a] = asg[a]
  BY <1>2, <1>4 DEF TypeOK, AsgRow
<1>6. allowed' = {m \in allowed : SubsetRow(m) \notin x.held}
  BY <1>1 DEF PruneCommit
<1>7. \A m \in Models : m \in x.held => x.op = "deleteModel" /\ x.row = m
  BY <1>2 DEF TxOK, HeldOK
<1>8. LiveSubsetLiveModel'
  <2> SUFFICES ASSUME NEW m \in allowed' PROVE model'[m] = "live"
    BY DEF LiveSubsetLiveModel
  <2>1. m \in allowed /\ m \in Models /\ model[m] = "live" /\ SubsetRow(m) \notin x.held
    BY <1>2, <1>6 DEF Whole, LiveSubsetLiveModel, TypeOK
  <2>2. m \notin x.held
    BY <1>2, <1>7, <2>1 DEF TxOK, ModelOK
  <2> QED BY <1>3, <2>1, <2>2
<1>9. LiveAssignmentLiveModel'
  <2> SUFFICES ASSUME NEW a \in Assignments, asg'[a].st = "live" PROVE model'[asg'[a].model] = "live"
    BY DEF LiveAssignmentLiveModel
  <2>1. a \notin x.held /\ asg'[a] = asg[a] /\ asg[a].st = "live"
    BY <1>5
  <2>2. PICK m \in Models : m = asg[a].model /\ model[m] = "live"
    BY <1>2, <2>1 DEF TypeOK, AsgRow, Whole, LiveAssignmentLiveModel
  <2>3. a \in LiveAsgs(m)
    BY <2>1, <2>2 DEF LiveAsgs
  <2>4. m \notin x.held
    BY <1>2, <1>7, <2>1, <2>3 DEF Undisturbed, Removes
  <2> QED BY <1>3, <2>1, <2>2, <2>4
<1> QED BY <1>1, <1>5, <1>8, <1>9

\* A prune commit alone: the groups it empties are the groups it tombstones.
LEMMA PruneWhole ==
    ASSUME IInv, Whole, NEW t \in Txs, Undisturbed(tx[t]), PruneCommit(t)
    PROVE  Whole'
<1>1. PICK x \in Tx : x = tx[t]
  BY DEF IInv, TypeOK
<1>2. /\ TypeOK /\ TxOK(x) /\ Undisturbed(x) /\ x.pc = "commit"
      /\ x.op \in {"delete", "move", "unassign", "deleteModel"}
  BY <1>1 DEF IInv, PruneCommit, TxOK, Shape
<1>3. /\ LiveSubsetLiveModel' /\ LiveAssignmentLiveModel'
      /\ \A a \in Assignments : asg[a].st = "live" /\ a \notin x.held => asg'[a].st = "live"
  BY <1>1, PruneModels
<1>4. \A g \in Groups : IF g \in x.empty /\ group[g] = "live" THEN group'[g] = "dead" ELSE group'[g] = group[g]
  BY <1>1 DEF PruneCommit
<1>5. /\ \A g \in x.empty : LiveIn(g) \subseteq Going(x)
      /\ \A c \in Going(x) : group[conv[c].grp] = "live" /\ LiveIn(conv[c].grp) \subseteq Going(x) => conv[c].grp \in x.empty
  BY <1>2 DEF Undisturbed, Prunes
<1>6. \A g \in Groups : group[g] = "live" /\ LiveIn(g) \subseteq Going(x) => g \in x.empty
  <2> SUFFICES ASSUME NEW g \in Groups, group[g] = "live", LiveIn(g) \subseteq Going(x) PROVE g \in x.empty
    OBVIOUS
  <2>1. PICK c \in LiveIn(g) : TRUE
    BY DEF Whole, NoEmptyGroup
  <2>2. c \in Going(x) /\ conv[c].grp = g
    BY <2>1 DEF LiveIn
  <2> QED BY <1>5, <2>2
<1>7. x.empty \in SUBSET Groups
  BY DEF Tx
<1>8. CASE x.op # "move"
  <2>1. Leaving(t) = Going(x) /\ Going(x) \in SUBSET Convs
    BY <1>1, <1>2, <1>8 DEF Leaving, Going, ConvsOf, Undisturbed, Prunes, TxOK, Shape
  <2>2. \A c \in Convs : conv'[c] = IF c \in Going(x) THEN [conv[c] EXCEPT !.st = "dead"] ELSE conv[c]
    BY <1>1, <1>8, <2>1 DEF PruneCommit, Tombstone
  <2>3. \A c \in Convs : IF c \in Going(x) THEN conv'[c].st = "dead" ELSE conv'[c] = conv[c]
    BY <1>2, <2>2 DEF TypeOK, ConvRow
  <2>4. NoDangling' /\ NoEmptyGroup'
    <3>1. PICK C \in SUBSET Convs : C = Going(x)
      BY <2>1
    <3>2. PICK E \in SUBSET Groups : E = x.empty
      BY <1>7
    <3>3. \A c \in Convs : IF c \in C THEN conv'[c].st = "dead" ELSE conv'[c] = conv[c]
      BY <2>3, <3>1
    <3>4. \A g \in Groups : IF g \in E /\ group[g] = "live" THEN group'[g] = "dead" ELSE group'[g] = group[g]
      BY <1>4, <3>2
    <3>5. /\ \A g \in E : LiveIn(g) \subseteq C
          /\ \A g \in Groups : group[g] = "live" /\ LiveIn(g) \subseteq C => g \in E
      BY <1>5, <1>6, <3>1, <3>2
    <3> QED BY <1>2, <3>3, <3>4, <3>5, LeavesWhole
  <2>5. LiveConvLiveAssignment'
    <3> SUFFICES ASSUME NEW c \in Convs, conv'[c].st = "live" PROVE asg'[conv'[c].asg].st = "live"
      BY DEF LiveConvLiveAssignment
    <3>1. c \notin Going(x) /\ conv'[c] = conv[c] /\ conv[c].st = "live"
      BY <2>3
    <3>2. PICK a \in Assignments : a = conv[c].asg /\ asg[a].st = "live"
      BY <1>2, <3>1 DEF TypeOK, ConvRow, Whole, LiveConvLiveAssignment
    <3>3. a \notin x.held
      <4>1. CASE x.op = "delete"
        BY <1>2, <4>1 DEF Undisturbed, Removes
      <4>2. CASE x.op \in {"unassign", "deleteModel"}
        <5>1. a \notin Covered(x)
          BY <3>1, <3>2, <4>2 DEF Going, ConvsOf
        <5>2. x.held \cap Assignments \subseteq Covered(x)
          BY <1>2, <4>2 DEF Undisturbed, Removes, Covered, LiveAsgs
        <5> QED BY <5>1, <5>2
      <4> QED BY <1>2, <1>8, <4>1, <4>2
    <3> QED BY <1>3, <3>1, <3>2, <3>3
  <2> QED BY <1>3, <2>4, <2>5 DEF Whole
<1>9. CASE x.op = "move"
  <2>1. PICK c \in Convs : c = x.row
    BY <1>2, <1>9 DEF TxOK, Shape
  <2>2. /\ conv[c].st = "live" /\ conv[c] \in ConvRow /\ x.grp \in Groups /\ group[x.grp] = "live"
        /\ x.grp # conv[c].grp /\ x.held \cap Assignments = {} /\ Going(x) = {c}
    BY <1>2, <1>9, <2>1 DEF TxOK, Shape, JoinOK, Joins, Undisturbed, ReadsStand, Removes, Going, TypeOK
  <2>3. PICK new : new = [conv[c] EXCEPT !.grp = x.grp]
    OBVIOUS
  <2>4. new.st = "live" /\ new.asg = conv[c].asg /\ new.grp = x.grp
    BY <2>2, <2>3 DEF ConvRow
  <2>5. \A d \in Convs : conv'[d] = IF d = c THEN new ELSE conv[d]
    BY <1>1, <1>2, <1>9, <2>1, <2>3 DEF PruneCommit, TypeOK
  <2>6. x.grp \notin x.empty
    <3>1. PICK d \in LiveIn(x.grp) : TRUE
      BY <2>2 DEF Whole, NoEmptyGroup
    <3>2. d # c
      BY <2>2, <3>1 DEF LiveIn
    <3> QED BY <1>5, <2>2, <3>1, <3>2
  <2>7. NoDangling'
    <3> SUFFICES ASSUME NEW d \in Convs, conv'[d].st = "live" PROVE group'[conv'[d].grp] = "live"
      BY DEF NoDangling
    <3>1. CASE d = c
      BY <1>4, <2>2, <2>4, <2>5, <2>6, <3>1
    <3>2. CASE d # c
      <4>1. conv'[d] = conv[d] /\ conv[d].st = "live"
        BY <2>5, <3>2
      <4>2. PICK g \in Groups : g = conv[d].grp /\ group[g] = "live"
        BY <1>2, <4>1 DEF TypeOK, ConvRow, Whole, NoDangling
      <4>3. d \in LiveIn(g)
        BY <4>1, <4>2 DEF LiveIn
      <4>4. g \notin x.empty
        BY <1>5, <2>2, <3>2, <4>3
      <4> QED BY <1>4, <4>1, <4>2, <4>4
    <3> QED BY <3>1, <3>2
  <2>8. NoEmptyGroup'
    <3> SUFFICES ASSUME NEW g \in Groups, group'[g] = "live" PROVE LiveIn(g)' # {}
      BY DEF NoEmptyGroup
    <3>1. group[g] = "live" /\ g \notin x.empty
      BY <1>4
    <3>2. PICK d \in LiveIn(g) : d # c
      BY <1>6, <2>2, <3>1
    <3>3. d \in LiveIn(g)'
      BY <2>5, <3>2 DEF LiveIn
    <3> QED BY <3>3
  <2>9. LiveConvLiveAssignment'
    <3> SUFFICES ASSUME NEW d \in Convs, conv'[d].st = "live" PROVE asg'[conv'[d].asg].st = "live"
      BY DEF LiveConvLiveAssignment
    <3>1. conv'[d].asg = conv[d].asg /\ conv[d].st = "live"
      BY <2>2, <2>4, <2>5
    <3>2. PICK a \in Assignments : a = conv[d].asg /\ asg[a].st = "live"
      BY <1>2, <3>1 DEF TypeOK, ConvRow, Whole, LiveConvLiveAssignment
    <3> QED BY <1>3, <2>2, <3>1, <3>2
  <2> QED BY <1>3, <2>7, <2>8, <2>9 DEF Whole
<1> QED BY <1>8, <1>9

-----------------------------------------------------------------------------
\* No request, no row, every model live.
LEMMA InitSerial == Init => SerialInv
<1> SUFFICES ASSUME Init PROVE SerialInv
  OBVIOUS
<1>1. Alone
  BY DEF Init, Alone, IdleTx
<1>2. Whole
  BY DEF Init, Whole, NoDangling, NoEmptyGroup, LiveConvLiveAssignment, LiveSubsetLiveModel, LiveAssignmentLiveModel
<1>3. \A t \in Txs : Undisturbed(tx[t])
  BY IdleUndisturbed DEF Init
<1> QED BY <1>1, <1>2, <1>3 DEF SerialInv

\* Until two requests overlap, each finds at its commit what it read.
LEMMA NextSerial ==
    ASSUME IInv, SerialInv, [Next]_vars
    PROVE  SerialInv'
<1>1. CASE UNCHANGED vars
  <2>1. Kept /\ tx' = tx /\ raced' = raced
    BY <1>1 DEF vars, Kept
  <2>2. Whole <=> Whole'
    BY <2>1 DEF Whole, Kept, NoDangling, NoEmptyGroup, LiveIn, LiveConvLiveAssignment, LiveSubsetLiveModel,
                LiveAssignmentLiveModel
  <2>3. ASSUME NEW u \in Txs, Undisturbed(tx[u]) PROVE Undisturbed(tx[u])'
    <3>1. PICK x : x = tx[u] /\ x = tx'[u] /\ Undisturbed(x)
      BY <2>1, <2>3
    <3>2. Undisturbed(x)'
      BY <2>1, <3>1, KeptUndisturbed
    <3> QED BY <3>1, <3>2
  <2> QED BY <2>1, <2>2, <2>3 DEF SerialInv, Alone
<1>2. CASE Next
  <2> SUFFICES ASSUME ~raced' PROVE Alone' /\ Whole' /\ \A u \in Txs : Undisturbed(tx[u])'
    BY DEF SerialInv
  <2>1. ~raced /\ ~(Cardinality({u \in Txs : tx'[u].pc # "idle"}) > 1)
    BY <1>2 DEF Next
  <2>2. TypeOK /\ Alone /\ Whole /\ \A u \in Txs : Undisturbed(tx[u])
    BY <2>1 DEF SerialInv, IInv
  <2>3. ASSUME NEW t \in Txs, Advances(t)
        PROVE  Alone' /\ Whole' /\ \A u \in Txs : Undisturbed(tx[u])'
    <3>1. PICK new : tx' = [tx EXCEPT ![t] = new] /\ Undisturbed(new) /\ Kept
      BY <2>3 DEF Advances
    <3>2. \A u \in Txs : u # t => tx'[u] = tx[u]
      BY <2>2, <3>1 DEF TypeOK
    <3> QED BY <2>1, <2>2, <3>1, <3>2, StillAlone, SerialGoes
  <2>4. ASSUME NEW t \in Txs, Commit(t), tx[t].pc # "idle", Whole'
        PROVE  Alone' /\ Whole' /\ \A u \in Txs : Undisturbed(tx[u])'
    <3>1. \A u \in Txs : u # t => tx'[u] = tx[u]
      BY <2>2, <2>4 DEF TypeOK, Commit
    <3> QED BY <2>1, <2>2, <2>4, <3>1, StillAlone, LastOut
  <2>5. ASSUME NEW t \in Txs,
               \/ \E c \in Convs : CreateCommit(t, c)
               \/ \E g \in Groups, C \in SUBSET Convs : CreateGroupCommit(t, g, C)
               \/ RestoreCommit(t) \/ DeleteGroupCommit(t) \/ PruneCommit(t)
        PROVE  Commit(t) /\ tx[t].pc # "idle" /\ Whole'
    <3>1. Commit(t) /\ tx[t].pc # "idle"
      BY <2>5 DEF CreateCommit, CreateGroupCommit, RestoreCommit, DeleteGroupCommit, PruneCommit
    <3>2. Whole'
      BY <2>2, <2>5, CreatesWhole, CreateGroupWhole, DeleteGroupWhole, PruneWhole
    <3> QED BY <3>1, <3>2
  <2>6. ASSUME NEW t \in Txs,
               \/ \E a \in Assignments : AssignCommit(t, a)
               \/ RestoreAssignmentCommit(t) \/ RestoreModelCommit(t) \/ SyncCommit(t)
        PROVE  Commit(t) /\ tx[t].pc # "idle" /\ Whole'
    <3>1. Commit(t) /\ tx[t].pc # "idle"
      BY <2>6 DEF AssignCommit, RestoreAssignmentCommit, RestoreModelCommit, SyncCommit
    <3>2. Whole'
      BY <2>2, <2>6, ModelsWhole
    <3> QED BY <3>1, <3>2
  <2>7. ASSUME NEW t \in Txs, Abort(t) PROVE Commit(t) /\ tx[t].pc # "idle" /\ Whole'
    <3>1. Commit(t) /\ tx[t].pc # "idle" /\ Kept
      BY <2>7 DEF Abort, Kept
    <3>2. Whole'
      BY <2>2, <3>1 DEF Whole, Kept, NoDangling, NoEmptyGroup, LiveIn, LiveConvLiveAssignment, LiveSubsetLiveModel,
                        LiveAssignmentLiveModel
    <3> QED BY <3>1, <3>2
  <2>8. PICK t \in Txs :
          \/ \/ \E a \in Assignments, g \in Groups : CreateRead(t, a, g)
             \/ \E c \in Convs, g \in Groups : MoveLock(t, c, g)
             \/ \E c \in Convs : RestoreLock(t, c) \/ DeleteLock(t, c)
             \/ \E a \in Assignments : CreateGroupRead(t, a) \/ RestoreAssignmentLock(t, a) \/ UnassignLock(t, a)
             \/ \E g \in Groups : DeleteGroupLock(t, g)
             \/ \E m \in Models : DeleteModelLock(t, m) \/ RestoreModelLock(t, m)
          \/ (\E m \in Models : AssignRead(t, m)) \/ (\E T \in SUBSET Models : SyncRead(t, T))
          \/ AcquireGroup(t) \/ assert_group_has_room(t)
          \/ DeleteModelAssignments(t) \/ DeleteModelSubset(t) \/ SyncLock(t)
          \/ CascadeRead(t) \/ CascadeConversations(t) \/ PruneRead(t)
          \/ \/ \E c \in Convs : CreateCommit(t, c)
             \/ \E g \in Groups, C \in SUBSET Convs : CreateGroupCommit(t, g, C)
             \/ RestoreCommit(t) \/ DeleteGroupCommit(t) \/ PruneCommit(t)
          \/ \/ \E a \in Assignments : AssignCommit(t, a)
             \/ RestoreAssignmentCommit(t) \/ RestoreModelCommit(t) \/ SyncCommit(t)
          \/ Abort(t)
    BY <1>2 DEF Next, Step
  <2> QED BY <2>2, <2>3, <2>4, <2>5, <2>6, <2>7, <2>8, BeginsSerial, ReadsSerial, LocksSerial, CascadesSerial
<1> QED BY <1>1, <1>2

\* From whole tables every route reads the same conversations.
LEMMA ReadsAgree ==
    ASSUME TypeOK, Whole, NEW who \in Callers
    PROVE  /\ \A other \in {list_evaluation_conversations_endpoint(who),
                            get_conversation_endpoint(who), get_conversation_group_endpoint(who),
                            list_evaluation_groups_endpoint(who),
                            list_conversation_groups_endpoint(who)} : other = list_conversations_endpoint(who)
           /\ \A c \in list_conversations_endpoint(who) :
                /\ conv[c].asg \in list_evaluation_models(FALSE)
                /\ model[resolve_dispatch_target(c)] = "live"
           /\ list_conversations(who, TRUE) \cap list_conversations_endpoint(who) = {}
<1> DEFINE seen == {c \in Convs : scope(who, TRUE) /\ conv[c].st = "live"}
<1>1. list_conversations_endpoint(who) = seen /\ list_evaluation_conversations_endpoint(who) = seen
  BY DEF list_conversations_endpoint, list_evaluation_conversations_endpoint, list_conversations
<1>2. get_conversation_endpoint(who) = seen
  BY DEF get_conversation_endpoint, get_conversation
<1>3. \A c \in seen : conv[c].grp \in Groups /\ group[conv[c].grp] = "live" /\ c \in LiveIn(conv[c].grp)
  BY DEF TypeOK, ConvRow, Whole, NoDangling, LiveIn
<1>4. Members({g \in Groups : scope(who, TRUE) /\ group[g] = "live"}) = seen
  <2>1. ASSUME NEW c \in seen PROVE c \in Members({g \in Groups : scope(who, TRUE) /\ group[g] = "live"})
    BY <1>3 DEF Members, with_conversations
  <2>2. ASSUME NEW c \in Members({g \in Groups : scope(who, TRUE) /\ group[g] = "live"}) PROVE c \in seen
    BY DEF Members, with_conversations, LiveIn
  <2> QED BY <2>1, <2>2
<1>5. /\ get_conversation_group_endpoint(who) = seen /\ list_evaluation_groups_endpoint(who) = seen
      /\ list_conversation_groups_endpoint(who) = seen
  BY <1>4 DEF get_conversation_group_endpoint, list_evaluation_groups_endpoint, list_conversation_groups_endpoint,
              list_conversation_groups, get_conversation_group
<1>6. ASSUME NEW c \in seen
      PROVE  conv[c].asg \in list_evaluation_models(FALSE) /\ model[resolve_dispatch_target(c)] = "live"
  <2>1. PICK a \in Assignments : a = conv[c].asg /\ asg[a].st = "live"
    BY DEF TypeOK, ConvRow, Whole, LiveConvLiveAssignment
  <2> QED BY <2>1 DEF list_evaluation_models, resolve_dispatch_target, Whole, LiveAssignmentLiveModel
<1>7. list_conversations(who, TRUE) \cap seen = {}
  BY DEF list_conversations
<1> HIDE DEF seen
<1> QED BY <1>1, <1>2, <1>5, <1>6, <1>7

\* Until two requests overlap, and whatever was aborted, what a request read stands until its
\* commit and the tables are whole (the transactional wrapper, one request at a time).
THEOREM SerialInvariance == Spec => []SerialInv
<1>1. IInv /\ SerialInv /\ [Next]_vars => SerialInv'
  BY NextSerial
<1> QED BY InitSerial, <1>1, Invariance, PTL DEF Spec

\* Until two requests overlap, soft_delete_conversations_for_assignment and _for_model,
\* soft_delete_empty_groups and revive_pruned_group reach every row they must: no live
\* conversation dangles, no group is empty, and every listing route shows the same
\* conversations, each on an assignment and a model that are live.
THEOREM SerialReadsHold == Spec => []SerialReadsAgree
<1>1. IInv /\ SerialInv => SerialReadsAgree
  <2> SUFFICES ASSUME IInv, SerialInv, ~raced PROVE SerialReadsAgree
    BY DEF SerialReadsAgree
  <2>1. TypeOK /\ Whole
    BY DEF IInv, SerialInv
  <2> QED BY <2>1, ReadsAgree DEF SerialReadsAgree, Whole
<1> QED BY <1>1, Invariance, SerialInvariance, PTL
=============================================================================
