------------------------ MODULE UserDataManagerProofs ------------------------
(***************************************************************************)
(* Safety of UserDataManager for every set of accounts and any number of   *)
(* user calls, silent connections and failures.                            *)
(***************************************************************************)
EXTENDS UserDataManager, FiniteSetTheorems, TLAPS

ProcType == [pc : Pcs, todo : SUBSET Accounts, keyed : SUBSET Accounts, remove : SUBSET Accounts,
             of : Accounts \cup {None}, copy : RowType, op : Ops]

(* Where each goroutine can be, and the calls of the exchange service it   *)
(* makes: only the reconciliation and the health check connect.            *)
Places(p) ==
    CASE p = "recon"  -> {"idle", "pool", "next", "key", "dial", "get", "put"}
      [] p = "health" -> {"idle", "next", "reconnect", "load", "key", "dial", "get", "put"}
      [] p = "renew"  -> {"idle", "next", "renew", "get", "put"}
      [] p = "user"   -> {"idle", "get", "put"}

OpsOf(p) ==
    CASE p \in {"recon", "health"} -> {"save", "deactivate"}
      [] p = "renew" -> {"extend", "deactivate"}
      [] p = "user"  -> {"activate", "deactivate", "edit"}

(* A goroutine that is not between two accounts has one, one in a call has *)
(* an operation, and after the cancellation no pass takes an account up.   *)
ShapeOf(p) ==
    /\ proc[p].pc \in Places(p)
    /\ proc[p].pc \notin {"idle", "pool", "next"} => proc[p].of \in Accounts
    /\ proc[p].pc \in {"get", "put"} => proc[p].op \in OpsOf(p)
    /\ proc[p].pc = "idle" \/ ~Running \/ p = "user" => proc[p].todo = {}

Typed ==
    /\ row \in [Accounts -> RowType]
    /\ pool \in [Accounts -> States]
    /\ leaked \in [Accounts -> Nat]
    /\ proc \in [Procs -> ProcType]
    /\ started \in BOOLEAN
    /\ mode \in {"running", "cancelled", "stopping", "stopped"}
    /\ silenced \subseteq Accounts
    /\ {toggles, drops, failures} \subseteq Nat

Shape == Typed /\ \A p \in Procs : ShapeOf(p)

(* A client that replaces another without stopping it is counted as well,  *)
(* so that the count is never less than the clients of the map.            *)
Counted == count \in Nat /\ count >= Cardinality(Connected)

(* No connection of the account is replaced if one is opened now, or one   *)
(* went silent.                                                            *)
Free(a) == ~Open(a) \/ a \in silenced

Opening == {"key", "dial", "get", "put"}

(* Only the health check opens connections of accounts somebody else may   *)
(* be connecting, and it comes to an account that was silent only.         *)
ReconSafe ==
    /\ proc["recon"].pc # "pool" => \A a \in proc["recon"].todo : Free(a)
    /\ proc["recon"].pc \in Opening =>
           Free(proc["recon"].of) /\ proc["recon"].of \notin proc["recon"].todo

HealthSafe ==
    proc["health"].pc \in Opening \cup {"reconnect", "load"} => proc["health"].of \in silenced

(* What the state of a connection says of the past.                        *)
PoolMarks ==
    \A a \in Accounts : /\ pool[a] = "silent" => a \in silenced
                        /\ pool[a] = "ended" => ~Running

Leaks == LeaksNeedReconnect /\ ReconSafe /\ HealthSafe /\ PoolMarks

IInv == Shape /\ Counted /\ Leaks

-----------------------------------------------------------------------------
(* What the helpers do to the record of a goroutine.                       *)

OthersStay(p) == \A q \in Procs : q # p => proc'[q] = proc[q]

(* It stays with its account.                                              *)
Stays(p) == proc'[p].of = proc[p].of /\ proc'[p].todo = proc[p].todo

LEMMA PassIs ==
    ASSUME Typed, NEW p \in Procs, NEW pc \in Pcs, NEW todo \in SUBSET Accounts,
           NEW keyed \in SUBSET Accounts, NEW remove \in SUBSET Accounts,
           proc' = [proc EXCEPT ![p] = Pass(pc, todo, keyed, remove)]
    PROVE  /\ proc' \in [Procs -> ProcType] /\ OthersStay(p)
           /\ proc'[p].pc = pc /\ proc'[p].todo = todo
<1>1. NoRow \in RowType /\ "none" \in Ops
  BY DEF NoRow, Row, RowType, Ops
<1>2. Pass(pc, todo, keyed, remove) \in ProcType
  BY <1>1 DEF Pass, At, ProcType
<1> QED BY <1>2 DEF Typed, OthersStay, Pass, At

LEMMA IdleIs ==
    ASSUME Typed, NEW p \in Procs, proc' = [proc EXCEPT ![p] = Idle]
    PROVE  /\ proc' \in [Procs -> ProcType] /\ OthersStay(p)
           /\ proc'[p].pc = "idle" /\ proc'[p].todo = {}
<1>1. NoRow \in RowType /\ "none" \in Ops /\ "idle" \in Pcs
  BY DEF NoRow, Row, RowType, Ops, Pcs
<1>2. Idle \in ProcType /\ Idle.pc = "idle" /\ Idle.todo = {}
  BY <1>1 DEF Idle, Pass, At, ProcType
<1> QED BY <1>2 DEF Typed, OthersStay

LEMMA GoOnIs ==
    ASSUME Typed, NEW p \in Procs, GoOn(p)
    PROVE  /\ proc' \in [Procs -> ProcType] /\ OthersStay(p)
           /\ proc'[p].pc = "next" /\ proc'[p].todo = proc[p].todo
<1>1. proc[p] \in ProcType /\ proc \in [Procs -> ProcType]
  BY DEF Typed
<1>2. proc' = [proc EXCEPT ![p] = Pass("next", proc[p].todo, proc[p].keyed, proc[p].remove)]
  BY DEF GoOn
<1> QED BY <1>1, <1>2, PassIs DEF ProcType, Pcs

LEMMA GoToIs ==
    ASSUME Typed, NEW p \in Procs, NEW pc \in Pcs, GoTo(p, pc)
    PROVE  proc' \in [Procs -> ProcType] /\ OthersStay(p) /\ Stays(p) /\ proc'[p].pc = pc
<1>1. proc \in [Procs -> ProcType]
  BY DEF Typed
<1> QED BY <1>1 DEF GoTo, ProcType, OthersStay, Stays

LEMMA ServeIs ==
    ASSUME Typed, NEW p \in Procs, NEW op \in Ops, Serve(p, op)
    PROVE  /\ proc' \in [Procs -> ProcType] /\ OthersStay(p) /\ Stays(p)
           /\ proc'[p].pc = "get" /\ proc'[p].op = op
<1>1. proc \in [Procs -> ProcType] /\ "get" \in Pcs
  BY DEF Typed, Pcs
<1> QED BY <1>1 DEF Serve, ProcType, OthersStay, Stays

(* A call of the exchange service has returned.                            *)
LEMMA ReturnIs ==
    ASSUME Typed, NEW p \in Procs, NEW op, NEW ok, Return(p, op, ok)
    PROVE  /\ proc' \in [Procs -> ProcType] /\ OthersStay(p)
           /\ \/ p = "user" /\ proc'[p].pc = "idle" /\ proc'[p].todo = {}
              \/ p # "user" /\ proc'[p].pc = "next" /\ proc'[p].todo = proc[p].todo
              \/ p # "user" /\ op = "save" /\ proc'[p].pc = "dial" /\ Stays(p)
<1>1. proc \in [Procs -> ProcType]
  BY DEF Typed
<1>2. CASE p = "user"
  <2>1. proc' = [proc EXCEPT ![p] = Idle]
    BY <1>2 DEF Return
  <2> QED BY <1>2, <2>1, IdleIs
<1>3. CASE p # "user" /\ op = "save" /\ ok
  <2>1. proc' = [proc EXCEPT ![p].pc = "dial", ![p].op = "none", ![p].copy = NoRow]
    BY <1>3 DEF Return
  <2>2. NoRow \in RowType /\ "none" \in Ops /\ "dial" \in Pcs
    BY DEF NoRow, Row, RowType, Ops, Pcs
  <2> QED BY <1>1, <1>3, <2>1, <2>2 DEF ProcType, OthersStay, Stays
<1>4. CASE p # "user" /\ ~(op = "save" /\ ok)
  <2>1. GoOn(p)
    BY <1>4 DEF Return
  <2> QED BY <1>4, <2>1, GoOnIs
<1> QED BY <1>2, <1>3, <1>4

-----------------------------------------------------------------------------
(* The ways in which a goroutine moves: it ends its pass, lists, compares  *)
(* what it has listed, takes an account up, or goes on with the one it has.*)
Between == {"idle", "pool", "next"}

Drops(p) == proc'[p].pc = "idle" /\ proc'[p].todo = {}

Lists(p) == \/ p = "recon" /\ proc'[p].pc = "pool" /\ Running
            \/ p \in {"health", "renew"} /\ proc'[p].pc = "next" /\ Running

Narrows(p) ==
    /\ p # "user"
    /\ proc'[p].pc = "next" /\ proc'[p].todo \subseteq proc[p].todo
    /\ proc[p].pc = "pool" => \A a \in proc'[p].todo : pool[a] = "none"

Takes(p) ==
    /\ proc[p].pc = "next" /\ proc'[p].of \in proc[p].todo
    /\ proc'[p].todo = proc[p].todo \ {proc'[p].of}
    /\ \/ p = "recon" /\ proc'[p].pc \in {"key", "dial"}
       \/ p = "health" /\ proc'[p].pc = "reconnect" /\ pool[proc'[p].of] \in {"silent", "ended"}
       \/ p = "renew" /\ proc'[p].pc = "renew"

Proceeds(p) ==
    /\ Stays(p)
    /\ proc[p].pc \notin Between /\ proc'[p].pc \in Places(p) \ Between
    /\ proc'[p].pc \in {"get", "put"} => proc'[p].op \in OpsOf(p)

Moves(p) ==
    /\ proc' \in [Procs -> ProcType] /\ OthersStay(p)
    /\ Drops(p) \/ Lists(p) \/ Narrows(p) \/ Takes(p) \/ Proceeds(p)

(* Every action of a goroutine is such a move.                             *)
LEMMA RequestMoves ==
    ASSUME Shape, NEW p \in Procs,
           EnsureListenKey(p) \/ Connect(p) \/ Get(p) \/ Put(p)
    PROVE  Moves(p)
<1>1. Typed /\ ShapeOf(p) /\ proc[p] \in ProcType
  BY DEF Shape, Typed
<1>2. CASE EnsureListenKey(p)
  <2>1. p \in {"recon", "health"} /\ proc[p].pc = "key"
    BY <1>1, <1>2 DEF EnsureListenKey, ShapeOf, Places, Procs, Managers
  <2>2. CASE GoOn(p)
    BY <1>1, <2>1, <2>2, GoOnIs DEF Moves, Narrows
  <2>3. ASSUME NEW op \in {"save", "deactivate"}, Serve(p, op) PROVE Moves(p)
    BY <1>1, <2>1, <2>3, ServeIs DEF Moves, Proceeds, Between, Places, OpsOf, Ops
  <2> QED BY <1>2, <2>2, <2>3 DEF EnsureListenKey
<1>3. CASE Connect(p)
  <2>1. GoOn(p) /\ proc[p].pc = "dial" /\ p # "user"
    BY <1>1, <1>3 DEF Connect, ShapeOf, Places
  <2> QED BY <1>1, <2>1, GoOnIs DEF Moves, Narrows
<1>4. ASSUME NEW op, NEW ok, Return(p, op, ok), proc[p].pc \in {"get", "put"}, op = proc[p].op
      PROVE  Moves(p)
  <2>1. op = "save" /\ p # "user" => p \in {"recon", "health"}
    BY <1>1, <1>4 DEF ShapeOf, OpsOf, Procs, Managers
  <2>2. p \in {"recon", "health"} => "dial" \in Places(p) \ Between
    BY DEF Places, Between
  <2>3. proc' \in [Procs -> ProcType] /\ OthersStay(p)
    BY <1>1, <1>4, ReturnIs
  <2>4. \/ p = "user" /\ proc'[p].pc = "idle" /\ proc'[p].todo = {}
        \/ p # "user" /\ proc'[p].pc = "next" /\ proc'[p].todo = proc[p].todo
        \/ p # "user" /\ op = "save" /\ proc'[p].pc = "dial" /\ Stays(p)
    BY <1>1, <1>4, ReturnIs
  <2> QED BY <1>4, <2>1, <2>2, <2>3, <2>4 DEF Moves, Drops, Narrows, Proceeds, Between
<1>5. CASE Get(p)
  <2>1. CASE proc' = [proc EXCEPT ![p].pc = "put", ![p].copy = row[proc[p].of]]
    <3>1. proc[p].pc = "get" /\ proc[p].of \in Accounts /\ proc[p].op \in OpsOf(p)
      BY <1>1, <1>5 DEF Get, ShapeOf
    <3>2. proc \in [Procs -> ProcType] /\ row[proc[p].of] \in RowType /\ "put" \in Pcs
      BY <1>1, <3>1 DEF Typed, Pcs
    <3>3. /\ proc' \in [Procs -> ProcType] /\ OthersStay(p) /\ Stays(p)
          /\ proc'[p].pc = "put" /\ proc'[p].op = proc[p].op
      BY <2>1, <3>2 DEF ProcType, OthersStay, Stays
    <3>4. "put" \in Places(p) \ Between /\ proc[p].pc \notin Between
      BY <3>1 DEF Places, Between, Procs, Managers
    <3> QED BY <3>1, <3>3, <3>4 DEF Moves, Proceeds
  <2>2. CASE Return(p, proc[p].op, FALSE)
    BY <1>4, <1>5, <2>2 DEF Get
  <2> QED BY <1>5, <2>1, <2>2 DEF Get
<1>6. CASE Put(p)
  <2>1. Return(p, proc[p].op, TRUE) \/ Return(p, proc[p].op, FALSE)
    BY <1>6 DEF Put
  <2> QED BY <1>4, <1>6, <2>1 DEF Put
<1> QED BY <1>2, <1>3, <1>5, <1>6

LEMMA PassMoves ==
    ASSUME Shape, NEW p \in Procs,
           \/ p = "recon" /\ (ListActive \/ ComparePool \/ \E a \in Accounts : RemoveAccount(a))
           \/ ListPool(p)
           \/ p # "user" /\ EndPass(p)
    PROVE  Moves(p) \/ (ListActive /\ UNCHANGED proc)
<1>1. Typed /\ ShapeOf(p) /\ proc[p] \in ProcType
  BY DEF Shape, Typed
<1>2. Active \in SUBSET Accounts /\ Keyed \in SUBSET Accounts /\ Connected \in SUBSET Accounts
  BY DEF Active, Keyed, Connected
<1>3. {} \in SUBSET Accounts /\ {"pool", "next"} \subseteq Pcs
  BY DEF Pcs
<1>4. CASE p = "recon" /\ ListActive
  <2>1. CASE proc' = [proc EXCEPT !["recon"] = Pass("pool", Active, Keyed, {})]
    BY <1>1, <1>2, <1>3, <1>4, <2>1, PassIs DEF Moves, Lists, ListActive
  <2> QED BY <1>4, <2>1 DEF ListActive
<1>5. CASE p = "recon" /\ ComparePool
  <2> DEFINE todo == proc[p].todo \ Connected
             remove == Connected \ proc[p].todo
  <2>1. /\ proc' = [proc EXCEPT ![p] = Pass("next", todo, proc[p].keyed, remove)]
        /\ todo \in SUBSET Accounts /\ remove \in SUBSET Accounts
        /\ proc[p].keyed \in SUBSET Accounts
    BY <1>1, <1>2, <1>5 DEF ComparePool, ProcType
  <2>2. todo \subseteq proc[p].todo /\ \A a \in todo : pool[a] = "none"
    BY <1>1 DEF Connected, ProcType
  <2> HIDE DEF todo, remove
  <2>3. /\ proc' \in [Procs -> ProcType] /\ OthersStay(p)
        /\ proc'[p].pc = "next" /\ proc'[p].todo = todo
    BY <1>1, <1>3, <2>1, PassIs
  <2> QED BY <1>5, <2>2, <2>3 DEF Moves, Narrows
<1>6. ASSUME p = "recon", NEW a \in Accounts, RemoveAccount(a) PROVE Moves(p)
  <2>1. proc[p].pc = "next" /\ proc' = [proc EXCEPT ![p].remove = @ \ {a}]
    BY <1>6 DEF RemoveAccount
  <2>2. /\ proc' \in [Procs -> ProcType] /\ OthersStay(p)
        /\ proc'[p].pc = "next" /\ proc'[p].todo = proc[p].todo
    BY <1>1, <2>1 DEF Typed, ProcType, OthersStay
  <2> QED BY <1>6, <2>1, <2>2 DEF Moves, Narrows
<1>7. CASE ListPool(p)
  <2>1. Running /\ p \in {"health", "renew"}
        /\ proc' = [proc EXCEPT ![p] = Pass("next", Connected, {}, {})]
    BY <1>7 DEF ListPool
  <2> QED BY <1>1, <1>2, <1>3, <2>1, PassIs DEF Moves, Lists
<1>8. CASE EndPass(p)
  BY <1>1, <1>8, IdleIs DEF EndPass, Moves, Drops
<1> QED BY <1>4, <1>5, <1>6, <1>7, <1>8

LEMMA StageMoves ==
    ASSUME Shape, NEW p \in Procs,
           \/ p = "health" /\ (Reconnect \/ Load)
           \/ p = "renew" /\ RenewListenKey
    PROVE  Moves(p)
<1>1. Typed /\ ShapeOf(p) /\ proc[p] \in ProcType
  BY DEF Shape, Typed
<1>2. CASE p # "user" /\ GoOn(p) /\ proc[p].pc # "pool"
  BY <1>1, <1>2, GoOnIs DEF Moves, Narrows
<1>3. CASE p = "health" /\ Reconnect
  BY <1>1, <1>2, <1>3, GoToIs DEF Reconnect, Moves, Proceeds, Places, Between, Pcs
<1>4. CASE p = "health" /\ Load
  <2>1. GoOn(p) \/ \E pc \in {"key", "dial"} : GoTo(p, pc)
    BY <1>4 DEF Load, Connecting
  <2>2. ASSUME NEW pc \in {"key", "dial"}, GoTo(p, pc) PROVE Moves(p)
    BY <1>1, <1>4, <2>2, GoToIs DEF Load, Moves, Proceeds, Places, Between, Pcs
  <2> QED BY <1>2, <1>4, <2>1, <2>2 DEF Load
<1>5. CASE p = "renew" /\ RenewListenKey
  <2>1. GoOn(p) \/ \E op \in {"extend", "deactivate"} : Serve(p, op)
    BY <1>5 DEF RenewListenKey
  <2>2. ASSUME NEW op \in {"extend", "deactivate"}, Serve(p, op) PROVE Moves(p)
    BY <1>1, <1>5, <2>2, ServeIs DEF RenewListenKey, Moves, Proceeds, Places, OpsOf, Between, Ops
  <2> QED BY <1>2, <1>5, <2>1, <2>2 DEF RenewListenKey
<1> QED BY <1>3, <1>4, <1>5

LEMMA TakeMoves ==
    ASSUME Shape, NEW p \in Procs \ {"user"}, NEW a \in Accounts, Take(p, a)
    PROVE  Moves(p)
<1>1. Typed /\ proc[p] \in ProcType /\ proc \in [Procs -> ProcType]
  BY DEF Shape, Typed
<1>2. NoRow \in RowType /\ "none" \in Ops /\ {"key", "dial", "reconnect", "renew", "next"} \subseteq Pcs
  BY DEF NoRow, Row, RowType, Ops, Pcs
<1>3. PICK pc \in {"key", "dial", "reconnect", "renew", "next"} :
         /\ proc' = [proc EXCEPT ![p] = At(pc, proc[p].todo \ {a}, proc[p].keyed, proc[p].remove,
                                           a, NoRow, "none")]
         /\ \/ p = "recon" /\ pc \in {"key", "dial"}
            \/ p = "health" /\ pc \in {"reconnect", "next"}
               /\ (pc = "reconnect" => ~(pool[a] = "none" \/ IsConnected(pool[a])))
            \/ p = "renew" /\ pc = "renew"
  BY DEF Take, Connecting, Procs, Managers
<1>4. At(pc, proc[p].todo \ {a}, proc[p].keyed, proc[p].remove, a, NoRow, "none") \in ProcType
  BY <1>1, <1>2 DEF At, ProcType
<1>5. /\ proc' \in [Procs -> ProcType] /\ OthersStay(p)
      /\ proc'[p].pc = pc /\ proc'[p].todo = proc[p].todo \ {a} /\ proc'[p].of = a
  BY <1>1, <1>3, <1>4 DEF OthersStay, At
<1>6. ~(pool[a] = "none" \/ IsConnected(pool[a])) => pool[a] \in {"silent", "ended"}
  BY <1>1 DEF Typed, States, IsConnected
<1>7. proc[p].pc = "next" /\ a \in proc[p].todo
  BY DEF Take
<1>8. CASE pc = "next"
  BY <1>3, <1>5, <1>7, <1>8 DEF Moves, Narrows
<1>9. CASE pc # "next"
  BY <1>3, <1>5, <1>6, <1>7, <1>9 DEF Moves, Takes
<1> QED BY <1>8, <1>9

LEMMA WorkMoves ==
    ASSUME Shape, NEW p \in Procs, Work(p)
    PROVE  Moves(p) \/ (ListActive /\ UNCHANGED proc)
BY RequestMoves, PassMoves, StageMoves, TakeMoves DEF Work, Procs, Managers

(* A move keeps the shape.                                                 *)
LEMMA MovesShape ==
    ASSUME Shape, NEW p \in Procs, Moves(p), mode' = mode
    PROVE  proc' \in [Procs -> ProcType] /\ \A q \in Procs : ShapeOf(q)'
<1>1. ShapeOf(p) /\ proc[p] \in ProcType
  BY DEF Shape, Typed
<1>2. proc' \in [Procs -> ProcType] /\ OthersStay(p) /\ proc'[p] \in ProcType
  BY DEF Moves
<1>3. ASSUME NEW q \in Procs, q # p PROVE ShapeOf(q)'
  <2>1. ShapeOf(q) /\ proc'[q] = proc[q]
    BY <1>2, <1>3 DEF Shape, OthersStay
  <2> QED BY <2>1 DEF ShapeOf, Running
<1>4. ShapeOf(p)'
  <2>1. CASE Drops(p)
    BY <2>1 DEF Drops, ShapeOf, Places, Procs, Managers
  <2>2. CASE Lists(p)
    BY <2>2 DEF Lists, ShapeOf, Places, Procs, Managers, Running
  <2>3. CASE Narrows(p)
    BY <1>1, <2>3 DEF Narrows, ShapeOf, Places, Procs, Managers, Running
  <2>4. CASE Takes(p)
    BY <1>1, <2>4 DEF Takes, ShapeOf, Places, Procs, Managers, Running, ProcType
  <2>5. CASE Proceeds(p)
    BY <1>1, <2>5 DEF Proceeds, Stays, ShapeOf, Between, Running
  <2> QED BY <2>1, <2>2, <2>3, <2>4, <2>5 DEF Moves
<1> QED BY <1>2, <1>3, <1>4

-----------------------------------------------------------------------------
(* Types and shapes.                                                       *)

LEMMA InitShape == Init => Shape
<1> SUFFICES ASSUME Init PROVE Shape
  OBVIOUS
<1>1. NoRow \in RowType /\ "none" \in Ops /\ "idle" \in Pcs
  BY DEF NoRow, Row, RowType, Ops, Pcs
<1>2. Idle \in ProcType /\ Idle.pc = "idle" /\ Idle.todo = {}
  BY <1>1 DEF Idle, Pass, At, ProcType
<1>3. proc \in [Procs -> ProcType] /\ \A p \in Procs : proc[p] = Idle
  BY <1>2 DEF Init
<1>4. \A p \in Procs : ShapeOf(p)
  BY <1>2, <1>3 DEF ShapeOf, Places, Procs, Managers
<1>5. row \in [Accounts -> RowType]
  BY DEF Init, Row, RowType
<1>6. Typed
  BY <1>3, <1>5, ConstantsAssumption DEF Init, Typed, States
<1> QED BY <1>4, <1>6 DEF Shape

(* What a goroutine does besides moving.                                   *)
LEMMA WorkKeeps ==
    ASSUME Shape, NEW p \in Procs, Work(p)
    PROVE  /\ mode' = mode /\ silenced' = silenced
           /\ row' \in [Accounts -> RowType] /\ started' \in BOOLEAN
           /\ {toggles, drops, failures}' \subseteq Nat
<1>1. Typed /\ ShapeOf(p)
  BY DEF Shape
<1>2. UNCHANGED <<mode, silenced, toggles, drops>>
  BY DEF Work, ListActive, ComparePool, RemoveAccount, Reconnect, Load, RenewListenKey, ListPool,
     Take, EndPass, EnsureListenKey, Connect, Get, Put
<1>3. failures' = failures \/ Fail
  BY DEF Work, ListActive, ComparePool, RemoveAccount, Reconnect, Load, RenewListenKey, ListPool,
     Take, EndPass, EnsureListenKey, Connect, Get, Put
<1>4. failures' \in Nat
  BY <1>1, <1>3 DEF Typed, Fail
<1>5. started' \in BOOLEAN
  <2>1. started' = started \/ started' = TRUE
    BY DEF Work, ListActive, ComparePool, RemoveAccount, Reconnect, Load, RenewListenKey, ListPool,
       Take, EndPass, EnsureListenKey, Connect, Get, Put
  <2> QED BY <1>1, <2>1 DEF Typed
<1>6. row' \in [Accounts -> RowType]
  <2>1. CASE Put(p)
    <3>1. proc[p].of \in Accounts /\ proc[p].op \in OpsOf(p) /\ proc[p].copy \in RowType
      BY <1>1, <2>1 DEF Put, ShapeOf, Between, Typed, ProcType
    <3>2. Result(proc[p].op, proc[p].copy) \in RowType
      BY <3>1 DEF Result, Row, RowType, OpsOf, Procs, Managers
    <3> QED BY <1>1, <2>1, <3>1, <3>2 DEF Put, Typed
  <2>2. CASE ~Put(p)
    <3>1. row' = row
      BY <2>2 DEF Work, ListActive, ComparePool, RemoveAccount, Reconnect, Load, RenewListenKey,
         ListPool, Take, EndPass, EnsureListenKey, Connect, Get
    <3> QED BY <1>1, <3>1 DEF Typed
  <2> QED BY <2>1, <2>2
<1> QED BY <1>1, <1>2, <1>4, <1>5, <1>6 DEF Typed

(* What it does to the connections: a client is taken out of the map, or   *)
(* one is put in.                                                          *)
Removes(a) == Disconnect(a) /\ UNCHANGED leaked

PutsIn(a) ==
    /\ leaked' = IF Open(a) THEN [leaked EXCEPT ![a] = @ + 1] ELSE leaked
    /\ pool' = [pool EXCEPT ![a] = "fresh"]
    /\ count' = count + 1

LEMMA WorkPool ==
    ASSUME Shape, NEW p \in Procs, Work(p)
    PROVE  \/ UNCHANGED <<pool, leaked, count>>
           \/ \E a \in Accounts : Removes(a)
           \/ /\ p \in {"recon", "health"} /\ proc[p].pc = "dial" /\ proc[p].of \in Accounts
              /\ PutsIn(proc[p].of) /\ GoOn(p)
<1>1. ShapeOf(p)
  BY DEF Shape
<1>2. CASE Connect(p)
  <2>1. p \in {"recon", "health"} /\ proc[p].of \in Accounts
    BY <1>1, <1>2 DEF Connect, ShapeOf, Places, Between, Procs, Managers
  <2> QED BY <1>2, <2>1 DEF Connect, PutsIn
<1>3. CASE p = "health" /\ Reconnect
  BY <1>1, <1>3 DEF Reconnect, ShapeOf, Removes, Between
<1>4. ASSUME NEW a \in Accounts, RemoveAccount(a) PROVE Removes(a)
  BY <1>4 DEF RemoveAccount, Removes
<1>5. ASSUME ~Connect(p), ~(p = "health" /\ Reconnect), ~ \E a \in Accounts : RemoveAccount(a)
      PROVE  UNCHANGED <<pool, leaked, count>>
  BY <1>5 DEF Work, ListActive, ComparePool, Load, RenewListenKey, ListPool, Take, EndPass,
     EnsureListenKey, Get, Put
<1> QED BY <1>2, <1>3, <1>4, <1>5

LEMMA PoolTyped ==
    ASSUME Typed, NEW a \in Accounts, Removes(a) \/ PutsIn(a)
    PROVE  pool' \in [Accounts -> States] /\ leaked' \in [Accounts -> Nat]
BY DEF Typed, Removes, Disconnect, PutsIn, States

LEMMA WorkShape == ASSUME Shape, NEW p \in Procs, Work(p) PROVE Shape'
<1>1. Typed
  BY DEF Shape
<1>2. pool' \in [Accounts -> States] /\ leaked' \in [Accounts -> Nat]
  BY <1>1, WorkPool, PoolTyped DEF Typed
<1>3. proc' \in [Procs -> ProcType] /\ \A q \in Procs : ShapeOf(q)'
  <2>1. mode' = mode
    BY WorkKeeps
  <2>2. CASE Moves(p)
    BY <2>1, <2>2, MovesShape
  <2>3. CASE UNCHANGED proc
    BY <1>1, <2>1, <2>3 DEF Shape, Typed, ShapeOf, Running
  <2> QED BY <2>2, <2>3, WorkMoves
<1>4. mode' \in {"running", "cancelled", "stopping", "stopped"} /\ silenced' \subseteq Accounts
  BY <1>1, WorkKeeps DEF Typed
<1> QED BY <1>2, <1>3, <1>4, WorkKeeps DEF Shape, Typed

(* The steps of users, the exchange and the shutdown.                      *)
LEMMA UserShape == ASSUME Shape, NEW a \in Accounts, UserCall(a) PROVE Shape'
<1>1. Typed /\ \A p \in Procs : ShapeOf(p)
  BY DEF Shape
<1>2. /\ UNCHANGED <<pool, leaked, started, mode, silenced, drops, failures>>
      /\ {toggles, drops, failures}' \subseteq Nat
  BY <1>1 DEF UserCall, Typed
<1>3. NoRow \in RowType
  BY DEF NoRow, Row, RowType
<1>4. row' \in [Accounts -> RowType]
  BY <1>1, <1>3 DEF UserCall, Typed
<1>5. CASE UNCHANGED proc
  BY <1>1, <1>2, <1>4, <1>5 DEF Shape, Typed, ShapeOf, Running
<1>6. ASSUME NEW op \in {"activate", "deactivate", "edit"},
             proc' = [proc EXCEPT !["user"] = At("get", {}, {}, {}, a, NoRow, op)]
      PROVE  Shape'
  <2> DEFINE new == At("get", {}, {}, {}, a, NoRow, op)
  <2>1. new \in ProcType /\ new.pc = "get" /\ new.of = a /\ new.todo = {} /\ new.op = op
    BY <1>3 DEF At, ProcType, Pcs, Ops
  <2> HIDE DEF new
  <2>2. proc' \in [Procs -> ProcType] /\ OthersStay("user") /\ proc'["user"] = new
    BY <1>1, <1>6, <2>1 DEF Typed, OthersStay, Procs, new
  <2>3. ShapeOf("user")'
    BY <2>1, <2>2 DEF ShapeOf, Places, OpsOf
  <2>4. \A p \in Procs : p # "user" => ShapeOf(p)'
    BY <1>1, <1>2, <2>2 DEF OthersStay, ShapeOf, Running
  <2> QED BY <1>1, <1>2, <1>4, <2>2, <2>3, <2>4 DEF Shape, Typed
<1> QED BY <1>5, <1>6 DEF UserCall

LEMMA StreamShape ==
    ASSUME Shape, NEW a \in Accounts, Message(a) \/ GoSilent(a) \/ ClientStops(a)
    PROVE  Shape'
<1>1. UNCHANGED <<row, proc, started, mode, toggles, failures>>
  BY DEF Message, GoSilent, ClientStops
<1>2. Typed'
  <2>1. Typed
    BY DEF Shape
  <2>2. pool' \in [Accounts -> States] /\ silenced' \subseteq Accounts
    BY <2>1 DEF Message, GoSilent, ClientStops, Typed, States
  <2>3. leaked' \in [Accounts -> Nat] /\ drops' \in Nat
    BY <2>1 DEF Message, GoSilent, ClientStops, Typed
  <2> QED BY <1>1, <2>1, <2>2, <2>3 DEF Typed
<1> QED BY <1>1, <1>2 DEF Shape, ShapeOf, Running

LEMMA ExpireShape == ASSUME Shape, NEW a \in Accounts, Expire(a) PROVE Shape'
<1>1. Typed /\ \A p \in Procs : ShapeOf(p) /\ proc[p] \in ProcType
  BY DEF Shape, Typed
<1>2. UNCHANGED <<pool, leaked, started, mode, silenced, toggles, drops, failures>>
  BY DEF Expire
<1>3. row' \in [Accounts -> RowType]
  BY <1>1 DEF Expire, Typed, RowType
<1>4. ASSUME NEW p \in Procs PROVE proc'[p] \in ProcType /\ ShapeOf(p)'
  <2>1. proc'[p] = [proc[p] EXCEPT !.keyed = @ \ {a},
                                   !.copy = IF proc[p].of = a THEN Row(@.active, "expired") ELSE @]
    BY DEF Expire
  <2>2. Row(proc[p].copy.active, "expired") \in RowType
    BY <1>1 DEF Row, RowType, ProcType
  <2>3. /\ proc'[p] \in ProcType
        /\ proc'[p].pc = proc[p].pc /\ proc'[p].todo = proc[p].todo
        /\ proc'[p].of = proc[p].of /\ proc'[p].op = proc[p].op
    BY <1>1, <2>1, <2>2 DEF ProcType
  <2> QED BY <1>1, <1>2, <2>3 DEF ShapeOf, Running
<1>5. proc' \in [Procs -> ProcType]
  BY <1>4 DEF Expire
<1> QED BY <1>1, <1>2, <1>3, <1>4, <1>5 DEF Shape, Typed

(* The cancellation leaves a pass nothing to take up.                      *)
LEMMA InterruptedIs ==
    ASSUME Shape, NEW p \in Procs
    PROVE  /\ Interrupted(p) \in ProcType
           /\ p = "user" => Interrupted(p) = proc[p]
           /\ p # "user" => Interrupted(p).todo = {}
           /\ \/ Interrupted(p).pc = "idle"
              \/ /\ Interrupted(p).pc = proc[p].pc /\ Interrupted(p).of = proc[p].of
                 /\ Interrupted(p).op = proc[p].op
<1>1. proc[p] \in ProcType
  BY DEF Shape, Typed
<1>2. CASE p = "user"
  BY <1>1, <1>2 DEF Interrupted
<1>3. CASE p # "user" /\ proc[p].pc \in {"dial", "reconnect"}
  <2>1. Interrupted(p) = [proc[p] EXCEPT !.todo = {}, !.keyed = {}, !.remove = {}]
    BY <1>3 DEF Interrupted
  <2> QED BY <1>1, <1>3, <2>1 DEF ProcType
<1>4. CASE p # "user" /\ proc[p].pc \notin {"dial", "reconnect"}
  <2>1. Interrupted(p) = Idle
    BY <1>4 DEF Interrupted
  <2>2. NoRow \in RowType /\ "none" \in Ops /\ "idle" \in Pcs
    BY DEF NoRow, Row, RowType, Ops, Pcs
  <2>3. Idle \in ProcType /\ Idle.pc = "idle" /\ Idle.todo = {}
    BY <2>2 DEF Idle, Pass, At, ProcType
  <2> QED BY <1>4, <2>1, <2>3
<1> QED BY <1>2, <1>3, <1>4

LEMMA ShutdownShape == ASSUME Shape, Cancel \/ Stop PROVE Shape'
<1>1. Typed /\ \A p \in Procs : ShapeOf(p)
  BY DEF Shape
<1>2. CASE Cancel
  <2>1. UNCHANGED <<row, pool, leaked, started, silenced, toggles, drops, failures>>
        /\ mode' = "cancelled"
    BY <1>2 DEF Cancel
  <2>2. proc' \in [Procs -> ProcType]
    BY <1>2, InterruptedIs DEF Cancel
  <2>3. ASSUME NEW p \in Procs PROVE ShapeOf(p)'
    <3>1. proc'[p] = Interrupted(p)
      BY <1>2 DEF Cancel
    <3>2. "idle" \in Places(p)
      BY DEF Places, Procs, Managers
    <3> QED BY <1>1, <3>1, <3>2, InterruptedIs DEF ShapeOf
  <2> QED BY <1>1, <2>1, <2>2, <2>3 DEF Shape, Typed
<1>3. CASE StopClients \/ ResetPool
  <2>1. UNCHANGED <<row, proc, started, silenced, toggles, drops, failures>>
    BY <1>3 DEF StopClients, ResetPool
  <2>2. pool' \in [Accounts -> States] /\ leaked' \in [Accounts -> Nat]
    BY <1>1, <1>3 DEF StopClients, ResetPool, Typed, States
  <2>3. ~Running /\ ~Running' /\ mode' \in {"stopping", "stopped"}
    BY <1>3 DEF StopClients, ResetPool, Running
  <2> QED BY <1>1, <2>1, <2>2, <2>3 DEF Shape, Typed, ShapeOf
<1> QED BY <1>2, <1>3 DEF Stop

LEMMA NextShape == ASSUME Shape, [Next]_vars PROVE Shape'
<1>1. CASE UNCHANGED vars
  BY <1>1 DEF vars, Shape, Typed, ShapeOf, Running
<1> QED BY <1>1, WorkShape, UserShape, StreamShape, ExpireShape, ShutdownShape DEF Next

-----------------------------------------------------------------------------
(* The count.                                                              *)

LEMMA ConnectedFinite ==
    ASSUME NEW S \in SUBSET Accounts
    PROVE  IsFiniteSet(S) /\ Cardinality(S) \in Nat
BY ConstantsAssumption, FS_Subset, FS_CardinalityType

LEMMA InitCounted == Init => Counted
<1> SUFFICES ASSUME Init PROVE Counted
  OBVIOUS
<1>1. Connected = {}
  BY DEF Init, Connected
<1> QED BY <1>1, FS_EmptySet DEF Init, Counted

LEMMA RemovesCounted ==
    ASSUME Typed, Counted, NEW a \in Accounts, Removes(a)
    PROVE  Counted'
<1>1. Connected' = Connected \ {a}
  BY DEF Typed, Removes, Disconnect, Connected
<1>2. IsFiniteSet(Connected) /\ Cardinality(Connected) \in Nat
  BY ConnectedFinite DEF Connected
<1>3. Cardinality(Connected \ {a}) = IF a \in Connected THEN Cardinality(Connected) - 1
                                     ELSE Cardinality(Connected)
  BY <1>2, FS_RemoveElement
<1>4. count' = IF a \in Connected THEN count - 1 ELSE count
  BY DEF Removes, Disconnect, Connected
<1>5. Cardinality(Connected \ {a}) \in Nat
  BY ConnectedFinite DEF Connected
<1>6. count' \in Nat /\ count' >= Cardinality(Connected \ {a})
  BY <1>2, <1>3, <1>4, <1>5 DEF Counted
<1> QED BY <1>1, <1>6 DEF Counted

LEMMA PutsInCounted ==
    ASSUME Typed, Counted, NEW a \in Accounts, PutsIn(a)
    PROVE  Counted'
<1>1. Connected' = Connected \cup {a}
  BY DEF Typed, PutsIn, Connected
<1>2. IsFiniteSet(Connected) /\ Cardinality(Connected) \in Nat
  BY ConnectedFinite DEF Connected
<1>3. Cardinality(Connected \cup {a}) = IF a \in Connected THEN Cardinality(Connected)
                                        ELSE Cardinality(Connected) + 1
  BY <1>2, FS_AddElement
<1>4. count' \in Nat /\ count' >= Cardinality(Connected \cup {a})
  BY <1>2, <1>3 DEF Counted, PutsIn
<1> QED BY <1>1, <1>4 DEF Counted

LEMMA NextCounted == ASSUME Shape, Counted, [Next]_vars PROVE Counted'
<1>1. Typed
  BY DEF Shape
<1>2. ASSUME NEW p \in Procs, Work(p) PROVE Counted'
  <2>1. CASE UNCHANGED <<pool, leaked, count>>
    BY <2>1 DEF Counted, Connected
  <2> QED BY <1>1, <1>2, <2>1, WorkPool, RemovesCounted, PutsInCounted
<1>3. ASSUME NEW a \in Accounts, Message(a) \/ GoSilent(a) \/ ClientStops(a) PROVE Counted'
  <2>1. count' = count
    BY <1>3 DEF Message, GoSilent, ClientStops
  <2>2. \A b \in Accounts : pool'[b] = "none" <=> pool[b] = "none"
    BY <1>1, <1>3 DEF Message, GoSilent, ClientStops, Typed, Open
  <2>3. Connected' = Connected
    BY <2>2 DEF Connected
  <2> QED BY <2>1, <2>3 DEF Counted
<1>4. CASE StopClients
  <2>1. count' = count /\ Connected' = Connected
    BY <1>4 DEF StopClients, Connected
  <2> QED BY <2>1 DEF Counted
<1>5. CASE ResetPool
  <2>1. count' = 0 /\ Connected' = {}
    BY <1>5 DEF ResetPool, Connected
  <2> QED BY <2>1, FS_EmptySet DEF Counted
<1>6. ASSUME UNCHANGED <<pool, count>> PROVE Counted'
  BY <1>6 DEF Counted, Connected
<1>7. ASSUME NEW a \in Accounts, UserCall(a) \/ Expire(a) PROVE UNCHANGED <<pool, count>>
  BY <1>7 DEF UserCall, Expire
<1> QED BY <1>2, <1>3, <1>4, <1>5, <1>6, <1>7 DEF Next, Stop, Cancel, vars

-----------------------------------------------------------------------------
(* Leaked connections.                                                     *)

LEMMA InitLeaks == Init => Leaks
<1> SUFFICES ASSUME Init PROVE Leaks
  OBVIOUS
<1>1. \A p \in {"recon", "health"} : proc[p].pc = "idle" /\ proc[p].todo = {}
  BY DEF Init, Idle, Pass, At, Procs, Managers
<1>2. ReconSafe /\ HealthSafe
  BY <1>1 DEF ReconSafe, HealthSafe, Opening
<1> QED BY <1>2 DEF Init, Leaks, LeaksNeedReconnect, PoolMarks

(* Accounts that are free stay so, unless a client is put in the map for   *)
(* one that never went silent.                                             *)
LEMMA RemovesFrees ==
    ASSUME Typed, NEW a \in Accounts, Removes(a), silenced' = silenced
    PROVE  \A b \in Accounts : Free(b) => Free(b)'
BY DEF Typed, Removes, Disconnect, Free, Open

LEMMA PutsInFrees ==
    ASSUME Typed, NEW a \in Accounts, PutsIn(a), silenced' = silenced
    PROVE  \A b \in Accounts : Free(b) /\ (b # a \/ a \in silenced) => Free(b)'
BY DEF Typed, PutsIn, Free, Open

(* The reconciliation comes to free accounts only: it compares the rows    *)
(* with the map, and takes each account out of its list.                   *)
LEMMA ReconMoves ==
    ASSUME Shape, Moves("recon"), mode' = mode,
           proc["recon"].pc # "pool" => \A a \in proc["recon"].todo : Free(a),
           proc["recon"].pc \in Opening =>
               Free(proc["recon"].of) /\ proc["recon"].of \notin proc["recon"].todo
    PROVE  /\ proc'["recon"].pc # "pool" => \A a \in proc'["recon"].todo : Free(a)
           /\ proc'["recon"].pc \in Opening =>
                  Free(proc'["recon"].of) /\ proc'["recon"].of \notin proc'["recon"].todo
<1> DEFINE p == "recon"
<1>1. ShapeOf(p) /\ proc[p] \in ProcType /\ p \in Procs
  BY DEF Shape, Typed, Procs, Managers
<1>2. CASE Drops(p)
  BY <1>2 DEF Drops, Opening
<1>3. CASE Lists(p)
  BY <1>3 DEF Lists, Opening
<1>4. CASE Narrows(p)
  BY <1>4 DEF Narrows, Opening, Free, Open
<1>5. CASE Takes(p)
  BY <1>5 DEF Takes, Opening
<1>6. CASE Proceeds(p)
  <2>1. proc[p].pc \in Opening
    BY <1>1, <1>6 DEF Proceeds, ShapeOf, Places, Between, Opening
  <2>2. proc'[p].pc # "pool" /\ proc'[p].of = proc[p].of /\ proc'[p].todo = proc[p].todo
    BY <1>6 DEF Proceeds, Stays, Between
  <2>3. proc[p].pc # "pool"
    BY <2>1 DEF Opening
  <2> QED BY <2>1, <2>2, <2>3
<1> QED BY <1>2, <1>3, <1>4, <1>5, <1>6 DEF Moves

(* The health check comes to accounts that went silent only.               *)
LEMMA HealthMoves ==
    ASSUME Shape, HealthSafe, PoolMarks, Moves("health"), silenced' = silenced
    PROVE  HealthSafe'
<1> DEFINE p == "health"
<1>1. ShapeOf(p) /\ proc[p] \in ProcType /\ p \in Procs
  BY DEF Shape, Typed, Procs, Managers
<1>2. CASE Drops(p) \/ Lists(p) \/ Narrows(p)
  BY <1>2 DEF Drops, Lists, Narrows, HealthSafe, Opening
<1>3. CASE Takes(p)
  <2>1. proc'[p].of \in proc[p].todo /\ pool[proc'[p].of] \in {"silent", "ended"}
    BY <1>3 DEF Takes
  <2>2. Running /\ proc'[p].of \in Accounts
    BY <1>1, <2>1 DEF ShapeOf, ProcType
  <2>3. proc'[p].of \in silenced
    BY <2>1, <2>2 DEF PoolMarks
  <2> QED BY <2>3 DEF HealthSafe
<1>4. CASE Proceeds(p)
  <2>1. proc[p].pc \in Opening \cup {"reconnect", "load"}
    BY <1>1, <1>4 DEF Proceeds, ShapeOf, Places, Between, Opening
  <2> QED BY <1>4, <2>1 DEF Proceeds, Stays, HealthSafe
<1> QED BY <1>2, <1>3, <1>4 DEF Moves

LEMMA WorkLeaks == ASSUME Shape, Leaks, NEW p \in Procs, Work(p) PROVE Leaks'
<1>1. Typed /\ mode' = mode /\ silenced' = silenced
  BY WorkKeeps DEF Shape
<1> DEFINE Entry == proc[p].of
<1>2. LeaksNeedReconnect'
  <2>1. CASE UNCHANGED leaked
    BY <1>1, <2>1 DEF Leaks, LeaksNeedReconnect
  <2>2. CASE /\ p \in {"recon", "health"} /\ proc[p].pc = "dial" /\ Entry \in Accounts
             /\ PutsIn(Entry)
    <3>1. Open(Entry) => Entry \in silenced
      BY <2>2 DEF Leaks, ReconSafe, HealthSafe, Opening, Free
    <3> QED BY <1>1, <2>2, <3>1 DEF PutsIn, Leaks, LeaksNeedReconnect, Typed
  <2> QED BY <2>1, <2>2, WorkPool DEF Removes
<1>3. PoolMarks'
  <2>1. \A a \in Accounts : pool'[a] \in {pool[a], "none", "fresh"}
    BY <1>1, WorkPool DEF Removes, Disconnect, PutsIn, Typed
  <2> QED BY <1>1, <2>1 DEF Leaks, PoolMarks, Running
<1>4. HealthSafe'
  <2>1. CASE p = "health"
    BY <1>1, <2>1, WorkMoves, HealthMoves DEF Leaks, HealthSafe, Work, ListActive
  <2>2. CASE p # "health"
    <3>1. proc'["health"] = proc["health"]
      BY <2>2, WorkMoves DEF Moves, OthersStay, Procs, Managers
    <3> QED BY <1>1, <3>1 DEF Leaks, HealthSafe
  <2> QED BY <2>1, <2>2
<1>5. ReconSafe'
  <2> DEFINE Now(q) == /\ q.pc # "pool" => \A a \in q.todo : Free(a)
                       /\ q.pc \in Opening => Free(q.of) /\ q.of \notin q.todo
  <2>1. Now(proc'["recon"])
    <3>1. Now(proc["recon"])
      BY DEF Leaks, ReconSafe
    <3>2. CASE p = "recon" /\ Moves(p)
      BY <1>1, <3>1, <3>2, ReconMoves
    <3>3. CASE p # "recon" \/ UNCHANGED proc
      <4>1. proc'["recon"] = proc["recon"]
        BY <3>3, WorkMoves DEF Moves, OthersStay, Procs, Managers
      <4> QED BY <3>1, <4>1
    <3> QED BY <3>2, <3>3, WorkMoves
  <2>2. proc'["recon"] \in ProcType /\ ShapeOf("recon")'
    BY WorkShape DEF Shape, Typed, Procs, Managers
  <2>3. proc'["recon"].pc \in Opening => proc'["recon"].of \in Accounts
    BY <2>2 DEF ShapeOf, Between, Opening
  <2>4. proc'["recon"].todo \subseteq Accounts
    BY <2>2 DEF ProcType
  <2>5. CASE \A b \in Accounts : Free(b) => Free(b)'
    BY <2>1, <2>3, <2>4, <2>5 DEF ReconSafe
  <2>6. CASE p = "health" /\ proc[p].pc = "dial" /\ Entry \in Accounts /\ PutsIn(Entry)
    <3>1. Entry \in silenced
      BY <2>6 DEF Leaks, HealthSafe, Opening
    <3> QED BY <1>1, <2>5, <2>6, <3>1, PutsInFrees
  <2>7. CASE p = "recon" /\ proc[p].pc = "dial" /\ Entry \in Accounts /\ PutsIn(Entry) /\ GoOn(p)
    <3>1. proc'[p].pc = "next" /\ proc'[p].todo = proc[p].todo
      BY <1>1, <2>7, GoOnIs DEF Procs, Managers
    <3>2. Entry \notin proc[p].todo
      BY <2>7 DEF Leaks, ReconSafe, Opening
    <3>3. \A b \in proc'[p].todo : Free(b) /\ b # Entry /\ b \in Accounts
      BY <2>1, <2>4, <2>7, <3>1, <3>2
    <3>4. \A b \in proc'[p].todo : Free(b)'
      BY <1>1, <2>7, <3>3, PutsInFrees
    <3> QED BY <2>7, <3>1, <3>4 DEF ReconSafe, Opening
  <2>8. ASSUME NEW a \in Accounts, Removes(a) PROVE \A b \in Accounts : Free(b) => Free(b)'
    BY <1>1, <2>8, RemovesFrees
  <2>9. ASSUME UNCHANGED <<pool, leaked, count>> PROVE \A b \in Accounts : Free(b) => Free(b)'
    BY <1>1, <2>9 DEF Free, Open
  <2> HIDE DEF Now, Entry
  <2> QED BY <2>5, <2>6, <2>7, <2>8, <2>9, WorkPool DEF Entry
<1> QED BY <1>2, <1>3, <1>4, <1>5 DEF Leaks

LEMMA OtherLeaks ==
    ASSUME Shape, Leaks,
           \/ \E a \in Accounts : \/ UserCall(a) \/ Message(a) \/ GoSilent(a) \/ Expire(a)
                                  \/ ClientStops(a)
           \/ Cancel \/ Stop
    PROVE  Leaks'
<1>1. Typed
  BY DEF Shape
<1>2. silenced \subseteq silenced' /\ (mode = "stopped" => mode' = "stopped")
      /\ (~Running => ~Running')
  BY DEF UserCall, Message, GoSilent, Expire, ClientStops, Cancel, Stop, StopClients, ResetPool, Running
<1>3. LeaksNeedReconnect'
  <2>1. CASE ResetPool
    BY <2>1 DEF ResetPool, LeaksNeedReconnect
  <2>2. CASE ~ResetPool
    <3>1. \A a \in Accounts : leaked'[a] <= leaked[a]
      <4>1. ASSUME NEW b \in Accounts, leaked' = [leaked EXCEPT ![b] = @ - 1]
            PROVE  \A a \in Accounts : leaked'[a] <= leaked[a]
        BY <1>1, <4>1 DEF Typed
      <4>2. CASE leaked' = leaked
        BY <1>1, <4>2 DEF Typed
      <4>3. leaked' = leaked \/ \E b \in Accounts : leaked' = [leaked EXCEPT ![b] = @ - 1]
        BY <2>2 DEF UserCall, Message, GoSilent, Expire, ClientStops, Cancel, Stop, StopClients
      <4> QED BY <4>1, <4>2, <4>3
    <3>2. \A a \in Accounts : leaked'[a] \in Nat /\ leaked[a] \in Nat
      BY NextShape DEF Next, Shape, Typed
    <3>3. \A a \in Accounts : leaked'[a] > 0 => leaked[a] > 0
      BY <3>1, <3>2
    <3> QED BY <1>2, <3>3 DEF Leaks, LeaksNeedReconnect
  <2> QED BY <2>1, <2>2
<1>4. PoolMarks'
  <2>1. ASSUME NEW a \in Accounts
        PROVE  /\ pool'[a] = "silent" => a \in silenced'
               /\ pool'[a] = "ended" => ~Running'
    <3>1. \/ pool'[a] \in {pool[a], "none", "live", "mute"}
          \/ pool'[a] = "silent" /\ a \in silenced'
          \/ pool'[a] = "ended" /\ ~Running'
      BY <1>1 DEF UserCall, Message, GoSilent, Expire, ClientStops, Cancel, Stop, StopClients,
         ResetPool, Running, Typed
    <3> QED BY <1>2, <3>1 DEF Leaks, PoolMarks
  <2> QED BY <2>1 DEF PoolMarks
<1>5. \A a \in Accounts : Free(a) => Free(a)'
  BY <1>1 DEF UserCall, Message, GoSilent, Expire, ClientStops, Cancel, Stop, StopClients, ResetPool,
     Typed, Free, Open
<1>6. \A q \in {"recon", "health"} :
          \/ proc'[q].pc = "idle" /\ proc'[q].todo = {}
          \/ /\ proc'[q].pc = proc[q].pc /\ proc'[q].of = proc[q].of
             /\ proc'[q].todo \subseteq proc[q].todo
  <2> SUFFICES ASSUME NEW q \in {"recon", "health"}
               PROVE  \/ proc'[q].pc = "idle" /\ proc'[q].todo = {}
                      \/ /\ proc'[q].pc = proc[q].pc /\ proc'[q].of = proc[q].of
                         /\ proc'[q].todo \subseteq proc[q].todo
    OBVIOUS
  <2>1. q \in Procs /\ proc[q] \in ProcType
    BY <1>1 DEF Procs, Managers, Typed
  <2>2. CASE Cancel
    BY <2>1, <2>2, InterruptedIs DEF Cancel
  <2>3. ASSUME NEW a \in Accounts, Expire(a)
        PROVE  proc'[q].pc = proc[q].pc /\ proc'[q].of = proc[q].of /\ proc'[q].todo = proc[q].todo
    BY <2>1, <2>3 DEF Expire, ProcType
  <2>4. ASSUME NEW a \in Accounts, UserCall(a) PROVE proc'[q] = proc[q]
    BY <1>1, <2>1, <2>4 DEF UserCall, Typed
  <2>5. ASSUME ~Cancel, ~ \E a \in Accounts : Expire(a) \/ UserCall(a) PROVE proc' = proc
    BY <2>5 DEF Message, GoSilent, ClientStops, Stop, StopClients, ResetPool
  <2> QED BY <2>2, <2>3, <2>4, <2>5
<1>7. ReconSafe'
  <2>1. proc["recon"].todo \subseteq Accounts
        /\ (proc["recon"].pc \in Opening => proc["recon"].of \in Accounts)
    BY DEF Shape, Typed, ProcType, ShapeOf, Between, Opening, Procs, Managers
  <2> QED BY <1>5, <1>6, <2>1 DEF Leaks, ReconSafe, Opening
<1>8. HealthSafe'
  BY <1>2, <1>6 DEF Leaks, HealthSafe, Opening
<1> QED BY <1>3, <1>4, <1>7, <1>8 DEF Leaks

-----------------------------------------------------------------------------
LEMMA NextInv == ASSUME IInv, [Next]_vars PROVE IInv'
<1>1. Shape' /\ Counted'
  BY NextShape, NextCounted DEF IInv
<1>2. Leaks'
  <2>1. CASE UNCHANGED vars
    BY <2>1 DEF vars, IInv, Leaks, LeaksNeedReconnect, ReconSafe, HealthSafe, PoolMarks, Free, Open,
       Running
  <2> QED BY <2>1, WorkLeaks, OtherLeaks DEF IInv, Next
<1> QED BY <1>1, <1>2 DEF IInv

LEMMA InvHolds == Spec => []IInv
<1>1. Init => IInv
  BY InitShape, InitCounted, InitLeaks DEF IInv
<1> QED BY <1>1, NextInv, PTL DEF Spec

(* Every variable keeps its type; in particular activeConnections never    *)
(* becomes negative, whatever passes overlap.                              *)
THEOREM TypeCorrect == Spec => []TypeOK
<1>1. IInv => TypeOK
  BY DEF IInv, Shape, Typed, Counted, TypeOK, ProcType
<1> QED BY <1>1, InvHolds, PTL

(* The map loses an open connection of an account only after one of its    *)
(* connections went silent, or to a Stop that runs meanwhile.              *)
THEOREM LeaksAreReconnects == Spec => []LeaksNeedReconnect
<1>1. IInv => LeaksNeedReconnect
  BY DEF IInv, Leaks
<1> QED BY <1>1, InvHolds, PTL

(* A deactivated account becomes active again only by a call that a user   *)
(* made, or one that holds a copy of the row from before.                  *)
THEOREM DeactivatedStays == Spec => StaysDeactivated
<1> DEFINE Stays1 == \A a \in Accounts :
                         (row[a].active # "yes" /\ ~Activating(a)) => row'[a].active # "yes"
<1>1. IInv /\ [Next]_vars => Stays1
  <2> SUFFICES ASSUME IInv, [Next]_vars, NEW a \in Accounts, row[a].active # "yes", ~Activating(a)
               PROVE  row'[a].active # "yes"
    OBVIOUS
  <2>1. Typed /\ \A p \in Procs : ShapeOf(p)
    BY DEF IInv, Shape
  <2>2. ASSUME NEW p \in Procs, Put(p) PROVE row'[a].active # "yes"
    <3>1. CASE row' = [row EXCEPT ![proc[p].of] = Result(proc[p].op, proc[p].copy)] /\ proc[p].of = a
      <4>1. proc[p].pc = "put" /\ proc[p].op \in OpsOf(p)
        BY <2>1, <2>2 DEF Put, ShapeOf
      <4>2. /\ proc[p].op # "activate"
            /\ proc[p].op \in {"save", "extend", "edit"} => proc[p].copy.active # "yes"
        BY <3>1, <4>1 DEF Activating
      <4>3. Result(proc[p].op, proc[p].copy).active # "yes"
        BY <4>1, <4>2 DEF Result, Row, OpsOf, Procs, Managers
      <4> QED BY <2>1, <3>1, <4>3 DEF Typed
    <3>2. CASE row'[a] = row[a]
      BY <3>2
    <3> QED BY <2>1, <2>2, <3>1, <3>2 DEF Put, Typed
  <2>3. ASSUME NEW b \in Accounts, UserCall(b) \/ Expire(b) PROVE row'[a].active # "yes"
    <3>1. CASE row' = row
      BY <3>1
    <3>2. CASE row' = [row EXCEPT ![b] = NoRow]
      BY <2>1, <3>2 DEF Typed, NoRow, Row
    <3>3. CASE row' = [row EXCEPT ![b].key = "expired"]
      BY <2>1, <3>3 DEF Typed, RowType
    <3> QED BY <2>3, <3>1, <3>2, <3>3 DEF UserCall, Expire
  <2>4. CASE row' = row
    BY <2>4
  <2>5. \/ \E p \in Procs : Put(p)
        \/ \E b \in Accounts : UserCall(b) \/ Expire(b)
        \/ row' = row
    BY DEF Next, Work, ListActive, ComparePool, RemoveAccount, Reconnect, Load, RenewListenKey,
       ListPool, Take, EndPass, EnsureListenKey, Connect, Get, Message, GoSilent, Cancel, Stop,
       StopClients, ResetPool, ClientStops, vars
  <2> QED BY <2>2, <2>3, <2>4, <2>5
<1> QED BY <1>1, InvHolds, PTL DEF Spec, StaysDeactivated
=============================================================================
