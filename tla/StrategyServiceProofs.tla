------------------------ MODULE StrategyServiceProofs ------------------------
(***************************************************************************)
(* Safety of StrategyService for every set of calls, strategies, amounts   *)
(* and connections.                                                        *)
(***************************************************************************)
EXTENDS StrategyService, FiniteSetTheorems, WellFoundedInduction, TLAPS

(* A call that runs works on a strategy, a cash operation moves a positive *)
(* amount, an allocation is only written after its copy of the row covered *)
(* it, and what a status change is written from is what it requires.       *)
Shaped(r) ==
    /\ r.pc # "new" => r.of \in Strategies /\ r.op \in CashOps \cup RowOps
    /\ r.op \in CashOps => r.amount \in Amounts
    /\ r.pc \in {"begin", "book", "commit"} => r.op \in CashOps
    /\ r.pc = "reread" => r.op = "close"
    /\ (r.pc = "write" /\ r.op = "allocate") => r.amount <= r.sawCash
    /\ r.op = "create" => r.sawStatus = "none" /\ r.pc # "get"
    /\ (r.pc = "write" /\ r.op \in {"pause", "resume"}) => r.sawStatus # "closed"

CallShape == \A c \in Calls : Shaped(call[c])

IInv == TypeOK /\ CallShape

-----------------------------------------------------------------------------
(* A step of one call c that replaces its record by r and leaves the rest  *)
(* well typed.                                                             *)
LEMMA OneCall ==
    ASSUME IInv, NEW c \in Calls, NEW r \in CallState, Shaped(r),
           call' = [call EXCEPT ![c] = r],
           status' \in [Strategies -> Statuses \cup {"none"}],
           cash' \in [Strategies -> Nat],
           booked' \in [Strategies -> Int],
           held' \subseteq Calls,
           disturbed' \subseteq Strategies,
           failures' \in Nat
    PROVE  IInv'
<1>1. call' \in [Calls -> CallState]
  BY DEF IInv, TypeOK
<1>2. \A d \in Calls : Shaped(call'[d])
  BY DEF IInv, TypeOK, CallShape
<1> QED BY <1>1, <1>2 DEF IInv, TypeOK, CallShape

(* The record of a call that only moves to another point of its operation. *)
LEMMA Moved ==
    ASSUME IInv, NEW c \in Calls, NEW pc \in Pcs, MoveTo(c, pc)
    PROVE  LET r == [call[c] EXCEPT !.pc = pc]
           IN  /\ r \in CallState
               /\ call' = [call EXCEPT ![c] = r]
               /\ r.pc = pc /\ r.op = call[c].op /\ r.of = call[c].of
               /\ r.amount = call[c].amount
               /\ r.sawStatus = call[c].sawStatus /\ r.sawCash = call[c].sawCash
<1>1. call[c] \in CallState
  BY DEF IInv, TypeOK
<1> QED BY <1>1 DEF MoveTo, CallState

LEMMA InitInv == Init => IInv
<1> SUFFICES ASSUME Init PROVE IInv
  OBVIOUS
<1>1. NewCall \in CallState
  BY DEF NewCall, Fresh, CallState, Pcs
<1>2. TypeOK
  BY <1>1, ConstantsAssumption DEF Init, TypeOK
<1>3. Shaped(NewCall)
  BY DEF Shaped, NewCall, Fresh, CashOps
<1> QED BY <1>2, <1>3 DEF Init, IInv, CallShape

(* The record of a call that starts.                                       *)
LEMMA StartedShape ==
    ASSUME NEW op \in CashOps \cup RowOps, NEW of \in Strategies, NEW a \in Amounts \cup {0},
           NEW pc \in {"begin", "get"},
           pc = "begin" <=> op \in CashOps,
           op \in CashOps => a \in Amounts
    PROVE  Fresh(pc, op, of, a) \in CallState /\ Shaped(Fresh(pc, op, of, a))
BY DEF Fresh, CallState, Pcs, Shaped, CashOps

LEMMA StartInv ==
    ASSUME IInv, NEW c \in Calls, Start(c)
    PROVE  IInv'
<1>1. UNCHANGED <<status, cash, booked, held, disturbed, failures>>
  BY DEF Start
<1>2. ASSUME NEW s \in Strategies, NEW op \in CashOps, NEW a \in Amounts,
             call' = [call EXCEPT ![c] = Fresh("begin", op, s, a)]
      PROVE  IInv'
  <2>1. Fresh("begin", op, s, a) \in CallState /\ Shaped(Fresh("begin", op, s, a))
    BY StartedShape
  <2> QED BY <1>1, <1>2, <2>1, OneCall DEF IInv, TypeOK
<1>3. ASSUME NEW s \in Strategies, NEW op \in RowOps,
             call' = [call EXCEPT ![c] = Fresh("get", op, s, 0)]
      PROVE  IInv'
  <2>1. op \notin CashOps
    BY DEF CashOps, RowOps
  <2>2. Fresh("get", op, s, 0) \in CallState /\ Shaped(Fresh("get", op, s, 0))
    BY <2>1, StartedShape
  <2> QED BY <1>1, <1>3, <2>2, OneCall DEF IInv, TypeOK
<1> QED BY <1>2, <1>3 DEF Start

(* The steps that only move the call on: what its new place requires of    *)
(* its record is what its old place gave.                                  *)
LEMMA MoveInv ==
    ASSUME IInv, NEW c \in Calls, NEW pc \in Pcs \ {"new", "reread"}, MoveTo(c, pc),
           call[c].pc # "new",
           pc \in {"begin", "book", "commit"} => call[c].op \in CashOps,
           pc = "write" => call[c].op = "create",
           pc = "get" => call[c].op # "create",
           status' \in [Strategies -> Statuses \cup {"none"}],
           cash' \in [Strategies -> Nat],
           booked' \in [Strategies -> Int],
           held' \subseteq Calls,
           disturbed' \subseteq Strategies,
           failures' \in Nat
    PROVE  IInv'
<1> DEFINE r == [call[c] EXCEPT !.pc = pc]
<1>1. /\ r \in CallState
      /\ call' = [call EXCEPT ![c] = r]
      /\ r.pc = pc /\ r.op = call[c].op /\ r.of = call[c].of
      /\ r.amount = call[c].amount
      /\ r.sawStatus = call[c].sawStatus /\ r.sawCash = call[c].sawCash
  BY Moved
<1>2. Shaped(call[c])
  BY DEF IInv, CallShape
<1> HIDE DEF r
<1>3. Shaped(r)
  BY <1>1, <1>2 DEF Shaped
<1> QED BY <1>1, <1>3, OneCall

(* Reading the row: the copy is of a row that exists, and admits the call. *)
LEMMA ReadInv ==
    ASSUME IInv, NEW c \in Calls, Get(c) \/ Reread(c)
    PROVE  IInv'
<1>1. /\ UNCHANGED <<status, cash, booked, disturbed, failures>>
      /\ held' \subseteq Calls
      /\ call[c] \in CallState /\ Shaped(call[c])
      /\ call[c].pc \in {"get", "reread"}
      /\ call[c].of \in Strategies
  BY DEF Get, Reread, IInv, TypeOK, CallShape, Shaped
<1>2. CASE MoveTo(c, "failed")
  BY <1>1, <1>2, MoveInv DEF IInv, TypeOK, Pcs
<1>3. ASSUME NEW pc \in {"reread", "write"},
             call' = [call EXCEPT ![c].pc = pc,
                                  ![c].sawStatus = status[call[c].of],
                                  ![c].sawCash = cash[call[c].of]],
             pc = "reread" => call[c].op = "close",
             call[c].op \in {"pause", "resume"} => status[call[c].of] # "closed",
             call[c].op = "allocate" => call[c].amount <= cash[call[c].of]
      PROVE  IInv'
  <2> DEFINE r == [call[c] EXCEPT !.pc = pc, !.sawStatus = status[call[c].of],
                                  !.sawCash = cash[call[c].of]]
  <2>1. call' = [call EXCEPT ![c] = r]
    BY <1>3 DEF IInv, TypeOK
  <2>2. /\ r \in CallState
        /\ r.pc = pc /\ r.op = call[c].op /\ r.of = call[c].of
        /\ r.amount = call[c].amount
        /\ r.sawStatus = status[call[c].of] /\ r.sawCash = cash[call[c].of]
    BY <1>1 DEF CallState, IInv, TypeOK, Pcs
  <2> HIDE DEF r
  <2>3. call[c].op # "create"
    BY <1>1 DEF Shaped
  <2>4. Shaped(r)
    BY <1>1, <1>3, <2>2, <2>3 DEF Shaped
  <2> QED BY <1>1, <2>1, <2>2, <2>4, OneCall DEF IInv, TypeOK
<1>4. CASE Get(c)
  <2>1. CASE ~(status[call[c].of] # "none" /\ Admits(c, call[c].of))
    BY <1>2, <1>4, <2>1 DEF Get
  <2>2. CASE status[call[c].of] # "none" /\ Admits(c, call[c].of)
    <3>1. /\ call[c].op \in {"pause", "resume"} => status[call[c].of] # "closed"
          /\ call[c].op = "allocate" => call[c].amount <= cash[call[c].of]
      BY <1>1, <2>2 DEF Admits, IInv, TypeOK, CallState
    <3>2. PICK pc \in {"reread", "write"} :
              /\ call' = [call EXCEPT ![c].pc = pc,
                                      ![c].sawStatus = status[call[c].of],
                                      ![c].sawCash = cash[call[c].of]]
              /\ pc = "reread" => call[c].op = "close"
      BY <1>4, <2>2 DEF Get, IInv, TypeOK
    <3> QED BY <1>3, <3>1, <3>2
  <2> QED BY <2>1, <2>2
<1>5. CASE Reread(c)
  <2>1. call[c].op = "close"
    BY <1>1, <1>5 DEF Reread, Shaped
  <2>2. call' = [call EXCEPT ![c].pc = "write",
                             ![c].sawStatus = status[call[c].of],
                             ![c].sawCash = cash[call[c].of]]
    BY <1>5 DEF Reread
  <2> QED BY <1>3, <2>1, <2>2
<1> QED BY <1>4, <1>5

(* Writing the row: an allocation leaves no less than nothing, and the     *)
(* row stays well typed.                                                   *)
LEMMA Written ==
    ASSUME IInv, NEW c \in Calls, call[c].pc = "write"
    PROVE  /\ call[c].of \in Strategies
           /\ NewStatus(c) \in Statuses \cup {"none"}
           /\ NewCash(c) \in Nat
<1>1. /\ call[c] \in CallState /\ Shaped(call[c])
      /\ call[c].of \in Strategies /\ call[c].op \in CashOps \cup RowOps
  BY DEF IInv, TypeOK, CallShape, Shaped
<1>2. NewStatus(c) \in Statuses \cup {"none"}
  BY <1>1 DEF NewStatus, Statuses, IInv, TypeOK, CallState
<1>3. /\ call[c].sawCash \in Nat
      /\ cash[call[c].of] \in Nat
      /\ call[c].op \in CashOps => call[c].amount \in Nat
      /\ call[c].op = "allocate" => call[c].amount <= call[c].sawCash
  BY <1>1, ConstantsAssumption DEF Shaped, CallState, CashOps, IInv, TypeOK
<1>4. NewCash(c) \in Nat
  BY <1>3 DEF NewCash, CashOps
<1> QED BY <1>1, <1>2, <1>4

LEMMA WriteInv ==
    ASSUME IInv, NEW c \in Calls, Write(c)
    PROVE  IInv'
<1>1. /\ call[c].of \in Strategies
      /\ NewStatus(c) \in Statuses \cup {"none"}
      /\ NewCash(c) \in Nat
  BY Written DEF Write
<1>2. /\ status' \in [Strategies -> Statuses \cup {"none"}]
      /\ cash' \in [Strategies -> Nat]
      /\ UNCHANGED <<booked, held, failures>>
  BY <1>1 DEF Write, IInv, TypeOK
<1>3. disturbed' \subseteq Strategies
  BY <1>1 DEF Write, IInv, TypeOK
<1>4. CASE call[c].op \in CashOps /\ MoveTo(c, "book")
  BY <1>2, <1>3, <1>4, MoveInv DEF Write, IInv, TypeOK, Pcs
<1>5. CASE MoveTo(c, "done")
  BY <1>2, <1>3, <1>5, MoveInv DEF Write, IInv, TypeOK, Pcs
<1> QED BY <1>4, <1>5 DEF Write

(* The other steps of a call.                                              *)
LEMMA BeginInv ==
    ASSUME IInv, NEW c \in Calls, BeginTx(c)
    PROVE  IInv'
<1>1. Shaped(call[c])
  BY DEF IInv, CallShape
<1>2. CASE call[c].op = "create" /\ MoveTo(c, "write")
  BY <1>2, MoveInv DEF BeginTx, IInv, TypeOK, Pcs
<1>3. CASE call[c].op # "create" /\ MoveTo(c, "get")
  BY <1>3, MoveInv DEF BeginTx, IInv, TypeOK, Pcs
<1> QED BY <1>2, <1>3 DEF BeginTx

LEMMA BookInv ==
    ASSUME IInv, NEW c \in Calls, Book(c) \/ Commit(c)
    PROVE  IInv'
<1>0. call[c].pc \in {"book", "commit"} /\ Shaped(call[c])
  BY DEF Book, Commit, IInv, CallShape
<1>1. /\ call[c].of \in Strategies /\ call[c].op \in CashOps
      /\ call[c].amount \in Int
  <2>1. call[c].of \in Strategies /\ call[c].op \in CashOps /\ call[c].amount \in Amounts
    BY <1>0 DEF Shaped
  <2>2. \A a \in Amounts : a \in Int
    BY ConstantsAssumption
  <2> QED BY <2>1, <2>2
<1>2. CASE Book(c)
  <2>1. booked' \in [Strategies -> Int]
    BY <1>1, <1>2 DEF Book, Delta, IInv, TypeOK
  <2> QED BY <1>1, <1>2, <2>1, MoveInv DEF Book, IInv, TypeOK, Pcs
<1>3. CASE Commit(c)
  BY <1>3, MoveInv DEF Commit, IInv, TypeOK, Pcs
<1> QED BY <1>2, <1>3

LEMMA EndInv ==
    ASSUME IInv, NEW c \in Calls, QueryFails(c) \/ ContextEnds(c)
    PROVE  IInv'
<1>1. /\ UNCHANGED <<status, cash, booked>>
      /\ held' \subseteq Calls
  BY DEF QueryFails, ContextEnds, IInv, TypeOK
<1>2. failures' \in Nat
  BY DEF QueryFails, ContextEnds, Fail, IInv, TypeOK
<1>3. disturbed' \subseteq Strategies
  <2>1. call[c].pc = "book" => call[c].of \in Strategies
    BY DEF IInv, CallShape, Shaped
  <2>2. disturbed' = disturbed \/ Unrecorded(c)
    BY DEF QueryFails, ContextEnds
  <2> QED BY <2>1, <2>2 DEF Unrecorded, IInv, TypeOK
<1>4. CASE call' = call
  BY <1>1, <1>2, <1>3, <1>4 DEF IInv, TypeOK, CallShape
<1>5. CASE call[c].pc # "new" /\ MoveTo(c, "failed")
  BY <1>1, <1>2, <1>3, <1>5, MoveInv DEF IInv, TypeOK, Pcs
<1> QED BY <1>4, <1>5 DEF QueryFails, ContextEnds

LEMMA StepInv == IInv /\ [Next]_vars => IInv'
<1> SUFFICES ASSUME IInv, [Next]_vars PROVE IInv'
  OBVIOUS
<1>1. ASSUME NEW c \in Calls, Start(c) \/ Step(c) \/ QueryFails(c) \/ ContextEnds(c)
      PROVE  IInv'
  BY <1>1, StartInv, BeginInv, ReadInv, WriteInv, BookInv, EndInv DEF Step
<1>2. CASE UNCHANGED vars
  BY <1>2 DEF vars, IInv, TypeOK, CallShape
<1> QED BY <1>1, <1>2 DEF Next

-----------------------------------------------------------------------------
(* No interleaving of the operations, failing queries and ended contexts   *)
(* makes a cash_reserve negative or leaves a call in an unknown state.     *)
THEOREM TypeCorrect == Spec => []TypeOK
<1>1. IInv => TypeOK
  BY DEF IInv
<1> QED BY <1>1, InitInv, StepInv, PTL DEF Spec

(* A step that changes the status of a closed strategy is the write of a   *)
(* call that read it when it was not closed.                               *)
LEMMA ClosedStep ==
    ASSUME IInv, [Next]_vars, NEW s \in Strategies,
           status[s] = "closed", \A c \in Calls : ~Stale(c, s)
    PROVE  status'[s] = "closed"
<1>1. ASSUME NEW c \in Calls, Write(c) PROVE status'[s] = "closed"
  <2>1. /\ status' = [status EXCEPT ![call[c].of] = NewStatus(c)]
        /\ call[c].pc = "write" /\ Shaped(call[c])
        /\ call[c].of \in Strategies /\ call[c].op \in CashOps \cup RowOps
    BY <1>1 DEF Write, IInv, CallShape, Shaped
  <2>2. CASE call[c].of # s
    BY <2>1, <2>2 DEF IInv, TypeOK
  <2>3. CASE call[c].of = s
    <3>1. call[c].sawStatus = "closed"
      BY <2>1, <2>3 DEF Stale
    <3>2. call[c].op \notin {"create", "pause", "resume"}
      BY <2>1, <3>1 DEF Shaped
    <3>3. NewStatus(c) = "closed"
      BY <2>1, <2>3, <3>1, <3>2 DEF NewStatus, CashOps, RowOps
    <3> QED BY <2>1, <2>3, <3>3 DEF IInv, TypeOK
  <2> QED BY <2>2, <2>3
<1>2. ASSUME NEW c \in Calls,
             Start(c) \/ Step(c) \/ QueryFails(c) \/ ContextEnds(c), ~Write(c)
      PROVE  status' = status
  BY <1>2 DEF Start, Step, BeginTx, Get, Reread, Book, Commit, QueryFails, ContextEnds
<1>3. CASE UNCHANGED vars
  BY <1>3 DEF vars
<1> QED BY <1>1, <1>2, <1>3 DEF Next

(* Once no call is about to write a copy it read before the strategy was   *)
(* closed, nothing reopens it: the checks at the entry of every operation  *)
(* are enough against everything but such copies.                          *)
THEOREM ClosedNotReopened == Spec => ClosedForGood
<1>1. IInv /\ [Next]_vars =>
        [\A s \in Strategies :
            (status[s] = "closed" /\ \A c \in Calls : ~Stale(c, s))
                => status'[s] = "closed"]_vars
  BY ClosedStep
<1> QED BY <1>1, InitInv, StepInv, PTL DEF Spec, ClosedForGood

-----------------------------------------------------------------------------
(* The ledger.  A call between its write and its entry owes the ledger its *)
(* amount; the balance is what is booked plus what all calls owe.  A sum   *)
(* over the calls is a value of a function that adds them up one by one.   *)

IsSum(f, d) ==
    /\ f \in [SUBSET Calls -> Int]
    /\ f[{}] = 0
    /\ \A S \in SUBSET Calls : \A c \in Calls \ S : f[S \cup {c}] = f[S] + d[c]

(* One summand changes, and the sum with it.                               *)
LEMMA SumChanges ==
    ASSUME NEW d \in [Calls -> Int], NEW f, IsSum(f, d), NEW c \in Calls,
           NEW e \in [Calls -> Int], \A x \in Calls : x # c => e[x] = d[x]
    PROVE  \E g : IsSum(g, e) /\ g[Calls] = f[Calls] + (e[c] - d[c])
<1> DEFINE g == [S \in SUBSET Calls |-> IF c \in S THEN f[S] + (e[c] - d[c]) ELSE f[S]]
<1>1. g \in [SUBSET Calls -> Int] /\ g[{}] = 0
  BY DEF IsSum
<1>2. ASSUME NEW S \in SUBSET Calls, NEW x \in Calls \ S
      PROVE  g[S \cup {x}] = g[S] + e[x]
  <2>1. S \cup {x} \in SUBSET Calls /\ f[S \cup {x}] = f[S] + d[x] /\ f[S] \in Int
    BY DEF IsSum
  <2>2. CASE x = c
    BY <2>1, <2>2
  <2>3. CASE x # c
    <3>1. e[x] = d[x] /\ (c \in S \cup {x} <=> c \in S)
      BY <2>3
    <3> QED BY <2>1, <3>1
  <2> QED BY <2>2, <2>3
<1>3. g[Calls] = f[Calls] + (e[c] - d[c])
  OBVIOUS
<1>4. IsSum(g, e)
  <2> HIDE DEF g
  <2> QED BY <1>1, <1>2 DEF IsSum
<1> QED BY <1>3, <1>4

(* A sum of nothing but zeros is zero: a smallest set of calls with        *)
(* another sum would have a smaller one.                                   *)
LEMMA SumOfZeros ==
    ASSUME NEW d \in [Calls -> Int], NEW f, IsSum(f, d), \A c \in Calls : d[c] = 0
    PROVE  f[Calls] = 0
<1> DEFINE sizes == {n \in Nat : \E S \in SUBSET Calls : Cardinality(S) = n /\ f[S] # 0}
<1>1. \A T \in SUBSET Nat : T # {} => \E x \in T : \A y \in T : ~(y < x)
  <2>1. \A T \in SUBSET Nat : T # {} =>
            \E x \in T : \A y \in T : ~(<<y, x>> \in OpToRel(<, Nat))
    BY NatLessThanWellFounded, WFMin
  <2> QED BY <2>1 DEF OpToRel
<1>2. ASSUME f[Calls] # 0 PROVE FALSE
  <2>1. \A S \in SUBSET Calls : IsFiniteSet(S) /\ Cardinality(S) \in Nat
    BY ConstantsAssumption, FS_Subset, FS_CardinalityType
  <2>2. sizes \in SUBSET Nat /\ sizes # {}
    BY <1>2, <2>1
  <2>3. PICK n \in sizes : \A m \in sizes : ~(m < n)
    BY <1>1, <2>2
  <2>4. PICK S \in SUBSET Calls : Cardinality(S) = n /\ f[S] # 0
    OBVIOUS
  <2>5. PICK c \in Calls : c \in S
    BY <2>4 DEF IsSum
  <2>6. f[S] = f[S \ {c}] + d[c]
    <3>1. S \ {c} \in SUBSET Calls /\ c \in Calls \ (S \ {c}) /\ (S \ {c}) \cup {c} = S
      BY <2>5
    <3> QED BY <3>1 DEF IsSum
  <2>7. f[S \ {c}] # 0
    BY <2>4, <2>6 DEF IsSum
  <2>8. Cardinality(S \ {c}) = n - 1 /\ n - 1 \in Nat
    <3>1. Cardinality(S \ {c}) = Cardinality(S) - 1
      BY <2>1, <2>5, FS_RemoveElement
    <3>2. Cardinality(S \ {c}) \in Nat
      BY <2>1
    <3> QED BY <2>4, <3>1, <3>2
  <2>9. n - 1 \in sizes
    BY <2>7, <2>8
  <2> QED BY <2>3, <2>8, <2>9
<1> QED BY <1>2

(* What the ledger lacks of each call, for a strategy s.                   *)
Owed(s) == [c \in Calls |-> IF call[c].pc = "book" /\ call[c].of = s THEN Delta(c) ELSE 0]

(* A strategy exists once the one call that creates it has written it, and *)
(* no other call gets beyond its read before.                              *)
CallSeesRow(c) ==
    /\ call[c].pc = "new" => call[c].op = "none"
    /\ call[c].op = "create" /\ call[c].pc \in {"begin", "write"} => status[call[c].of] = "none"
    /\ \/ call[c].pc \in {"reread", "book"}
       \/ call[c].pc = "write" /\ call[c].op # "create"
       => status[call[c].of] # "none"
    /\ call[c].pc = "write" /\ call[c].op # "create" => call[c].sawStatus # "none"

Creates(c, s) == call[c].op = "create" /\ call[c].of = s

RowsExist ==
    /\ \A c \in Calls : CallSeesRow(c)
    /\ \A s \in Strategies, c, d \in Calls : Creates(c, s) /\ Creates(d, s) => c = d
    /\ \A s \in Strategies : status[s] = "none" => cash[s] = 0 /\ booked[s] = 0
    /\ \A s \in Strategies : status[s] # "none" => \E c \in Calls : Creates(c, s)

(* The balance is what is booked and what is owed.                         *)
Balanced(s) == \E f : IsSum(f, Owed(s)) /\ cash[s] = booked[s] + f[Calls]

LedgerInv ==
    /\ IInv
    /\ RowsExist
    /\ \A s \in Strategies : s \notin disturbed => Balanced(s)

LEMMA OwedType ==
    ASSUME IInv, NEW s \in Strategies
    PROVE  /\ Owed(s) \in [Calls -> Int]
           /\ \A c \in Calls :
                  call[c].op \in CashOps => call[c].amount \in Nat /\ Delta(c) \in Int
<1>1. ASSUME NEW c \in Calls, call[c].op \in CashOps
      PROVE  call[c].amount \in Nat /\ Delta(c) \in Int
  <2>1. call[c].amount \in Nat
    BY <1>1, ConstantsAssumption DEF IInv, CallShape, Shaped
  <2> QED BY <2>1 DEF Delta
<1>2. \A c \in Calls : call[c].pc = "book" => call[c].op \in CashOps
  BY DEF IInv, CallShape, Shaped
<1> QED BY <1>1, <1>2 DEF Owed

LEMMA LedgerInit == Init => LedgerInv
<1> SUFFICES ASSUME Init PROVE LedgerInv
  OBVIOUS
<1>1. IInv
  BY InitInv
<1>2. \A c \in Calls : call[c].pc = "new" /\ call[c].op = "none"
  BY DEF Init, NewCall, Fresh
<1>3. RowsExist
  BY <1>2 DEF Init, RowsExist, CallSeesRow, Creates
<1>4. ASSUME NEW s \in Strategies PROVE Balanced(s)
  <2> DEFINE f == [S \in SUBSET Calls |-> 0]
  <2>1. \A c \in Calls : Owed(s)[c] = 0
    BY <1>2 DEF Owed
  <2>2. IsSum(f, Owed(s))
    BY <2>1 DEF IsSum
  <2>3. f[Calls] = 0 /\ cash[s] = 0 /\ booked[s] = 0
    BY DEF Init
  <2> HIDE DEF f
  <2> QED BY <2>2, <2>3 DEF Balanced
<1> QED BY <1>1, <1>3, <1>4 DEF LedgerInv

(* Whatever a step that is not a start does to a call, it works for the    *)
(* same strategy as before, and the other calls stay as they are.          *)
Continued(c) ==
    /\ \A d \in Calls : d # c => call'[d] = call[d]
    /\ call'[c].op = call[c].op /\ call'[c].of = call[c].of /\ call'[c].amount = call[c].amount

LEMMA StepsContinue ==
    ASSUME IInv, NEW c \in Calls, Step(c) \/ QueryFails(c) \/ ContextEnds(c)
    PROVE  Continued(c)
<1>1. call \in [Calls -> CallState]
  BY DEF IInv, TypeOK
<1>2. CASE \E pc \in Pcs : MoveTo(c, pc)
  BY <1>1, <1>2 DEF MoveTo, Continued, CallState
<1>3. CASE Reread(c)
  BY <1>1, <1>3 DEF Reread, Continued, CallState
<1>4. CASE Get(c)
  BY <1>1, <1>4 DEF Get, MoveTo, Continued, CallState
<1>5. CASE call' = call
  BY <1>5 DEF Continued
<1>6. CASE BeginTx(c) \/ Write(c) \/ Book(c) \/ Commit(c) \/ QueryFails(c) \/ ContextEnds(c)
  BY <1>2, <1>5, <1>6 DEF BeginTx, Write, Book, Commit, QueryFails, ContextEnds, Pcs
<1> QED BY <1>3, <1>4, <1>6 DEF Step

(* Where a call is after a step, and with which copy of the row.           *)
LEMMA StepsMove ==
    ASSUME IInv, NEW c \in Calls
    PROVE  /\ BeginTx(c) => call'[c].pc = IF call[c].op = "create" THEN "write" ELSE "get"
           /\ Get(c) \/ Reread(c) =>
                  \/ call'[c].pc = "failed"
                  \/ /\ call'[c].pc \in {"reread", "write"}
                     /\ call'[c].sawStatus = status[call[c].of]
                     /\ Reread(c) \/ status[call[c].of] # "none"
           /\ Write(c) => call'[c].pc = IF call[c].op \in CashOps THEN "book" ELSE "done"
           /\ Book(c) => call'[c].pc = "commit"
           /\ Commit(c) => call'[c].pc = "done"
           /\ QueryFails(c) => call'[c].pc = "failed"
           /\ ContextEnds(c) => call' = call \/ call'[c].pc = "failed"
<1>1. call \in [Calls -> CallState]
  BY DEF IInv, TypeOK
<1>2. \A pc \in Pcs : MoveTo(c, pc) => call'[c].pc = pc
  BY <1>1 DEF MoveTo, CallState
<1>3. Get(c) => \/ call'[c].pc = "failed"
                \/ /\ call'[c].pc \in {"reread", "write"}
                   /\ call'[c].sawStatus = status[call[c].of]
                   /\ status[call[c].of] # "none"
  BY <1>1 DEF Get, MoveTo, CallState
<1>4. Reread(c) => call'[c].pc = "write" /\ call'[c].sawStatus = status[call[c].of]
  BY <1>1 DEF Reread, CallState
<1>5. BeginTx(c) => call'[c].pc = IF call[c].op = "create" THEN "write" ELSE "get"
  BY <1>2 DEF BeginTx, Pcs
<1>6. Write(c) => call'[c].pc = IF call[c].op \in CashOps THEN "book" ELSE "done"
  BY <1>2 DEF Write, Pcs
<1>7. /\ Book(c) => call'[c].pc = "commit"
      /\ Commit(c) => call'[c].pc = "done"
      /\ QueryFails(c) => call'[c].pc = "failed"
      /\ ContextEnds(c) => call' = call \/ call'[c].pc = "failed"
  BY <1>2 DEF Book, Commit, QueryFails, ContextEnds, Pcs
<1> QED BY <1>3, <1>4, <1>5, <1>6, <1>7

-----------------------------------------------------------------------------
(* RowsExist is kept.                                                      *)

LEMMA StartRows ==
    ASSUME IInv, RowsExist, NEW c \in Calls, Start(c)
    PROVE  RowsExist'
<1>1. UNCHANGED <<status, cash, booked>> /\ call[c].pc = "new" /\ call \in [Calls -> CallState]
  BY DEF Start, IInv, TypeOK
<1>2. PICK s \in Strategies, op \in CashOps \cup RowOps, a \in Amounts \cup {0}, pc \in {"begin", "get"} :
          /\ op = "create" => \A d \in Calls : ~Creates(d, s)
          /\ call' = [call EXCEPT ![c] = Fresh(pc, op, s, a)]
  BY DEF Start, Creates, CashOps, RowOps
<1>3. /\ call'[c].pc = pc /\ call'[c].op = op /\ call'[c].of = s
      /\ \A d \in Calls : d # c => call'[d] = call[d]
  BY <1>1, <1>2 DEF Fresh
<1>4. call[c].op = "none"
  BY <1>1 DEF RowsExist, CallSeesRow
<1>5. \A d \in Calls, t \in Strategies :
          Creates(d, t)' <=> Creates(d, t) \/ (d = c /\ t = s /\ op = "create")
  BY <1>3, <1>4 DEF Creates
<1>6. op = "create" => status[s] = "none"
  BY <1>2 DEF RowsExist
<1>7. \A d \in Calls : CallSeesRow(d)'
  BY <1>1, <1>3, <1>6 DEF RowsExist, CallSeesRow
<1>8. \A t \in Strategies, d, e \in Calls : Creates(d, t)' /\ Creates(e, t)' => d = e
  BY <1>2, <1>5 DEF RowsExist
<1>9. \A t \in Strategies : status'[t] # "none" => \E d \in Calls : Creates(d, t)'
  BY <1>1, <1>5 DEF RowsExist
<1> QED BY <1>1, <1>7, <1>8, <1>9 DEF RowsExist

LEMMA WriteRows ==
    ASSUME IInv, RowsExist, NEW c \in Calls, Write(c)
    PROVE  RowsExist'
<1> DEFINE s == call[c].of
<1>1. /\ s \in Strategies /\ NewStatus(c) \in Statuses \cup {"none"}
      /\ call[c].pc = "write" /\ CallSeesRow(c) /\ Continued(c)
      /\ status' = [status EXCEPT ![s] = NewStatus(c)]
      /\ cash' = [cash EXCEPT ![s] = NewCash(c)] /\ booked' = booked
      /\ status \in [Strategies -> Statuses \cup {"none"}] /\ cash \in [Strategies -> Nat]
  BY Written, StepsContinue DEF Write, Step, RowsExist, IInv, TypeOK
<1>2. NewStatus(c) # "none"
  BY <1>1 DEF NewStatus, CallSeesRow
<1>3. /\ status'[s] # "none"
      /\ \A t \in Strategies : t # s => status'[t] = status[t] /\ cash'[t] = cash[t]
  BY <1>1, <1>2
<1>4. \A d \in Calls, t \in Strategies : Creates(d, t)' <=> Creates(d, t)
  BY <1>1 DEF Creates, Continued
<1>5. call'[c].pc \in {"book", "done"}
  BY StepsMove
<1>6. CallSeesRow(c)'
  BY <1>1, <1>3, <1>5 DEF CallSeesRow, Continued
<1>7. ASSUME NEW d \in Calls, d # c PROVE CallSeesRow(d)'
  <2>1. call'[d] = call[d] /\ CallSeesRow(d)
    BY <1>1, <1>7 DEF Continued, RowsExist
  <2>2. CASE call[d].of # s
    <3>1. call[d].pc = "new" \/ call[d].of \in Strategies
      BY DEF IInv, CallShape, Shaped
    <3> QED BY <1>3, <2>1, <2>2, <3>1 DEF CallSeesRow
  <2>3. CASE call[d].of = s
    <3>1. ~(call[d].op = "create" /\ call[d].pc \in {"begin", "write"})
      <4>1. ASSUME call[d].op = "create", call[d].pc \in {"begin", "write"} PROVE FALSE
        <5>1. status[s] = "none" /\ Creates(d, s)
          BY <2>1, <2>3, <4>1 DEF CallSeesRow, Creates
        <5>2. Creates(c, s)
          BY <1>1, <5>1 DEF CallSeesRow, Creates
        <5> QED BY <1>1, <1>7, <5>1, <5>2 DEF RowsExist
      <4> QED BY <4>1
    <3> QED BY <1>3, <2>1, <2>3, <3>1 DEF CallSeesRow
  <2> QED BY <2>2, <2>3
<1>8. \E d \in Calls : Creates(d, s)
  BY <1>1 DEF RowsExist, CallSeesRow, Creates
<1> HIDE DEF s
<1> QED BY <1>1, <1>3, <1>4, <1>6, <1>7, <1>8 DEF RowsExist

LEMMA OtherRows ==
    ASSUME IInv, RowsExist, NEW c \in Calls,
           Step(c) \/ QueryFails(c) \/ ContextEnds(c), ~Write(c)
    PROVE  RowsExist'
<1>1. /\ UNCHANGED <<status, cash>> /\ Continued(c) /\ CallSeesRow(c)
      /\ call[c].pc = "new" \/ call[c].of \in Strategies
  BY StepsContinue DEF Step, BeginTx, Get, Reread, Book, Commit, QueryFails, ContextEnds,
     RowsExist, IInv, CallShape, Shaped
<1>2. \A d \in Calls, t \in Strategies : Creates(d, t)' <=> Creates(d, t)
  BY <1>1 DEF Creates, Continued
<1>3. \A d \in Calls : d # c => CallSeesRow(d)'
  BY <1>1 DEF Continued, RowsExist, CallSeesRow
<1>4. CallSeesRow(c)'
  <2>1. CASE BeginTx(c)
    BY <1>1, <2>1, StepsMove DEF BeginTx, CallSeesRow, Continued
  <2>2. CASE Get(c) \/ Reread(c)
    <3>1. call[c].op # "create"
      BY <2>2 DEF Get, Reread, IInv, CallShape, Shaped
    <3>2. Reread(c) => status[call[c].of] # "none"
      BY <1>1 DEF Reread, CallSeesRow
    <3> QED BY <1>1, <2>2, <3>1, <3>2, StepsMove DEF CallSeesRow, Continued
  <2>3. CASE Book(c) \/ Commit(c) \/ QueryFails(c)
    BY <1>1, <2>3, StepsMove DEF CallSeesRow, Continued
  <2>4. CASE ContextEnds(c)
    BY <1>1, <2>4, StepsMove DEF CallSeesRow, Continued
  <2> QED BY <2>1, <2>2, <2>3, <2>4 DEF Step
<1>5. \A t \in Strategies : status[t] = "none" => booked'[t] = booked[t]
  <2>1. CASE Book(c)
    <3>1. status[call[c].of] # "none"
      BY <1>1, <2>1 DEF Book, CallSeesRow
    <3> QED BY <2>1, <3>1 DEF Book, IInv, TypeOK
  <2>2. CASE booked' = booked
    BY <2>2
  <2> QED BY <2>1, <2>2 DEF Step, BeginTx, Get, Reread, Commit, QueryFails, ContextEnds
<1> QED BY <1>1, <1>2, <1>3, <1>4, <1>5 DEF RowsExist

-----------------------------------------------------------------------------
(* The balance is kept.                                                    *)

(* Steps that owe the ledger nothing new.                                  *)
LEMMA NothingOwed ==
    ASSUME NEW s \in Strategies, Balanced(s), cash'[s] = cash[s], booked'[s] = booked[s],
           \A d \in Calls : \/ call'[d] = call[d]
                            \/ /\ call[d].pc # "book" \/ call[d].of # s
                               /\ call'[d].pc # "book" \/ call'[d].of # s
    PROVE  Balanced(s)'
<1>1. Owed(s)' = Owed(s)
  BY DEF Owed, Delta
<1>2. PICK f : IsSum(f, Owed(s)) /\ cash[s] = booked[s] + f[Calls]
  BY DEF Balanced
<1>3. IsSum(f, Owed(s)') /\ cash'[s] = booked'[s] + f[Calls]
  BY <1>1, <1>2
<1> QED BY <1>3 DEF Balanced, IsSum

(* One call owes more or less than before, and the difference of balance  *)
(* and ledger has moved by as much.                                        *)
LEMMA OwedChanges ==
    ASSUME IInv, NEW s \in Strategies, Balanced(s), NEW c \in Calls, NEW v \in Int,
           Owed(s)' = [Owed(s) EXCEPT ![c] = v],
           cash'[s] \in Int, booked'[s] \in Int, cash[s] \in Int, booked[s] \in Int,
           cash'[s] - booked'[s] = cash[s] - booked[s] + (v - Owed(s)[c])
    PROVE  Balanced(s)'
<1>1. Owed(s) \in [Calls -> Int]
  BY OwedType
<1>2. /\ Owed(s)' \in [Calls -> Int] /\ Owed(s)'[c] = v
      /\ \A d \in Calls : d # c => Owed(s)'[d] = Owed(s)[d]
  BY <1>1
<1>3. PICK f : IsSum(f, Owed(s)) /\ cash[s] = booked[s] + f[Calls]
  BY DEF Balanced
<1>4. PICK g : IsSum(g, Owed(s)') /\ g[Calls] = f[Calls] + (Owed(s)'[c] - Owed(s)[c])
  <2>1. \A e \in [Calls -> Int] :
            (\A d \in Calls : d # c => e[d] = Owed(s)[d]) =>
                \E g : IsSum(g, e) /\ g[Calls] = f[Calls] + (e[c] - Owed(s)[c])
    BY <1>1, <1>3, SumChanges
  <2> QED BY <1>2, <2>1
<1>5. f[Calls] \in Int /\ g[Calls] \in Int /\ Owed(s)[c] \in Int
  BY <1>1, <1>3, <1>4 DEF IsSum
<1>6. cash'[s] = booked'[s] + g[Calls]
  BY <1>2, <1>3, <1>4, <1>5
<1> QED BY <1>4, <1>6 DEF Balanced, IsSum

LEMMA WriteBalance ==
    ASSUME LedgerInv, NEW c \in Calls, Write(c), NEW s \in Strategies, s \notin disturbed'
    PROVE  Balanced(s)'
<1>1. /\ IInv /\ RowsExist /\ Continued(c) /\ CallSeesRow(c)
      /\ call[c].of \in Strategies /\ call[c].op \in CashOps \cup RowOps
      /\ call[c].pc = "write" /\ call'[c].pc = IF call[c].op \in CashOps THEN "book" ELSE "done"
      /\ booked' = booked /\ cash' = [cash EXCEPT ![call[c].of] = NewCash(c)]
      /\ NewCash(c) \in Nat /\ cash \in [Strategies -> Nat] /\ booked \in [Strategies -> Int]
  BY StepsContinue, StepsMove, Written DEF LedgerInv, Write, Step, RowsExist, IInv, CallShape,
     Shaped, TypeOK
<1>2. s \notin disturbed /\ Balanced(s)
  BY DEF Write, LedgerInv
<1>3. CASE call[c].of # s
  BY <1>1, <1>2, <1>3, NothingOwed DEF Continued
<1>4. CASE call[c].of = s
  <2>1. call[c].op \notin {"create", "delete"} => call[c].sawCash = cash[s]
    BY <1>4 DEF Write
  <2>2. CASE call[c].op \notin CashOps
    <3>1. NewCash(c) = cash[s]
      BY <1>1, <1>4, <2>1, <2>2 DEF NewCash, CashOps
    <3>2. call'[c].pc # "book"
      BY <1>1, <2>2
    <3> QED BY <1>1, <1>2, <1>4, <3>1, <3>2, NothingOwed DEF Continued
  <2>3. CASE call[c].op \in CashOps
    <3>1. call[c].amount \in Int /\ Delta(c) \in Int /\ cash[s] \in Int
      <4>1. call[c].amount \in Nat /\ Delta(c) \in Int
        BY <1>1, <2>3, OwedType
      <4>2. cash[s] \in Nat
        BY <1>1
      <4> QED BY <4>1, <4>2
    <3>2. NewCash(c) = cash[s] + Delta(c)
      <4>1. CASE call[c].op = "create"
        <5>1. cash[s] = 0
          BY <1>1, <1>4, <4>1 DEF CallSeesRow, RowsExist
        <5> QED BY <3>1, <4>1, <5>1 DEF NewCash, Delta
      <4>2. CASE call[c].op \in {"allocate", "return"}
        BY <2>1, <3>1, <4>2 DEF NewCash, Delta
      <4> QED BY <2>3, <4>1, <4>2 DEF CashOps
    <3>3. Owed(s)[c] = 0
      BY <1>1 DEF Owed
    <3>4. Owed(s)' = [Owed(s) EXCEPT ![c] = Delta(c)]
      BY <1>1, <1>4, <2>3 DEF Owed, Delta, Continued
    <3>5. cash'[s] - booked'[s] = cash[s] - booked[s] + (Delta(c) - Owed(s)[c])
      BY <1>1, <1>4, <3>1, <3>2, <3>3
    <3>6. cash'[s] \in Int /\ booked'[s] \in Int /\ booked[s] \in Int
      BY <1>1, <1>4
    <3> QED BY <1>1, <1>2, <3>1, <3>4, <3>5, <3>6, OwedChanges
  <2> QED BY <2>2, <2>3
<1> QED BY <1>3, <1>4

LEMMA BookBalance ==
    ASSUME LedgerInv, NEW c \in Calls, Book(c), NEW s \in Strategies, s \notin disturbed'
    PROVE  Balanced(s)'
<1>1. /\ IInv /\ Continued(c)
      /\ call[c].of \in Strategies /\ call[c].op \in CashOps
      /\ call[c].pc = "book" /\ call'[c].pc = "commit"
      /\ cash' = cash /\ booked' = [booked EXCEPT ![call[c].of] = @ + Delta(c)]
      /\ cash \in [Strategies -> Nat] /\ booked \in [Strategies -> Int]
  BY StepsContinue, StepsMove DEF LedgerInv, Book, Step, IInv, CallShape, Shaped, TypeOK
<1>2. Delta(c) \in Int
  BY <1>1, OwedType
<1>3. s \notin disturbed /\ Balanced(s)
  BY DEF Book, LedgerInv
<1>4. CASE call[c].of # s
  BY <1>1, <1>3, <1>4, NothingOwed DEF Continued
<1>5. CASE call[c].of = s
  <2>1. Owed(s)[c] = Delta(c)
    BY <1>1, <1>5 DEF Owed
  <2>2. Owed(s)' = [Owed(s) EXCEPT ![c] = 0]
    BY <1>1 DEF Owed, Delta, Continued
  <2>3. /\ cash[s] \in Int /\ booked[s] \in Int
        /\ cash'[s] = cash[s] /\ booked'[s] = booked[s] + Delta(c)
    BY <1>1, <1>5
  <2> QED BY <1>1, <1>2, <1>3, <2>1, <2>2, <2>3, OwedChanges
<1> QED BY <1>4, <1>5

LEMMA OtherBalance ==
    ASSUME LedgerInv, NEW c \in Calls,
           Start(c) \/ Step(c) \/ QueryFails(c) \/ ContextEnds(c), ~Write(c), ~Book(c),
           NEW s \in Strategies, s \notin disturbed'
    PROVE  Balanced(s)'
<1>1. UNCHANGED <<cash, booked>>
  BY DEF Start, Step, BeginTx, Get, Reread, Commit, QueryFails, ContextEnds
<1>2. IInv
  BY DEF LedgerInv
<1>3. CASE Start(c)
  <2>1. \A d \in Calls : \/ call'[d] = call[d]
                         \/ call[d].pc = "new" /\ call'[d].pc \in {"begin", "get"}
    <3>1. PICK t \in Strategies, op \in CashOps \cup RowOps, a \in Amounts \cup {0}, pc \in {"begin", "get"} :
              call' = [call EXCEPT ![c] = Fresh(pc, op, t, a)]
      BY <1>3 DEF Start
    <3>2. call \in [Calls -> CallState] /\ call[c].pc = "new" /\ Fresh(pc, op, t, a).pc = pc
      BY <1>2, <1>3 DEF Start, Fresh, IInv, TypeOK
    <3> QED BY <3>1, <3>2
  <2>2. s \notin disturbed
    BY <1>3 DEF Start
  <2> QED BY <1>1, <2>1, <2>2, NothingOwed DEF LedgerInv
<1>4. CASE ~Start(c)
  <2>1. Continued(c)
    BY <1>2, <1>4, StepsContinue
  <2>2. /\ call'[c] = call[c] \/ call'[c].pc # "book"
        /\ call[c].pc # "book" \/ call'[c] = call[c] \/ call[c].of # s
        /\ s \notin disturbed
    <3>1. CASE BeginTx(c) \/ Get(c) \/ Reread(c) \/ Commit(c)
      <4>1. disturbed' = disturbed /\ call[c].pc # "book"
        BY <3>1 DEF BeginTx, Get, Reread, Commit
      <4> QED BY <1>2, <3>1, <4>1, StepsMove
    <3>2. CASE QueryFails(c) \/ ContextEnds(c)
      <4>1. \/ call' = call /\ disturbed' = disturbed
            \/ call'[c].pc = "failed" /\ Unrecorded(c)
        <5>1. QueryFails(c) => call'[c].pc = "failed" /\ Unrecorded(c)
          BY <1>2, StepsMove DEF QueryFails
        <5>2. ContextEnds(c) => \/ call' = call /\ disturbed' = disturbed
                                \/ MoveTo(c, "failed") /\ Unrecorded(c)
          BY DEF ContextEnds
        <5>3. MoveTo(c, "failed") => call'[c].pc = "failed"
          BY <1>2 DEF MoveTo, IInv, TypeOK, CallState
        <5> QED BY <3>2, <5>1, <5>2, <5>3
      <4> QED BY <4>1 DEF Unrecorded
    <3> QED BY <1>4, <3>1, <3>2 DEF Step
  <2> QED BY <1>1, <2>1, <2>2, NothingOwed DEF LedgerInv, Continued
<1> QED BY <1>3, <1>4

LEMMA LedgerStep == LedgerInv /\ [Next]_vars => LedgerInv'
<1> SUFFICES ASSUME LedgerInv, [Next]_vars PROVE LedgerInv'
  OBVIOUS
<1>1. IInv'
  BY StepInv DEF LedgerInv
<1>2. ASSUME NEW c \in Calls, Start(c) \/ Step(c) \/ QueryFails(c) \/ ContextEnds(c)
      PROVE  LedgerInv'
  <2>1. RowsExist'
    BY <1>2, StartRows, WriteRows, OtherRows DEF LedgerInv
  <2>2. \A s \in Strategies : s \notin disturbed' => Balanced(s)'
    BY <1>2, WriteBalance, BookBalance, OtherBalance
  <2> QED BY <1>1, <2>1, <2>2 DEF LedgerInv
<1>3. CASE UNCHANGED vars
  <2>1. RowsExist'
    BY <1>3 DEF vars, LedgerInv, RowsExist, CallSeesRow, Creates
  <2>2. \A s \in Strategies : s \notin disturbed' => Balanced(s)'
    BY <1>3, NothingOwed DEF vars, LedgerInv
  <2> QED BY <1>1, <2>1, <2>2 DEF LedgerInv
<1> QED BY <1>2, <1>3 DEF Next

(* Whatever calls overlap, on however many strategies: the balance of an   *)
(* undisturbed strategy is the sum of its ledger once no call is between   *)
(* its write and its ledger entry.                                         *)
THEOREM LedgerIsKept == Spec => []LedgerAgrees
<1>1. LedgerInv => LedgerAgrees
  <2> SUFFICES ASSUME LedgerInv, NEW s \in Strategies, s \notin disturbed, ~Between(s)
               PROVE  cash[s] = booked[s]
    BY DEF LedgerAgrees
  <2>1. PICK f : IsSum(f, Owed(s)) /\ cash[s] = booked[s] + f[Calls]
    BY DEF LedgerInv, Balanced
  <2>2. \A c \in Calls : Owed(s)[c] = 0
    BY DEF Owed, Between
  <2>3. f[Calls] = 0
    BY <2>1, <2>2, OwedType, SumOfZeros DEF LedgerInv
  <2>4. booked[s] \in Int
    BY DEF LedgerInv, IInv, TypeOK
  <2> QED BY <2>1, <2>3, <2>4
<1> QED BY <1>1, LedgerInit, LedgerStep, PTL DEF Spec
=============================================================================
