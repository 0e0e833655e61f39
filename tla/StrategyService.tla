--------------------------- MODULE StrategyService ---------------------------
(***************************************************************************)
(* The cash of a strategy and the ledger of its movements                  *)
(* (internal/services/strategy, internal/domain/strategy).                 *)
(*                                                                         *)
(* Every operation reads the user_strategies row, computes on the copy and *)
(* writes whole columns back; none takes a lock.  CreateStrategy,          *)
(* AllocateCashToPosition and ReturnCashFromPosition open a database       *)
(* transaction, but the repositories they then call hold the connection    *)
(* pool and not that transaction: every query takes a second connection    *)
(* and commits by itself, and a rollback undoes nothing.                   *)
(*                                                                         *)
(* A call is a concurrent invocation of one of the operations; the batch   *)
(* operations are several calls.  Abstracted: names, JSON, equity and PnL. *)
(***************************************************************************)
EXTENDS Integers, FiniteSets

CONSTANTS
    Strategies,    \* strategy ids
    Calls,         \* concurrent invocations
    LongLived,     \* calls whose context outlives them (a consumer's, not a request's)
    Amounts,       \* bound: the amounts of cash that are moved
    PoolSize,      \* connections of the pool (POSTGRES_MAX_CONNS)
    MaxFailures,   \* bound: failing queries in one behaviour
    None

ASSUME ConstantsAssumption ==
    /\ IsFiniteSet(Calls)
    /\ None \notin Strategies
    /\ LongLived \subseteq Calls
    /\ Amounts \subseteq Nat \ {0}
    /\ PoolSize \in Nat
    /\ MaxFailures \in Nat

Statuses == {"active", "paused", "closed"}

(* The operations that open a database transaction, and those that do not. *)
CashOps == {"create", "allocate", "return"}
RowOps  == {"equity", "edit", "pause", "resume", "close", "delete"}

VARIABLES
    status,     \* user_strategies.status, "none" before the row exists
    cash,       \* user_strategies.cash_reserve
    booked,     \* sum of strategy_transactions.amount
    call,       \* per call: where it is and the row as it read it
    held,       \* calls whose transaction holds a connection
    disturbed,  \* history: strategies hit by a stale write or a failed call
    failures    \* queries that may still fail

vars == <<status, cash, booked, call, held, disturbed, failures>>

(* A call that has not read the row.                                       *)
Fresh(pc, op, s, a) == [pc |-> pc, op |-> op, of |-> s, amount |-> a,
                        sawStatus |-> "none", sawCash |-> 0]

NewCall == Fresh("new", "none", None, 0)

Init ==
    /\ status = [s \in Strategies |-> "none"]
    /\ cash = [s \in Strategies |-> 0]
    /\ booked = [s \in Strategies |-> 0]
    /\ call = [c \in Calls |-> NewCall]
    /\ held = {}
    /\ disturbed = {}
    /\ failures = MaxFailures

Fail == failures > 0 /\ failures' = failures - 1

(* Faulty variant: every query reserves one connection more.               *)
SpareConnection == Cardinality(held) + 1 < PoolSize

(* A query needs a connection besides those the open transactions hold.    *)
FreeConnection == Cardinality(held) < PoolSize

MoveTo(c, pc) == call' = [call EXCEPT ![c].pc = pc]

-----------------------------------------------------------------------------
(* A caller starts an operation; each CreateStrategy has an id of its own. *)
Start(c) ==
    /\ call[c].pc = "new"
    /\ \E s \in Strategies :
           \/ \E op \in CashOps, a \in Amounts :
                  /\ op = "create" => \A d \in Calls : ~(call[d].op = "create" /\ call[d].of = s)
                  /\ call' = [call EXCEPT ![c] = Fresh("begin", op, s, a)]
           \/ \E op \in RowOps : call' = [call EXCEPT ![c] = Fresh("get", op, s, 0)]
    /\ UNCHANGED <<status, cash, booked, held, disturbed, failures>>

(* db.BeginTx.                                                             *)
BeginTx(c) ==
    /\ call[c].pc = "begin"
    /\ FreeConnection
    /\ held' = held \cup {c}
    /\ MoveTo(c, IF call[c].op = "create" THEN "write" ELSE "get")
    /\ UNCHANGED <<status, cash, booked, disturbed, failures>>

(* Faulty variants: an allocation that is not checked against the cash,    *)
(* and a resume that any status admits.                                    *)
AdmitsAnyAmount(c, s) ==
    CASE call[c].op \in {"edit", "close"} -> status[s] # "closed"
      [] call[c].op = "pause" -> status[s] = "active"
      [] call[c].op = "resume" -> status[s] = "paused"
      [] call[c].op = "delete" -> status[s] = "closed"
      [] OTHER -> TRUE

AdmitsAnyResume(c, s) ==
    CASE call[c].op = "allocate" -> cash[s] >= call[c].amount
      [] call[c].op \in {"edit", "close"} -> status[s] # "closed"
      [] call[c].op = "pause" -> status[s] = "active"
      [] call[c].op = "delete" -> status[s] = "closed"
      [] OTHER -> TRUE

(* What the operation requires of the row it has read.                     *)
Admits(c, s) ==
    CASE call[c].op = "allocate" -> cash[s] >= call[c].amount
      [] call[c].op \in {"edit", "close"} -> status[s] # "closed"
      [] call[c].op = "pause" -> status[s] = "active"
      [] call[c].op = "resume" -> status[s] = "paused"
      [] call[c].op = "delete" -> status[s] = "closed"
      [] OTHER -> TRUE

(* GetByID.  An unknown strategy is an error of the variable the deferred  *)
(* rollback looks at; an operation the row does not admit is not.          *)
Get(c) ==
    LET s == call[c].of
    IN  /\ call[c].pc = "get"
        /\ FreeConnection
        /\ IF status[s] # "none" /\ Admits(c, s)
           THEN call' = [call EXCEPT ![c].pc = IF @ = "get" /\ call[c].op = "close"
                                               THEN "reread" ELSE "write",
                                     ![c].sawStatus = status[s],
                                     ![c].sawCash = cash[s]]
           ELSE MoveTo(c, "failed")
        /\ held' = IF status[s] = "none" THEN held \ {c} ELSE held
        /\ UNCHANGED <<status, cash, booked, disturbed, failures>>

(* domainService.Close reads the row again, and does not check it again.   *)
Reread(c) ==
    /\ call[c].pc = "reread"
    /\ FreeConnection
    /\ call' = [call EXCEPT ![c].pc = "write",
                            ![c].sawStatus = status[call[c].of],
                            ![c].sawCash = cash[call[c].of]]
    /\ UNCHANGED <<status, cash, booked, held, disturbed, failures>>

(* The status and the cash the operation writes: computed from the copy,   *)
(* except the columns its UPDATE leaves out.                               *)
NewStatus(c) ==
    CASE call[c].op \in {"create", "resume"} -> "active"
      [] call[c].op = "pause" -> "paused"
      [] call[c].op \in {"close", "delete"} -> "closed"
      [] call[c].op = "equity" -> status[call[c].of]
      [] OTHER -> call[c].sawStatus

NewCash(c) ==
    CASE call[c].op = "create" -> call[c].amount
      [] call[c].op = "allocate" -> call[c].sawCash - call[c].amount
      [] call[c].op = "return" -> call[c].sawCash + call[c].amount
      [] call[c].op = "delete" -> cash[call[c].of]
      [] OTHER -> call[c].sawCash

(* The INSERT or the UPDATE of the row.                                    *)
Write(c) ==
    LET s == call[c].of
    IN  /\ call[c].pc = "write"
        /\ FreeConnection
        /\ status' = [status EXCEPT ![s] = NewStatus(c)]
        /\ cash' = [cash EXCEPT ![s] = NewCash(c)]
        /\ MoveTo(c, IF call[c].op \in CashOps THEN "book" ELSE "done")
        /\ disturbed' = IF call[c].op \notin {"create", "delete"} /\ call[c].sawCash # cash[s]
                        THEN disturbed \cup {s} ELSE disturbed
        /\ UNCHANGED <<booked, held, failures>>

(* Faulty variant: an allocation is booked with the sign of a deposit.     *)
DeltaUnsigned(c) == call[c].amount

(* What the ledger entry of the call adds to the balance.                  *)
Delta(c) == IF call[c].op = "allocate" THEN -call[c].amount ELSE call[c].amount

(* transactionRepo.Create.                                                 *)
Book(c) ==
    /\ call[c].pc = "book"
    /\ FreeConnection
    /\ booked' = [booked EXCEPT ![call[c].of] = @ + Delta(c)]
    /\ MoveTo(c, "commit")
    /\ UNCHANGED <<status, cash, held, disturbed, failures>>

Commit(c) ==
    /\ call[c].pc = "commit"
    /\ held' = held \ {c}
    /\ MoveTo(c, "done")
    /\ UNCHANGED <<status, cash, booked, disturbed, failures>>

(* The row has been changed and the ledger entry will not be written.      *)
Unrecorded(c) == disturbed' = IF call[c].pc = "book" THEN disturbed \cup {call[c].of}
                              ELSE disturbed

(* A call of the database fails.  Only the error of GetByID reaches the    *)
(* deferred rollback: the others are assigned to a variable of their own   *)
(* block, and the transaction stays open.  Commit releases it in any case. *)
QueryFails(c) ==
    /\ call[c].pc \in {"begin", "get", "reread", "write", "book", "commit"}
    /\ Fail
    /\ Unrecorded(c)
    /\ held' = IF call[c].pc \in {"get", "commit"} THEN held \ {c} ELSE held
    /\ MoveTo(c, "failed")
    /\ UNCHANGED <<status, cash, booked>>

(* The context of the call ends: database/sql rolls its transaction back,  *)
(* and a call still running gets an error from its next query.             *)
ContextEnds(c) ==
    /\ c \notin LongLived
    /\ \/ /\ call[c].pc \in {"done", "failed"} /\ c \in held
          /\ UNCHANGED <<call, disturbed, failures>>
       \/ /\ call[c].pc \notin {"new", "done", "failed"}
          /\ Fail
          /\ Unrecorded(c)
          /\ MoveTo(c, "failed")
    /\ held' = held \ {c}
    /\ UNCHANGED <<status, cash, booked>>

Step(c) == BeginTx(c) \/ Get(c) \/ Reread(c) \/ Write(c) \/ Book(c) \/ Commit(c)

Next == \E c \in Calls : Start(c) \/ Step(c) \/ QueryFails(c) \/ ContextEnds(c)

(* A running call is scheduled, and the server ends the context of a       *)
(* request it has answered.                                                *)
Fairness == \A c \in Calls : WF_vars(Step(c)) /\ WF_vars(ContextEnds(c))

Spec == Init /\ [][Next]_vars /\ Fairness

-----------------------------------------------------------------------------
Pcs == {"new", "begin", "get", "reread", "write", "book", "commit", "done", "failed"}

CallState == [pc : Pcs, op : CashOps \cup RowOps \cup {"none"}, of : Strategies \cup {None},
              amount : Amounts \cup {0}, sawStatus : Statuses \cup {"none"}, sawCash : Nat]

(* In particular cash_reserve never becomes negative, whatever the calls   *)
(* that overwrite each other's balances: the CHECK of the table never      *)
(* rejects a write.                                                        *)
TypeOK ==
    /\ status \in [Strategies -> Statuses \cup {"none"}]
    /\ cash \in [Strategies -> Nat]
    /\ booked \in [Strategies -> Int]
    /\ call \in [Calls -> CallState]
    /\ held \subseteq Calls
    /\ disturbed \subseteq Strategies
    /\ failures \in Nat

Between(s) == \E c \in Calls : call[c].pc = "book" /\ call[c].of = s

(* The balance and the ledger disagree only if a call wrote a balance      *)
(* computed from one that had changed meanwhile, or failed between its     *)
(* write and its ledger entry: interleaved calls that do neither, however  *)
(* many, keep every cash_reserve equal to the sum of its transactions.     *)
LedgerAgrees ==
    \A s \in Strategies : (s \notin disturbed /\ ~Between(s)) => cash[s] = booked[s]

(* A call that is about to write a copy of s in which it is not closed.    *)
Stale(c, s) == call[c].of = s /\ call[c].pc = "write" /\ call[c].sawStatus # "closed"

(* A closed strategy comes back only through a call that read the row      *)
(* before it was closed and has not written yet; once there is none, it is *)
(* closed for good, whatever is called then.                               *)
ClosedForGood ==
    [][\A s \in Strategies :
          (status[s] = "closed" /\ \A c \in Calls : ~Stale(c, s)) => status'[s] = "closed"]_vars

(* As long as the pool has a connection more than there are calls, every   *)
(* call ends, although calls hold one connection while they wait for       *)
(* another and failed calls may keep theirs.                               *)
CallEnds == \A c \in Calls : (call[c].pc # "new") ~> (call[c].pc \in {"done", "failed"})

=============================================================================
