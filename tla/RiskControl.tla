----------------------------- MODULE RiskControl -----------------------------
(***************************************************************************)
(* The circuit breaker of one user: the row of circuit_breaker_states, the *)
(* 30 second cache of the risk engine in redis, and the flag of the kill   *)
(* switch (internal/services/risk).  Users share nothing of it.            *)
(*                                                                         *)
(* Every writer reads the whole row, changes its copy and upserts all      *)
(* columns; none takes a lock.  Whatever error GetState returns is taken   *)
(* for a missing row.  The engine deletes the cached entry after a write,  *)
(* the kill switch does not.                                               *)
(*                                                                         *)
(* A caller is a goroutine that calls one operation after another: the     *)
(* risk monitor, the risk check of a tool, the code that closes a trade,   *)
(* the kill switch.  Abstracted: the other counters of the day, the risk   *)
(* events (their errors are only logged), the percentage of the PnL (which *)
(* nothing decides on), and the exposure (computed and not compared).      *)
(***************************************************************************)
EXTENDS Integers

CONSTANTS
    Callers,
    Pnls,          \* bound: the results of the trades that are recorded
    MaxDrawdown,   \* max_daily_drawdown
    MaxLosses,     \* max_consecutive_loss
    MaxWrites,     \* bound: writing operations in one behaviour
    MaxFailures    \* bound: failing calls of postgres and redis

ASSUME ConstantsAssumption ==
    /\ Pnls \subseteq Int
    /\ MaxDrawdown \in Nat \ {0}
    /\ MaxLosses \in Nat \ {0}
    /\ MaxWrites \in Nat
    /\ MaxFailures \in Nat

ReadOps  == {"canTrade", "userState"}
WriteOps == {"record", "trip", "reset", "stop", "unstop"}

VARIABLES
    row,        \* breaker, daily PnL and consecutive losses as stored
    cache,      \* CanTrade of the cached entry
    flag,       \* killswitch:<user> exists
    call,       \* per caller: where it is, and the row it is about to write
    staleCache, \* history: the cached entry outlived a trip
    excused,    \* history: a limit is exceeded after a reset or a failed trip
    writes,     \* writing operations still to come
    failures    \* calls that may still fail

vars == <<row, cache, flag, call, staleCache, excused, writes, failures>>

Row(breaker, pnl, losses) == [breaker |-> breaker, pnl |-> pnl, losses |-> losses]

NoRow      == Row("absent", 0, 0)
DefaultRow == Row("clear", 0, 0)

Tripped(r) == [r EXCEPT !.breaker = "tripped"]
Cleared(r) == [r EXCEPT !.breaker = "clear"]

(* isDrawdownExceeded, isConsecutiveLossesExceeded.                        *)
Drawdown(r) == r.pnl < 0 /\ -r.pnl >= MaxDrawdown
Exceeds(r)  == Drawdown(r) \/ r.losses >= MaxLosses

(* Faulty variant: a winning trade takes one loss off the streak.          *)
TradedForgiving(r, pnl) ==
    Row(r.breaker, r.pnl + pnl,
        IF pnl > 0 THEN r.losses - 1 ELSE IF pnl < 0 THEN r.losses + 1 ELSE r.losses)

(* What RecordTrade does to its copy; a result of zero leaves the streak.  *)
Traded(r, pnl) ==
    Row(r.breaker, r.pnl + pnl,
        IF pnl > 0 THEN 0 ELSE IF pnl < 0 THEN r.losses + 1 ELSE r.losses)

(* The answer of a call is "yes" or "no" for CanTrade, and "set" for an    *)
(* activation that reports CircuitBreakerSet.                              *)
Fresh(pc, op, pnl, answer) == [pc |-> pc, op |-> op, pnl |-> pnl, copy |-> DefaultRow,
                               answer |-> answer]

Idle(op, answer) == Fresh("idle", op, 0, answer)

Init ==
    /\ row = NoRow
    /\ cache = "none"
    /\ flag = "off"
    /\ call = [c \in Callers |-> Idle("userState", "none")]
    /\ staleCache = "no"
    /\ excused = "no"
    /\ writes = MaxWrites
    /\ failures = MaxFailures

YesIf(condition) == IF condition THEN "yes" ELSE "no"

Fail == failures > 0 /\ failures' = failures - 1

At(c, pc) == call[c].pc = pc
GoTo(c, pc, copy) == call' = [call EXCEPT ![c].pc = pc, ![c].copy = copy]
Return(c, answer) == call' = [call EXCEPT ![c] = Idle(@.op, answer)]

-----------------------------------------------------------------------------
Start(c) ==
    /\ At(c, "idle")
    /\ \/ /\ \E op \in ReadOps :
                 call' = [call EXCEPT ![c] = Fresh("lookup", op, 0, "none")]
          /\ UNCHANGED writes
       \/ /\ writes > 0
          /\ writes' = writes - 1
          /\ \E op \in WriteOps, pnl \in Pnls \cup {0} :
                 /\ IF op = "record" THEN pnl \in Pnls ELSE pnl = 0
                 /\ call' = [call EXCEPT ![c] = Fresh("read", op, pnl, "none")]
    /\ UNCHANGED <<row, cache, flag, staleCache, excused, failures>>

(* redis.Get; an error is a miss.                                          *)
Lookup(c) ==
    /\ At(c, "lookup")
    /\ \/ cache # "none" /\ Return(c, cache) /\ UNCHANGED failures
       \/ cache = "none" /\ GoTo(c, "read", call[c].copy) /\ UNCHANGED failures
       \/ GoTo(c, "read", call[c].copy) /\ Fail
    /\ UNCHANGED <<row, cache, flag, staleCache, excused, writes>>

(* Where an operation goes with the row it has read.                       *)
Decide(c, r) ==
    CASE call[c].op = "canTrade" ->
             IF r.breaker # "tripped" /\ Exceeds(r) THEN GoTo(c, "trip", Tripped(r))
                                                   ELSE GoTo(c, "fill", r)
      [] call[c].op = "userState" -> GoTo(c, "fill", r)
      [] call[c].op = "record" -> GoTo(c, "save", Traded(r, call[c].pnl))
      [] call[c].op = "trip" -> GoTo(c, "trip", Tripped(r))
      [] call[c].op = "stop" -> GoTo(c, "save", Tripped(r))
      [] OTHER -> GoTo(c, "save", Cleared(r))

(* An operation that finds no row: the readers store a default one first.  *)
NotFound(c) ==
    CASE call[c].op \in ReadOps -> GoTo(c, "default", DefaultRow)
      [] call[c].op \in {"reset", "unstop"} -> Return(c, "none")
      [] OTHER -> Decide(c, DefaultRow)

(* GetState.                                                               *)
Read(c) ==
    /\ At(c, "read")
    /\ \/ row.breaker # "absent" /\ Decide(c, row) /\ UNCHANGED failures
       \/ row.breaker = "absent" /\ NotFound(c) /\ UNCHANGED failures
       \/ row.breaker # "absent" /\ NotFound(c) /\ Fail
    /\ UNCHANGED <<row, cache, flag, staleCache, excused, writes>>

(* A write that changes the row to r: the cached entry is stale if it may  *)
(* trade and the operation will not delete it.                             *)
Store(r, deletes) ==
    /\ row' = r
    /\ staleCache' = IF cache = "yes" /\ r.breaker = "tripped" /\ ~deletes
                     THEN "yes" ELSE staleCache

(* SaveState of a default row.                                             *)
StoreDefault(c) ==
    /\ At(c, "default")
    /\ \/ /\ Store(DefaultRow, FALSE)
          /\ excused' = "no"
          /\ GoTo(c, "fill", DefaultRow)
          /\ UNCHANGED failures
       \/ Fail /\ Return(c, "none") /\ UNCHANGED <<row, staleCache, excused>>
    /\ UNCHANGED <<cache, flag, writes>>

(* Faulty variant: after a recorded trade only the drawdown is compared.   *)
SaveDrawdownOnly(c) ==
    LET r == call[c].copy
    IN  /\ At(c, "save")
        /\ Store(r, call[c].op \in {"record", "reset"})
        /\ excused' = YesIf(Exceeds(r) /\ call[c].op \in {"reset", "unstop"})
        /\ CASE call[c].op = "record" ->
                    IF Drawdown(r) THEN GoTo(c, "trip", Tripped(r)) ELSE GoTo(c, "drop", r)
             [] call[c].op = "reset" -> GoTo(c, "drop", r)
             [] OTHER -> call' = [call EXCEPT ![c].pc = "flag", ![c].answer = "set"]
        /\ UNCHANGED <<cache, flag, writes, failures>>

(* SaveState of RecordTrade, ResetCircuitBreaker and the kill switch; only *)
(* the activation goes on after an error.                                  *)
Save(c) ==
    LET r == call[c].copy
    IN  /\ At(c, "save")
        /\ \/ /\ Store(r, call[c].op \in {"record", "reset"})
              /\ excused' = YesIf(/\ Exceeds(r)
                                  /\ \/ excused = "yes"
                                     \/ call[c].op \in {"reset", "unstop"})
              /\ CASE call[c].op = "record" ->
                          IF Exceeds(r) THEN GoTo(c, "trip", Tripped(r)) ELSE GoTo(c, "drop", r)
                   [] call[c].op = "reset" -> GoTo(c, "drop", r)
                   [] OTHER -> call' = [call EXCEPT ![c].pc = "flag", ![c].answer = "set"]
              /\ UNCHANGED failures
           \/ /\ Fail
              /\ IF call[c].op = "stop" THEN GoTo(c, "flag", r) ELSE Return(c, "none")
              /\ UNCHANGED <<row, staleCache, excused>>
    /\ UNCHANGED <<cache, flag, writes>>

(* Faulty variants: the cached entry is left alone, and the row is saved   *)
(* before its breaker is set.                                              *)
TripKeepsEntry(c) ==
    /\ At(c, "trip")
    /\ Store(call[c].copy, TRUE)
    /\ excused' = "no"
    /\ Return(c, "no")
    /\ UNCHANGED <<cache, flag, writes, failures>>

TripTooEarly(c) ==
    /\ At(c, "trip")
    /\ Store(Cleared(call[c].copy), TRUE)
    /\ excused' = "no"
    /\ GoTo(c, "tripped", call[c].copy)
    /\ UNCHANGED <<cache, flag, writes, failures>>

(* tripCircuitBreaker: SaveState, then the cached entry is deleted.  An    *)
(* error of SaveState also skips the deletion at the end of RecordTrade.   *)
Trip(c) ==
    LET r == call[c].copy
    IN  /\ At(c, "trip")
        /\ \/ /\ Store(r, TRUE)
              /\ excused' = "no"
              /\ GoTo(c, "tripped", r)
              /\ UNCHANGED failures
           \/ /\ Fail
              /\ staleCache' = YesIf(staleCache = "yes" \/ cache = "yes")
              /\ excused' = YesIf(excused = "yes" \/ Exceeds(row))
              /\ Return(c, "no")
              /\ UNCHANGED row
    /\ UNCHANGED <<cache, flag, writes>>

(* redis.Delete, whose error is not looked at.                             *)
Delete(c) ==
    /\ At(c, "tripped") \/ At(c, "drop")
    /\ \/ cache' = "none" /\ staleCache' = "no" /\ UNCHANGED failures
       \/ Fail /\ staleCache' = YesIf(staleCache = "yes" \/ cache = "yes") /\ UNCHANGED cache
    /\ IF At(c, "tripped") /\ call[c].op = "record"
       THEN GoTo(c, "drop", call[c].copy)
       ELSE Return(c, IF call[c].op = "canTrade" THEN "no" ELSE "none")
    /\ UNCHANGED <<row, flag, excused, writes>>

(* Faulty variant: whatever is cached lets the user trade.                 *)
AnswerYes(r) == "yes"

(* What CanTrade and GetUserState cache of the row they read: GetUserState *)
(* looks at the breaker and not at the limits.                             *)
Answer(r) == IF r.breaker = "tripped" THEN "no" ELSE "yes"

(* cacheUserState; an error of it is only logged.  Before it CanTrade      *)
(* fetches the open positions of a user who may trade, and an error of     *)
(* that is returned.                                                       *)
Fill(c) ==
    LET answer == Answer(call[c].copy)
    IN  /\ At(c, "fill")
        /\ \/ /\ cache' = answer
              /\ staleCache' = YesIf(answer = "yes" /\ row.breaker = "tripped")
              /\ Return(c, answer)
              /\ UNCHANGED failures
           \/ /\ Fail
              /\ \/ Return(c, answer)
                 \/ call[c].op = "canTrade" /\ answer = "yes" /\ Return(c, "none")
              /\ UNCHANGED <<cache, staleCache>>
    /\ UNCHANGED <<row, flag, excused, writes>>

(* The kill switch stores or deletes its flag; an error is only logged.    *)
SetFlag(c) ==
    /\ At(c, "flag")
    /\ \/ flag' = (IF call[c].op = "stop" THEN "on" ELSE "off") /\ UNCHANGED failures
       \/ Fail /\ UNCHANGED flag
    /\ Return(c, call[c].answer)
    /\ UNCHANGED <<row, cache, staleCache, excused, writes>>

(* ResetDaily: one UPDATE of every row; the cache is left alone.           *)
ResetDaily ==
    /\ writes > 0
    /\ writes' = writes - 1
    /\ row' = IF row.breaker = "absent" THEN row ELSE DefaultRow
    /\ excused' = "no"
    /\ UNCHANGED <<cache, flag, call, staleCache, failures>>

(* The TTL of the cached entry runs out.                                   *)
Expire ==
    /\ cache # "none"
    /\ cache' = "none"
    /\ staleCache' = "no"
    /\ UNCHANGED <<row, flag, call, excused, writes, failures>>

Step(c) ==
    \/ Lookup(c)
    \/ Read(c)
    \/ StoreDefault(c)
    \/ Save(c)
    \/ Trip(c)
    \/ Delete(c)
    \/ Fill(c)
    \/ SetFlag(c)

Next ==
    \/ \E c \in Callers : Start(c) \/ Step(c)
    \/ ResetDaily
    \/ Expire

(* Running calls are scheduled and redis expires its keys.                 *)
Fairness == WF_vars(Expire) /\ \A c \in Callers : WF_vars(Step(c))

Spec == Init /\ [][Next]_vars /\ Fairness

-----------------------------------------------------------------------------
Pcs == {"idle", "lookup", "read", "default", "save", "trip", "tripped", "drop", "fill", "flag"}
Breakers == {"absent", "clear", "tripped"}
Rows == [breaker : Breakers, pnl : Int, losses : Nat]

TypeOK ==
    /\ row \in Rows
    /\ cache \in {"none", "yes", "no"}
    /\ flag \in {"off", "on"}
    /\ call \in [Callers -> [pc : Pcs, op : ReadOps \cup WriteOps, pnl : Int, copy : Rows,
                             answer : {"none", "yes", "no", "set"}]]
    /\ staleCache \in {"no", "yes"}
    /\ excused \in {"no", "yes"}
    /\ writes \in Nat
    /\ failures \in Nat

(* A call that has written the row and not yet deleted the cached entry.   *)
Deleting(c) == \/ call[c].pc \in {"tripped", "drop"}
               \/ call[c].pc = "trip" /\ call[c].op = "record"

(* The cache lets a user trade whose breaker is tripped only while the     *)
(* call that wrote the row is about to delete the entry, or because the    *)
(* deletion failed, the kill switch does without, or a reader cached a row *)
(* it had read before the trip.                                            *)
StaleGrantIsExplained ==
    (cache = "yes" /\ row.breaker = "tripped")
        => staleCache = "yes" \/ \E c \in Callers : Deleting(c)

(* A row beyond its limits has its breaker tripped, or is about to have it *)
(* tripped by the call that recorded the loss, unless someone reset the    *)
(* breaker by hand or the trip failed: overlapping calls that overwrite    *)
(* each other's row never leave the breaker out.                           *)
ExceededIsTripped ==
    (row.breaker = "clear" /\ Exceeds(row))
        => excused = "yes" \/ \E c \in Callers : At(c, "trip")

(* A call that is about to overwrite the row with its breaker clear.       *)
Clearing(c) == \/ At(c, "default")
               \/ At(c, "save") /\ call[c].copy.breaker # "tripped"

(* A tripped breaker stays so until the day ends, unless a call resets it  *)
(* or holds a copy of the row from before the trip.                        *)
BreakerHolds ==
    [][(row.breaker = "tripped" /\ \A c \in Callers : ~Clearing(c))
           => row'.breaker = "tripped" \/ row' = DefaultRow]_vars

(* A breaker that stays tripped ends up blocking: whoever cached a row     *)
(* from before the trip, the cache stops letting the user trade for good.  *)
TripTakesEffect == <>[](row.breaker = "tripped") => <>[](cache # "yes")

=============================================================================
