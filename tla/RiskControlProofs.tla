-------------------------- MODULE RiskControlProofs --------------------------
(***************************************************************************)
(* Safety of RiskControl for every set of callers, results and limits.     *)
(***************************************************************************)
EXTENDS RiskControl, TLAPS

(* Who is about to save is a writer, and what a trip or an activation is   *)
(* about to store has its breaker tripped.                                 *)
Prepared(r) ==
    /\ r.pc = "save" => r.op \in {"record", "reset", "stop", "unstop"}
    /\ r.pc \in {"trip", "tripped"} => r.copy.breaker = "tripped"
    /\ (r.pc = "save" /\ r.op = "stop") => r.copy.breaker = "tripped"
    /\ (r.pc = "save" /\ r.op \in {"reset", "unstop"}) => r.copy.breaker = "clear"

CallsPrepared == \A c \in Callers : Prepared(call[c])

Calls == [pc : Pcs, op : ReadOps \cup WriteOps, pnl : Int, copy : Rows,
          answer : {"none", "yes", "no", "set"}]

IInv == TypeOK /\ CallsPrepared /\ StaleGrantIsExplained /\ ExceededIsTripped

-----------------------------------------------------------------------------
(* Rows.                                                                   *)
LEMMA RowTypes ==
    /\ NoRow \in Rows /\ DefaultRow \in Rows
    /\ DefaultRow.breaker = "clear" /\ ~Exceeds(DefaultRow)
    /\ ~Exceeds(NoRow)
BY ConstantsAssumption
   DEF NoRow, DefaultRow, Row, Rows, Breakers, Exceeds, Drawdown

LEMMA TrippedType ==
    ASSUME NEW r \in Rows
    PROVE  Tripped(r) \in Rows /\ Tripped(r).breaker = "tripped"
BY DEF Tripped, Rows, Breakers

LEMMA ClearedType ==
    ASSUME NEW r \in Rows
    PROVE  Cleared(r) \in Rows /\ Cleared(r).breaker = "clear"
BY DEF Cleared, Rows, Breakers

LEMMA TradedType ==
    ASSUME NEW r \in Rows, NEW pnl \in Int
    PROVE  Traded(r, pnl) \in Rows
<1>1. r.pnl + pnl \in Int /\ r.losses + 1 \in Nat /\ r.losses \in Nat /\ r.breaker \in Breakers
  BY DEF Rows
<1> QED BY <1>1 DEF Traded, Row, Rows

LEMMA IdleType ==
    ASSUME NEW op \in ReadOps \cup WriteOps, NEW a \in {"none", "yes", "no", "set"}
    PROVE  Idle(op, a) \in Calls /\ Prepared(Idle(op, a))
BY RowTypes DEF Idle, Fresh, Calls, Pcs, Prepared

LEMMA InitInv == Init => IInv
<1> SUFFICES ASSUME Init PROVE IInv
  OBVIOUS
<1>1. Idle("userState", "none") \in Calls /\ Prepared(Idle("userState", "none"))
  BY IdleType DEF ReadOps
<1>2. TypeOK
  BY <1>1, RowTypes, ConstantsAssumption DEF Init, TypeOK, Calls
<1>3. CallsPrepared
  BY <1>1 DEF Init, CallsPrepared
<1>4. StaleGrantIsExplained /\ ExceededIsTripped
  BY RowTypes DEF Init, StaleGrantIsExplained, ExceededIsTripped
<1> QED BY <1>2, <1>3, <1>4 DEF IInv

-----------------------------------------------------------------------------
(* A step replaces the record of one call by r.                            *)
LEMMA OneCall ==
    ASSUME IInv, NEW c \in Callers, NEW r \in Calls, Prepared(r),
           call' = [call EXCEPT ![c] = r]
    PROVE  /\ call' \in [Callers -> Calls]
           /\ CallsPrepared'
           /\ call'[c] = r
           /\ \A d \in Callers \ {c} : call'[d] = call[d]
BY DEF IInv, TypeOK, Calls, CallsPrepared

LEMMA MovedCall ==
    ASSUME IInv, NEW c \in Callers, NEW pc \in Pcs, NEW r \in Rows, GoTo(c, pc, r)
    PROVE  \E n \in Calls : /\ call' = [call EXCEPT ![c] = n]
                            /\ n.pc = pc /\ n.op = call[c].op /\ n.copy = r
<1> DEFINE n == [call[c] EXCEPT !.pc = pc, !.copy = r]
<1>1. call[c] \in Calls
  BY DEF IInv, TypeOK, Calls
<1>2. n \in Calls /\ n.pc = pc /\ n.op = call[c].op /\ n.copy = r
  BY <1>1 DEF Calls
<1>3. call' = [call EXCEPT ![c] = n]
  BY DEF GoTo, IInv, TypeOK
<1> HIDE DEF n
<1> QED BY <1>2, <1>3

(* What a call that goes to pc with copy r leaves behind.                  *)
LEMMA GoesTo ==
    ASSUME IInv, NEW c \in Callers, NEW pc \in Pcs, NEW r \in Rows, GoTo(c, pc, r),
           pc = "save" => call[c].op \in {"record", "reset", "stop", "unstop"},
           pc \in {"trip", "tripped"} => r.breaker = "tripped",
           (pc = "save" /\ call[c].op = "stop") => r.breaker = "tripped",
           (pc = "save" /\ call[c].op \in {"reset", "unstop"}) => r.breaker = "clear"
    PROVE  /\ call' \in [Callers -> Calls]
           /\ CallsPrepared'
           /\ call'[c].pc = pc /\ call'[c].op = call[c].op /\ call'[c].copy = r
           /\ \A d \in Callers \ {c} : call'[d] = call[d]
<1>1. PICK n \in Calls : /\ call' = [call EXCEPT ![c] = n]
                        /\ n.pc = pc /\ n.op = call[c].op /\ n.copy = r
  BY MovedCall
<1>2. Prepared(n)
  BY <1>1 DEF Prepared
<1> QED BY <1>1, <1>2, OneCall

LEMMA Returns ==
    ASSUME IInv, NEW c \in Callers, NEW a \in {"none", "yes", "no", "set"}, Return(c, a)
    PROVE  /\ call' \in [Callers -> Calls]
           /\ CallsPrepared'
           /\ call'[c].pc = "idle"
           /\ \A d \in Callers \ {c} : call'[d] = call[d]
<1>1. call[c].op \in ReadOps \cup WriteOps
  BY DEF IInv, TypeOK
<1>2. Idle(call[c].op, a) \in Calls /\ Prepared(Idle(call[c].op, a))
  BY <1>1, IdleType
<1>3. Idle(call[c].op, a).pc = "idle"
  BY DEF Idle, Fresh
<1>4. call' = [call EXCEPT ![c] = Idle(call[c].op, a)]
  BY DEF Return, IInv, TypeOK
<1> QED BY <1>2, <1>3, <1>4, OneCall

(* A step that leaves row and cache alone, of a call that is neither about *)
(* to trip the breaker nor about to delete the entry.                      *)
LEMMA QuietStep ==
    ASSUME IInv, NEW c \in Callers,
           UNCHANGED <<row, cache, staleCache, excused>>,
           flag' \in {"off", "on"}, writes' \in Nat, failures' \in Nat,
           call' \in [Callers -> Calls], CallsPrepared',
           call[c].pc \notin {"trip", "tripped", "drop"},
           \A d \in Callers \ {c} : call'[d] = call[d]
    PROVE  IInv'
<1>1. TypeOK'
  BY DEF IInv, TypeOK, Calls
<1>2. StaleGrantIsExplained'
  BY DEF IInv, StaleGrantIsExplained, Deleting
<1>3. ExceededIsTripped'
  BY DEF IInv, ExceededIsTripped, At
<1> QED BY <1>1, <1>2, <1>3 DEF IInv

-----------------------------------------------------------------------------
(* One lemma per action.                                                   *)
LEMMA StartInv == ASSUME IInv, NEW c \in Callers, Start(c) PROVE IInv'
<1>1. /\ UNCHANGED <<row, cache, flag, staleCache, excused, failures>>
      /\ call[c].pc = "idle"
      /\ writes' \in Nat
  BY DEF Start, At, IInv, TypeOK
<1>2. ASSUME NEW op \in ReadOps \cup WriteOps, NEW pc \in {"lookup", "read"}, NEW pnl \in Int,
             call' = [call EXCEPT ![c] = Fresh(pc, op, pnl, "none")]
      PROVE  IInv'
  <2>1. Fresh(pc, op, pnl, "none") \in Calls /\ Prepared(Fresh(pc, op, pnl, "none"))
    BY RowTypes DEF Fresh, Calls, Pcs, Prepared
  <2>2. /\ call' \in [Callers -> Calls] /\ CallsPrepared'
        /\ \A d \in Callers \ {c} : call'[d] = call[d]
    BY <1>2, <2>1, OneCall
  <2> QED BY <1>1, <2>2, QuietStep DEF IInv, TypeOK
<1>3. CASE \E op \in ReadOps : call' = [call EXCEPT ![c] = Fresh("lookup", op, 0, "none")]
  <2>1. PICK op \in ReadOps : call' = [call EXCEPT ![c] = Fresh("lookup", op, 0, "none")]
    BY <1>3
  <2>2. op \in ReadOps \cup WriteOps /\ 0 \in Int /\ "lookup" \in {"lookup", "read"}
    OBVIOUS
  <2> QED BY ONLY <1>2, <2>1, <2>2
<1>4. CASE \E op \in WriteOps, pnl \in Pnls \cup {0} :
              call' = [call EXCEPT ![c] = Fresh("read", op, pnl, "none")]
  <2>1. \A pnl \in Pnls \cup {0} : pnl \in Int
    BY ConstantsAssumption
  <2> QED BY <1>2, <1>4, <2>1
<1> QED BY <1>3, <1>4 DEF Start

LEMMA LookupInv == ASSUME IInv, NEW c \in Callers, Lookup(c) PROVE IInv'
<1>1. /\ UNCHANGED <<row, cache, flag, staleCache, excused, writes>>
      /\ call[c].pc = "lookup" /\ call[c].copy \in Rows
      /\ failures' \in Nat /\ cache \in {"none", "yes", "no"}
  BY DEF Lookup, At, Fail, IInv, TypeOK
<1>2. CASE Return(c, cache)
  BY <1>1, <1>2, Returns, QuietStep DEF IInv, TypeOK
<1>3. CASE GoTo(c, "read", call[c].copy)
  <2>1. "read" \in Pcs
    BY DEF Pcs
  <2>2. /\ call' \in [Callers -> Calls] /\ CallsPrepared'
        /\ \A d \in Callers \ {c} : call'[d] = call[d]
    BY <1>1, <1>3, <2>1, GoesTo
  <2> QED BY <1>1, <2>2, QuietStep DEF IInv, TypeOK
<1> QED BY <1>2, <1>3 DEF Lookup

LEMMA ReadInv == ASSUME IInv, NEW c \in Callers, Read(c) PROVE IInv'
<1>1. /\ UNCHANGED <<row, cache, flag, staleCache, excused, writes>>
      /\ call[c].pc = "read" /\ row \in Rows
      /\ call[c].op \in ReadOps \cup WriteOps /\ call[c].pnl \in Int
      /\ failures' \in Nat
  BY DEF Read, At, Fail, IInv, TypeOK
<1>2. ASSUME NEW pc \in Pcs, NEW r \in Rows, GoTo(c, pc, r),
             pc = "save" => call[c].op \in {"record", "reset", "stop", "unstop"},
             pc \in {"trip", "tripped"} => r.breaker = "tripped",
             (pc = "save" /\ call[c].op = "stop") => r.breaker = "tripped",
             (pc = "save" /\ call[c].op \in {"reset", "unstop"}) => r.breaker = "clear"
      PROVE  IInv'
  <2>1. /\ call' \in [Callers -> Calls] /\ CallsPrepared'
        /\ \A d \in Callers \ {c} : call'[d] = call[d]
    BY <1>2, GoesTo
  <2> QED BY <1>1, <2>1, QuietStep DEF IInv, TypeOK
<1>3. ASSUME NEW r \in Rows, Decide(c, r) PROVE IInv'
  <2>1. /\ Tripped(r) \in Rows /\ Tripped(r).breaker = "tripped"
        /\ Cleared(r) \in Rows /\ Cleared(r).breaker = "clear"
        /\ Traded(r, call[c].pnl) \in Rows
    BY <1>1, TrippedType, ClearedType, TradedType
  <2>2. {"trip", "fill", "save"} \subseteq Pcs
    BY DEF Pcs
  <2>3. \/ GoTo(c, "trip", Tripped(r))
        \/ GoTo(c, "fill", r)
        \/ call[c].op = "record" /\ GoTo(c, "save", Traded(r, call[c].pnl))
        \/ call[c].op = "stop" /\ GoTo(c, "save", Tripped(r))
        \/ call[c].op \in {"reset", "unstop"} /\ GoTo(c, "save", Cleared(r))
    BY <1>1, <1>3 DEF Decide, ReadOps, WriteOps
  <2>4. CASE GoTo(c, "trip", Tripped(r))
    BY <1>2, <2>1, <2>2, <2>4
  <2>5. CASE GoTo(c, "fill", r)
    BY <1>2, <2>2, <2>5
  <2>6. CASE call[c].op = "record" /\ GoTo(c, "save", Traded(r, call[c].pnl))
    BY <1>2, <2>1, <2>2, <2>6
  <2>7. CASE call[c].op = "stop" /\ GoTo(c, "save", Tripped(r))
    BY <1>2, <2>1, <2>2, <2>7
  <2>8. CASE call[c].op \in {"reset", "unstop"} /\ GoTo(c, "save", Cleared(r))
    BY <1>2, <2>1, <2>2, <2>8
  <2> QED BY <2>3, <2>4, <2>5, <2>6, <2>7, <2>8
<1>4. ASSUME NotFound(c) PROVE IInv'
  <2>1. \/ GoTo(c, "default", DefaultRow)
        \/ Return(c, "none")
        \/ Decide(c, DefaultRow)
    BY <1>4 DEF NotFound
  <2>2. CASE GoTo(c, "default", DefaultRow)
    <3>1. "default" \in Pcs
      BY DEF Pcs
    <3> QED BY <1>2, <2>2, <3>1, RowTypes
  <2>3. CASE Return(c, "none")
    BY <1>1, <2>3, Returns, QuietStep DEF IInv, TypeOK
  <2>4. CASE Decide(c, DefaultRow)
    BY <1>3, <2>4, RowTypes
  <2> QED BY <2>1, <2>2, <2>3, <2>4
<1> QED BY <1>1, <1>3, <1>4 DEF Read

LEMMA SetFlagInv == ASSUME IInv, NEW c \in Callers, SetFlag(c) PROVE IInv'
<1>1. /\ UNCHANGED <<row, cache, staleCache, excused, writes>>
      /\ call[c].pc = "flag" /\ Return(c, call[c].answer)
      /\ call[c].answer \in {"none", "yes", "no", "set"}
      /\ flag' \in {"off", "on"} /\ failures' \in Nat
  BY DEF SetFlag, At, Fail, IInv, TypeOK
<1> QED BY <1>1, Returns, QuietStep DEF IInv, TypeOK

LEMMA StoreDefaultInv == ASSUME IInv, NEW c \in Callers, StoreDefault(c) PROVE IInv'
<1>1. call[c].pc = "default" /\ UNCHANGED <<cache, flag, writes>> /\ "fill" \in Pcs
  BY DEF StoreDefault, At, Pcs
<1>2. CASE /\ Store(DefaultRow, FALSE)
           /\ excused' = "no"
           /\ GoTo(c, "fill", DefaultRow)
           /\ UNCHANGED failures
  <2>1. /\ call' \in [Callers -> Calls] /\ CallsPrepared'
        /\ \A d \in Callers \ {c} : call'[d] = call[d]
    BY <1>1, <1>2, GoesTo, RowTypes
  <2>2. row' = DefaultRow /\ staleCache' = staleCache
    BY <1>2, RowTypes DEF Store
  <2>3. TypeOK'
    BY <1>1, <1>2, <2>1, <2>2, RowTypes DEF IInv, TypeOK, Calls
  <2>4. StaleGrantIsExplained' /\ ExceededIsTripped'
    BY <2>2, RowTypes DEF StaleGrantIsExplained, ExceededIsTripped
  <2> QED BY <2>1, <2>3, <2>4 DEF IInv
<1>3. CASE Fail /\ Return(c, "none") /\ UNCHANGED <<row, staleCache, excused>>
  <2>1. failures' \in Nat
    BY <1>3 DEF Fail, IInv, TypeOK
  <2> QED BY <1>1, <1>3, <2>1, Returns, QuietStep DEF IInv, TypeOK
<1> QED BY <1>2, <1>3 DEF StoreDefault

(* Saving: a tripped row that is not followed by a deletion is the kill    *)
(* switch's, a clear one beyond its limits is about to be tripped or has   *)
(* been reset.                                                             *)
LEMMA SaveInv == ASSUME IInv, NEW c \in Callers, Save(c) PROVE IInv'
<1> DEFINE r == call[c].copy
<1>1. /\ call[c].pc = "save" /\ Prepared(call[c])
      /\ UNCHANGED <<cache, flag, writes>>
      /\ r \in Rows /\ Tripped(r) \in Rows /\ Tripped(r).breaker = "tripped"
      /\ call[c].op \in {"record", "reset", "stop", "unstop"}
      /\ {"trip", "drop", "flag"} \subseteq Pcs
  BY TrippedType DEF Save, At, Prepared, Pcs, IInv, TypeOK, CallsPrepared
<1>2. CASE /\ Fail
           /\ IF call[c].op = "stop" THEN GoTo(c, "flag", r) ELSE Return(c, "none")
           /\ UNCHANGED <<row, staleCache, excused>>
  <2>1. failures' \in Nat
    BY <1>2 DEF Fail, IInv, TypeOK
  <2>2. GoTo(c, "flag", r) \/ Return(c, "none")
    BY <1>2
  <2>3. /\ call' \in [Callers -> Calls] /\ CallsPrepared'
        /\ \A d \in Callers \ {c} : call'[d] = call[d]
    BY <1>1, <2>2, GoesTo, Returns
  <2> QED BY <1>1, <1>2, <2>1, <2>3, QuietStep DEF IInv, TypeOK
<1>3. CASE /\ Store(r, call[c].op \in {"record", "reset"})
           /\ excused' = YesIf(/\ Exceeds(r)
                               /\ \/ excused = "yes"
                                  \/ call[c].op \in {"reset", "unstop"})
           /\ CASE call[c].op = "record" ->
                       IF Exceeds(r) THEN GoTo(c, "trip", Tripped(r)) ELSE GoTo(c, "drop", r)
                [] call[c].op = "reset" -> GoTo(c, "drop", r)
                [] OTHER -> call' = [call EXCEPT ![c].pc = "flag", ![c].answer = "set"]
           /\ UNCHANGED failures
  <2>1. /\ row' = r
        /\ staleCache' \in {"no", "yes"} /\ excused' \in {"no", "yes"}
        /\ (cache = "yes" /\ r.breaker = "tripped" /\ call[c].op \notin {"record", "reset"})
               => staleCache' = "yes"
        /\ (Exceeds(r) /\ call[c].op \in {"reset", "unstop"}) => excused' = "yes"
    BY <1>3 DEF Store, YesIf, IInv, TypeOK
  <2>2. \/ call[c].op = "record" /\ Exceeds(r) /\ GoTo(c, "trip", Tripped(r))
        \/ call[c].op = "record" /\ ~Exceeds(r) /\ GoTo(c, "drop", r)
        \/ call[c].op = "reset" /\ GoTo(c, "drop", r)
        \/ /\ call[c].op \in {"stop", "unstop"}
           /\ call' = [call EXCEPT ![c].pc = "flag", ![c].answer = "set"]
    BY <1>1, <1>3
  <2>3. /\ call' \in [Callers -> Calls] /\ CallsPrepared'
        /\ call[c].op = "record" => /\ call'[c].op = "record"
                                    /\ call'[c].pc \in {"trip", "drop"}
                                    /\ Exceeds(r) => call'[c].pc = "trip"
    <3>1. CASE call[c].op = "record" /\ Exceeds(r) /\ GoTo(c, "trip", Tripped(r))
      BY <1>1, <3>1, GoesTo
    <3>2. CASE call[c].op = "record" /\ ~Exceeds(r) /\ GoTo(c, "drop", r)
      BY <1>1, <3>2, GoesTo
    <3>3. CASE call[c].op = "reset" /\ GoTo(c, "drop", r)
      BY <1>1, <3>3, GoesTo
    <3>4. CASE /\ call[c].op \in {"stop", "unstop"}
               /\ call' = [call EXCEPT ![c].pc = "flag", ![c].answer = "set"]
      <4> DEFINE n == [call[c] EXCEPT !.pc = "flag", !.answer = "set"]
      <4>1. n \in Calls /\ n.pc = "flag"
        BY <1>1 DEF IInv, TypeOK, Calls
      <4>2. call' = [call EXCEPT ![c] = n]
        BY <3>4 DEF IInv, TypeOK
      <4> HIDE DEF n
      <4>3. Prepared(n)
        BY <4>1 DEF Prepared
      <4> QED BY <3>4, <4>1, <4>2, <4>3, OneCall
    <3> QED BY <2>2, <3>1, <3>2, <3>3, <3>4
  <2>4. TypeOK'
    BY <1>1, <1>3, <2>1, <2>3 DEF IInv, TypeOK, Calls
  <2>5. StaleGrantIsExplained'
    <3>1. CASE call[c].op = "record"
      BY <2>3, <3>1 DEF StaleGrantIsExplained, Deleting
    <3>2. CASE call[c].op \in {"reset", "unstop"}
      BY <1>1, <2>1, <3>2 DEF StaleGrantIsExplained, Prepared
    <3>3. CASE call[c].op = "stop"
      BY <1>1, <2>1, <3>3 DEF StaleGrantIsExplained
    <3> QED BY <1>1, <3>1, <3>2, <3>3
  <2>6. ExceededIsTripped'
    <3>1. CASE call[c].op = "record"
      BY <2>1, <2>3, <3>1 DEF ExceededIsTripped, At
    <3>2. CASE call[c].op \in {"reset", "unstop"}
      BY <2>1, <3>2 DEF ExceededIsTripped
    <3>3. CASE call[c].op = "stop"
      BY <1>1, <2>1, <3>3 DEF ExceededIsTripped, Prepared
    <3> QED BY <1>1, <3>1, <3>2, <3>3
  <2> QED BY <2>3, <2>4, <2>5, <2>6 DEF IInv
<1> QED BY <1>2, <1>3 DEF Save

LEMMA TripInv == ASSUME IInv, NEW c \in Callers, Trip(c) PROVE IInv'
<1> DEFINE r == call[c].copy
<1>1. /\ call[c].pc = "trip" /\ r \in Rows /\ r.breaker = "tripped"
      /\ UNCHANGED <<cache, flag, writes>>
      /\ "tripped" \in Pcs
  BY DEF Trip, At, Prepared, Pcs, IInv, TypeOK, CallsPrepared
<1>2. CASE /\ Store(r, TRUE)
           /\ excused' = "no"
           /\ GoTo(c, "tripped", r)
           /\ UNCHANGED failures
  <2>1. row' = r /\ staleCache' = staleCache
    BY <1>2 DEF Store
  <2>2. /\ call' \in [Callers -> Calls] /\ CallsPrepared' /\ call'[c].pc = "tripped"
    BY <1>1, <1>2, GoesTo
  <2>3. TypeOK'
    BY <1>1, <1>2, <2>1, <2>2 DEF IInv, TypeOK, Calls
  <2>4. StaleGrantIsExplained'
    BY <2>2 DEF StaleGrantIsExplained, Deleting
  <2>5. ExceededIsTripped'
    BY <1>1, <2>1 DEF ExceededIsTripped
  <2> QED BY <2>2, <2>3, <2>4, <2>5 DEF IInv
<1>3. CASE /\ Fail
           /\ staleCache' = YesIf(staleCache = "yes" \/ cache = "yes")
           /\ excused' = YesIf(excused = "yes" \/ Exceeds(row))
           /\ Return(c, "no")
           /\ UNCHANGED row
  <2>1. /\ staleCache' \in {"no", "yes"} /\ excused' \in {"no", "yes"}
        /\ cache = "yes" => staleCache' = "yes"
        /\ Exceeds(row) => excused' = "yes"
        /\ failures' \in Nat
    BY <1>3 DEF YesIf, Fail, IInv, TypeOK
  <2>2. call' \in [Callers -> Calls] /\ CallsPrepared'
    BY <1>3, Returns
  <2>3. TypeOK'
    BY <1>1, <1>3, <2>1, <2>2 DEF IInv, TypeOK, Calls
  <2>4. StaleGrantIsExplained'
    BY <1>1, <2>1 DEF StaleGrantIsExplained
  <2>5. ExceededIsTripped'
    BY <1>3, <2>1 DEF ExceededIsTripped
  <2> QED BY <2>2, <2>3, <2>4, <2>5 DEF IInv
<1> QED BY <1>2, <1>3 DEF Trip

LEMMA DeleteInv == ASSUME IInv, NEW c \in Callers, Delete(c) PROVE IInv'
<1>1. /\ call[c].pc \in {"tripped", "drop"} /\ call[c].copy \in Rows
      /\ UNCHANGED <<row, flag, excused, writes>>
      /\ "drop" \in Pcs
  BY DEF Delete, At, Pcs, IInv, TypeOK
<1>2. /\ failures' \in Nat
      /\ cache' \in {"none", "yes", "no"}
      /\ staleCache' \in {"no", "yes"}
      /\ cache' = "yes" => staleCache' = "yes"
  BY DEF Delete, YesIf, Fail, IInv, TypeOK
<1>3. \/ GoTo(c, "drop", call[c].copy)
      \/ \E a \in {"no", "none"} : Return(c, a)
  BY DEF Delete
<1>4. /\ call' \in [Callers -> Calls] /\ CallsPrepared'
      /\ call'[c].pc # "trip"
      /\ \A d \in Callers \ {c} : call'[d] = call[d]
  <2>1. CASE GoTo(c, "drop", call[c].copy)
    BY <1>1, <2>1, GoesTo
  <2>2. CASE \E a \in {"no", "none"} : Return(c, a)
    BY <2>2, Returns
  <2> QED BY <1>3, <2>1, <2>2
<1>5. TypeOK'
  BY <1>1, <1>2, <1>4 DEF IInv, TypeOK, Calls
<1>6. StaleGrantIsExplained'
  BY <1>2 DEF StaleGrantIsExplained
<1>7. ExceededIsTripped'
  BY <1>1, <1>4 DEF IInv, ExceededIsTripped, At
<1> QED BY <1>4, <1>5, <1>6, <1>7 DEF IInv

LEMMA FillInv == ASSUME IInv, NEW c \in Callers, Fill(c) PROVE IInv'
<1> DEFINE answer == Answer(call[c].copy)
<1>1. /\ call[c].pc = "fill" /\ UNCHANGED <<row, flag, excused, writes>>
      /\ answer \in {"yes", "no"}
  BY DEF Fill, At, Answer
<1> HIDE DEF answer
<1>2. CASE /\ cache' = answer
           /\ staleCache' = YesIf(answer = "yes" /\ row.breaker = "tripped")
           /\ Return(c, answer)
           /\ UNCHANGED failures
  <2>1. /\ staleCache' \in {"no", "yes"}
        /\ (cache' = "yes" /\ row'.breaker = "tripped") => staleCache' = "yes"
    BY <1>1, <1>2 DEF YesIf
  <2>2. /\ call' \in [Callers -> Calls] /\ CallsPrepared'
        /\ \A d \in Callers \ {c} : call'[d] = call[d]
    BY <1>1, <1>2, Returns
  <2>3. TypeOK'
    BY <1>1, <1>2, <2>1, <2>2 DEF IInv, TypeOK, Calls
  <2>4. StaleGrantIsExplained'
    BY <2>1 DEF StaleGrantIsExplained
  <2>5. ExceededIsTripped'
    BY <1>1, <2>2 DEF IInv, ExceededIsTripped, At
  <2> QED BY <2>2, <2>3, <2>4, <2>5 DEF IInv
<1>3. CASE Fail /\ UNCHANGED <<cache, staleCache>> /\ \E a \in {"yes", "no", "none"} : Return(c, a)
  <2>1. failures' \in Nat
    BY <1>3 DEF Fail, IInv, TypeOK
  <2>2. /\ call' \in [Callers -> Calls] /\ CallsPrepared'
        /\ \A d \in Callers \ {c} : call'[d] = call[d]
    BY <1>3, Returns
  <2> QED BY <1>1, <1>3, <2>1, <2>2, QuietStep DEF IInv, TypeOK
<1> QED BY <1>1, <1>2, <1>3 DEF Fill, answer

LEMMA EnvironmentInv == ASSUME IInv, ResetDaily \/ Expire PROVE IInv'
<1>1. CASE ResetDaily
  <2>1. /\ UNCHANGED <<cache, flag, call, staleCache, failures>>
        /\ writes' \in Nat /\ excused' = "no"
        /\ row' \in Rows /\ row'.breaker # "tripped"
        /\ row'.breaker = "clear" => ~Exceeds(row')
    BY <1>1, RowTypes DEF ResetDaily, IInv, TypeOK
  <2>2. TypeOK' /\ CallsPrepared'
    BY <2>1 DEF IInv, TypeOK, CallsPrepared
  <2> QED BY <2>1, <2>2 DEF IInv, StaleGrantIsExplained, ExceededIsTripped
<1>2. CASE Expire
  <2>1. /\ UNCHANGED <<row, flag, call, excused, writes, failures>>
        /\ cache' = "none" /\ staleCache' = "no"
    BY <1>2 DEF Expire
  <2>2. TypeOK' /\ CallsPrepared'
    BY <2>1 DEF IInv, TypeOK, CallsPrepared
  <2>3. StaleGrantIsExplained'
    BY <2>1 DEF StaleGrantIsExplained
  <2>4. ExceededIsTripped'
    BY <2>1 DEF IInv, ExceededIsTripped, At
  <2> QED BY <2>2, <2>3, <2>4 DEF IInv
<1> QED BY <1>1, <1>2

LEMMA StepInv == IInv /\ [Next]_vars => IInv'
<1> SUFFICES ASSUME IInv, [Next]_vars PROVE IInv'
  OBVIOUS
<1>1. ASSUME NEW c \in Callers, Start(c) \/ Step(c) PROVE IInv'
  BY <1>1, StartInv, LookupInv, ReadInv, StoreDefaultInv, SaveInv, TripInv, DeleteInv,
     FillInv, SetFlagInv DEF Step
<1>2. CASE ResetDaily \/ Expire
  BY <1>2, EnvironmentInv
<1>3. CASE UNCHANGED vars
  BY <1>3 DEF vars, IInv, TypeOK, CallsPrepared, StaleGrantIsExplained, ExceededIsTripped,
              Deleting, At
<1> QED BY <1>1, <1>2, <1>3 DEF Next

-----------------------------------------------------------------------------
(* Rows, cached entries and calls stay what they are supposed to be.       *)
THEOREM TypeCorrect == Spec => []TypeOK
<1>1. IInv => TypeOK
  BY DEF IInv
<1> QED BY <1>1, InitInv, StepInv, PTL DEF Spec

(* The cache grants against a tripped breaker only for one of the four     *)
(* known reasons, however many callers overlap.                            *)
THEOREM StaleGrants == Spec => []StaleGrantIsExplained
<1>1. IInv => StaleGrantIsExplained
  BY DEF IInv
<1> QED BY <1>1, InitInv, StepInv, PTL DEF Spec

(* No overlap of callers leaves a row beyond its limits without a breaker. *)
THEOREM LimitsTrip == Spec => []ExceededIsTripped
<1>1. IInv => ExceededIsTripped
  BY DEF IInv
<1> QED BY <1>1, InitInv, StepInv, PTL DEF Spec

(* A tripped breaker is cleared only by the end of the day, by hand, or by *)
(* a call with an older copy of the row.                                   *)
THEOREM BreakerIsHeld == Spec => BreakerHolds
<1>1. IInv /\ [Next]_vars =>
        [(row.breaker = "tripped" /\ \A c \in Callers : ~Clearing(c))
            => row'.breaker = "tripped" \/ row' = DefaultRow]_vars
  <2> SUFFICES ASSUME IInv, [Next]_vars, row.breaker = "tripped",
                      \A c \in Callers : ~Clearing(c)
               PROVE  row'.breaker = "tripped" \/ row' = DefaultRow
    OBVIOUS
  <2>1. ASSUME NEW c \in Callers, Save(c) PROVE row'.breaker = "tripped"
    <3>1. row' = call[c].copy \/ row' = row
      BY <2>1 DEF Save, Store
    <3>2. call[c].copy.breaker = "tripped"
      BY <2>1 DEF Clearing, Save, At
    <3> QED BY <3>1, <3>2
  <2>2. ASSUME NEW c \in Callers, Trip(c) PROVE row'.breaker = "tripped"
    <3>1. row' = call[c].copy \/ row' = row
      BY <2>2 DEF Trip, Store
    <3>2. call[c].copy.breaker = "tripped"
      BY <2>2 DEF Trip, At, IInv, CallsPrepared, Prepared
    <3> QED BY <3>1, <3>2
  <2>3. ASSUME NEW c \in Callers, StoreDefault(c) PROVE FALSE
    BY <2>3 DEF Clearing, StoreDefault
  <2>4. ASSUME NEW c \in Callers,
               \/ Start(c) \/ Lookup(c) \/ Read(c) \/ Delete(c) \/ Fill(c) \/ SetFlag(c)
        PROVE  row' = row
    BY <2>4 DEF Start, Lookup, Read, Delete, Fill, SetFlag
  <2>5. ASSUME ResetDaily \/ Expire PROVE row' = row \/ row' = DefaultRow
    BY <2>5 DEF ResetDaily, Expire
  <2>6. CASE UNCHANGED vars
    BY <2>6 DEF vars
  <2> QED BY <2>1, <2>2, <2>3, <2>4, <2>5, <2>6 DEF Next, Step
<1> QED BY <1>1, InitInv, StepInv, PTL DEF Spec, BreakerHolds
=============================================================================
