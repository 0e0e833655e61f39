--------------------------- MODULE UserDataManager ---------------------------
(***************************************************************************)
(* The connections of the user data streams                                *)
(* (internal/adapters/websocket/userdata_manager.go) and the rows of       *)
(* exchange_accounts they follow (internal/services/exchange).             *)
(*                                                                         *)
(* Three periodic goroutines work on one map of connections: the           *)
(* reconciliation connects and removes what the rows ask for, the health   *)
(* check replaces connections that look dead, the renewal extends listen   *)
(* keys.  The map is locked for a lookup or a change, never from the       *)
(* decision to connect until the connection is in the map.  Every write of *)
(* a row is read, change, write back, is_active and listen key together.   *)
(*                                                                         *)
(* The shutdown cancels the context of the manager, upon which every       *)
(* client stops itself, and calls Stop, while passes are under way.        *)
(*                                                                         *)
(* Abstracted: credentials and their decryption, which exchange it is, the *)
(* minutes of a listen key and AddAccount (nothing calls it).              *)
(***************************************************************************)
EXTENDS Integers, FiniteSets

CONSTANTS
    Accounts,
    MaxToggles,    \* bound: what users do to their accounts
    MaxDrops,      \* bound: connections that go silent
    MaxFailures,   \* bound: failing queries and requests
    None

ASSUME ConstantsAssumption ==
    /\ IsFiniteSet(Accounts)
    /\ None \notin Accounts
    /\ {MaxToggles, MaxDrops, MaxFailures} \subseteq Nat

Managers == {"recon", "health", "renew"}
Procs    == Managers \cup {"user"}

(* A row: is_active ("gone" once it is deleted), and its listen key.       *)
Row(active, key) == [active |-> active, key |-> key]

VARIABLES
    row,        \* exchange_accounts
    pool,       \* the connection in the map: none, or how it is
    leaked,     \* open connections of an account that the map has lost
    count,      \* activeConnections
    proc,       \* per goroutine: where it is
    started,    \* loadAllActiveAccounts is over, the loops run
    mode,       \* running; the context cancelled; in Stop; stopped
    silenced,   \* history: accounts of which a connection went silent
    toggles, drops, failures

vars == <<row, pool, leaked, count, proc, started, mode, silenced, toggles, drops, failures>>

(* A goroutine: the accounts it still has to look at, those of them listed *)
(* with a valid key, the accounts to remove, and the call of the exchange  *)
(* service it is in, with the account and the copy of its row.             *)
At(pc, todo, keyed, remove, of, copy, op) ==
    [pc |-> pc, todo |-> todo, keyed |-> keyed \cap todo, remove |-> remove,
     of |-> of, copy |-> copy, op |-> op]

NoRow == Row("gone", "expired")

Pass(pc, todo, keyed, remove) == At(pc, todo, keyed, remove, None, NoRow, "none")

Idle == Pass("idle", {}, {}, {})

Init ==
    /\ row \in [Accounts -> {Row("yes", "expired"), Row("no", "expired")}]
    /\ pool = [a \in Accounts |-> "none"]
    /\ leaked = [a \in Accounts |-> 0]
    /\ count = 0
    /\ proc = [p \in Procs |-> Idle]
    /\ started = FALSE
    /\ mode = "running"
    /\ silenced = {}
    /\ toggles = MaxToggles
    /\ drops = MaxDrops
    /\ failures = MaxFailures

Running == mode = "running"

Fail == failures > 0 /\ failures' = failures - 1

(* IsConnected: a stream that is over before its first message ("mute")    *)
(* counts as healthy, one that was heard and is silent since, or whose     *)
(* client was stopped, does not.                                           *)
IsConnected(state) == state \in {"fresh", "live", "mute"}

(* The goroutine goes on with its account at pc, or with the next account, *)
(* or calls the exchange service.                                          *)
GoTo(p, pc) == proc' = [proc EXCEPT ![p].pc = pc]
GoOn(p) == proc' = [proc EXCEPT ![p] = Pass("next", @.todo, @.keyed, @.remove)]
Serve(p, op) == proc' = [proc EXCEPT ![p].pc = "get", ![p].op = op]

(* A listen key that is stored and valid is used.                          *)
Connecting(key) == IF key = "valid" THEN "dial" ELSE "key"

-----------------------------------------------------------------------------
Active == {a \in Accounts : row[a].active = "yes"}
Keyed  == {a \in Accounts : row[a].key = "valid"}
Connected == {a \in Accounts : pool[a] # "none"}

(* The client in the map has not been stopped.                             *)
Open(a) == pool[a] \notin {"none", "ended"}

(* A tick of the reconciliation, and loadAllActiveAccounts before the      *)
(* first: GetAllActive.                                                    *)
ListActive ==
    /\ Running /\ proc["recon"].pc = "idle"
    /\ \/ proc' = [proc EXCEPT !["recon"] = Pass("pool", Active, Keyed, {})]
          /\ UNCHANGED <<started, failures>>
       \/ Fail /\ started' = TRUE /\ UNCHANGED proc
    /\ UNCHANGED <<row, pool, leaked, count, mode, silenced, toggles, drops>>

(* Faulty variant: what is connected already is connected again.           *)
ComparePoolUnseen ==
    /\ proc["recon"].pc = "pool"
    /\ proc' = [proc EXCEPT !["recon"] =
           Pass("next", @.todo, @.keyed, Connected \ @.todo)]
    /\ UNCHANGED <<row, pool, leaked, count, started, mode, silenced, toggles, drops, failures>>

(* Faulty variant: the test of what is connected is negated.               *)
ComparePoolNegated ==
    /\ proc["recon"].pc = "pool"
    /\ proc' = [proc EXCEPT !["recon"] =
           Pass("next", @.todo \cap Connected, @.keyed, Connected \ @.todo)]
    /\ UNCHANGED <<row, pool, leaked, count, started, mode, silenced, toggles, drops, failures>>

(* The connected accounts, compared with the active ones.                  *)
ComparePool ==
    /\ proc["recon"].pc = "pool"
    /\ proc' = [proc EXCEPT !["recon"] =
           Pass("next", @.todo \ Connected, @.keyed, Connected \ @.todo)]
    /\ UNCHANGED <<row, pool, leaked, count, started, mode, silenced, toggles, drops, failures>>

(* A tick of the health check or of the renewal lists the map.             *)
ListPool(p) ==
    /\ started /\ Running
    /\ p \in {"health", "renew"}
    /\ proc[p].pc = "idle"
    /\ Connected # {}
    /\ proc' = [proc EXCEPT ![p] = Pass("next", Connected, {}, {})]
    /\ UNCHANGED <<row, pool, leaked, count, started, mode, silenced, toggles, drops, failures>>

(* Faulty variants: a client is counted off that is not there, and one is  *)
(* deleted without counting it.                                            *)
DisconnectAnyway(a) ==
    /\ count' = count - 1
    /\ pool' = [pool EXCEPT ![a] = "none"]

(* The client of the map, if any, is stopped and deleted under the lock.   *)
Disconnect(a) ==
    /\ count' = IF pool[a] # "none" THEN count - 1 ELSE count
    /\ pool' = [pool EXCEPT ![a] = "none"]

(* The next account of a pass: the reconciliation connects it, the health  *)
(* check looks at its connection, the renewal at its listen key.           *)
Take(p, a) ==
    /\ proc[p].pc = "next" /\ a \in proc[p].todo
    /\ LET at(pc) == proc' = [proc EXCEPT ![p] =
                         At(pc, @.todo \ {a}, @.keyed, @.remove, a, NoRow, "none")]
       IN  CASE p = "recon" -> at(Connecting(IF a \in proc[p].keyed THEN "valid" ELSE "expired"))
             [] p = "health" -> at(IF pool[a] = "none" \/ IsConnected(pool[a])
                                   THEN "next" ELSE "reconnect")
             [] p = "renew" -> at("renew")
    /\ UNCHANGED <<row, pool, leaked, count, started, mode, silenced, toggles, drops, failures>>

(* Faulty variant: the client is stopped and stays in the map.             *)
RemoveAccountKeepsEntry(a) ==
    /\ proc["recon"].pc = "next" /\ proc["recon"].todo = {}
    /\ a \in proc["recon"].remove
    /\ proc' = [proc EXCEPT !["recon"].remove = @ \ {a}]
    /\ UNCHANGED <<row, pool, leaked, count, started, mode, silenced, toggles, drops, failures>>

(* RemoveAccount for an account that is no longer active; an account that  *)
(* is not connected any more is an error.                                  *)
RemoveAccount(a) ==
    /\ proc["recon"].pc = "next" /\ proc["recon"].todo = {}
    /\ a \in proc["recon"].remove
    /\ Disconnect(a)
    /\ proc' = [proc EXCEPT !["recon"].remove = @ \ {a}]
    /\ UNCHANGED <<row, leaked, started, mode, silenced, toggles, drops, failures>>

(* The pass over the accounts is done.                                     *)
EndPass(p) ==
    /\ proc[p].pc = "next" /\ proc[p].todo = {} /\ proc[p].remove = {}
    /\ proc' = [proc EXCEPT ![p] = Idle]
    /\ started' = TRUE
    /\ UNCHANGED <<row, pool, leaked, count, mode, silenced, toggles, drops, failures>>

-----------------------------------------------------------------------------
(* reconnectAccount: whatever client the map holds by now is stopped; the  *)
(* query that follows fails if the context is cancelled.                   *)
Reconnect ==
    /\ proc["health"].pc = "reconnect"
    /\ Disconnect(proc["health"].of)
    /\ IF Running THEN GoTo("health", "load") ELSE GoOn("health")
    /\ UNCHANGED <<row, leaked, started, mode, silenced, toggles, drops, failures>>

(* GetByID; whether the account is still active is not asked.              *)
Load ==
    LET a == proc["health"].of
    IN  /\ proc["health"].pc = "load"
        /\ \/ /\ row[a].active # "gone"
              /\ GoTo("health", Connecting(row[a].key))
              /\ UNCHANGED failures
           \/ row[a].active = "gone" /\ GoOn("health") /\ UNCHANGED failures
           \/ Fail /\ GoOn("health")
        /\ UNCHANGED <<row, pool, leaked, count, started, mode, silenced, toggles, drops>>

(* ensureListenKey without a valid key: a new one is requested and stored; *)
(* refused credentials deactivate the account.                             *)
EnsureListenKey(p) ==
    /\ proc[p].pc = "key"
    /\ \/ Serve(p, "save") /\ UNCHANGED failures
       \/ Fail /\ (GoOn(p) \/ Serve(p, "deactivate"))
    /\ UNCHANGED <<row, pool, leaked, count, started, mode, silenced, toggles, drops>>

(* client.Connect and client.Start, which look at no context, and the new  *)
(* client replaces whatever is in the map by then.                         *)
Connect(p) ==
    LET a == proc[p].of
    IN  /\ proc[p].pc = "dial"
        /\ \/ /\ leaked' = IF Open(a) THEN [leaked EXCEPT ![a] = @ + 1] ELSE leaked
              /\ pool' = [pool EXCEPT ![a] = "fresh"]
              /\ count' = count + 1
              /\ UNCHANGED failures
           \/ Fail /\ UNCHANGED <<pool, leaked, count>>
        /\ GoOn(p)
        /\ UNCHANGED <<row, started, mode, silenced, toggles, drops>>

(* renewListenKeyForAccount: a key that is about to expire and whose       *)
(* account is in the map is renewed; refused credentials deactivate.       *)
RenewListenKey ==
    LET a == proc["renew"].of
    IN  /\ proc["renew"].pc = "renew"
        /\ \/ /\ row[a].active = "gone" \/ pool[a] = "none" \/ row[a].key = "valid"
              /\ GoOn("renew")
              /\ UNCHANGED failures
           \/ /\ row[a].active # "gone" /\ pool[a] # "none"
              /\ \/ Serve("renew", "extend") /\ UNCHANGED failures
                 \/ Fail /\ (GoOn("renew") \/ Serve("renew", "deactivate"))
        /\ UNCHANGED <<row, pool, leaked, count, started, mode, silenced, toggles, drops>>

-----------------------------------------------------------------------------
(* What users, time and the exchange do.  With a cancelled context the     *)
(* manager reads no row and no health any more, and none of it is followed.*)

(* A user activates, deactivates, edits or deletes an account.             *)
UserCall(a) ==
    /\ Running /\ toggles > 0
    /\ toggles' = toggles - 1
    /\ \/ /\ proc["user"].pc = "idle"
          /\ \E op \in {"activate", "deactivate", "edit"} :
                 proc' = [proc EXCEPT !["user"] = At("get", {}, {}, {}, a, NoRow, op)]
          /\ UNCHANGED row
       \/ row' = [row EXCEPT ![a] = NoRow] /\ UNCHANGED proc
    /\ UNCHANGED <<pool, leaked, count, started, mode, silenced, drops, failures>>

(* Where a goroutine goes after a call of the exchange service.            *)
Return(p, op, ok) ==
    CASE p = "user" -> proc' = [proc EXCEPT ![p] = Idle]
      [] p # "user" /\ op = "save" /\ ok ->
             proc' = [proc EXCEPT ![p].pc = "dial", ![p].op = "none", ![p].copy = NoRow]
      [] OTHER -> GoOn(p)

(* The exchange service: GetByID.                                          *)
Get(p) ==
    LET a == proc[p].of
    IN  /\ proc[p].pc = "get"
        /\ \/ /\ row[a].active # "gone"
              /\ proc' = [proc EXCEPT ![p].pc = "put", ![p].copy = row[a]]
              /\ UNCHANGED failures
           \/ row[a].active = "gone" /\ Return(p, proc[p].op, FALSE) /\ UNCHANGED failures
           \/ Fail /\ Return(p, proc[p].op, FALSE)
        /\ UNCHANGED <<row, pool, leaked, count, started, mode, silenced, toggles, drops>>

(* Faulty variant: saving a listen key activates the account.              *)
ResultActive(op, copy) ==
    CASE op \in {"save", "extend"} -> Row("yes", "valid")
      [] op = "activate" -> Row("yes", copy.key)
      [] op = "deactivate" -> Row("no", copy.key)
      [] op = "edit" -> copy

(* SaveListenKey, UpdateListenKeyExpiration, SetAccountActive,             *)
(* DeactivateAccount and UpdateAccount on the copy they have read.         *)
Result(op, copy) ==
    CASE op \in {"save", "extend"} -> Row(copy.active, "valid")
      [] op = "activate" -> Row("yes", copy.key)
      [] op = "deactivate" -> Row("no", copy.key)
      [] op = "edit" -> copy

(* The exchange service: Update, which changes nothing if the row is gone. *)
Put(p) ==
    LET a == proc[p].of
        op == proc[p].op
    IN  /\ proc[p].pc = "put"
        /\ \/ /\ row' = IF row[a].active = "gone" THEN row
                        ELSE [row EXCEPT ![a] = Result(op, proc[p].copy)]
              /\ Return(p, op, TRUE)
              /\ UNCHANGED failures
           \/ Fail /\ Return(p, op, FALSE) /\ UNCHANGED row
        /\ UNCHANGED <<pool, leaked, count, started, mode, silenced, toggles, drops>>

-----------------------------------------------------------------------------
(* The first message of a stream.                                          *)
Message(a) ==
    /\ Running
    /\ pool[a] = "fresh"
    /\ pool' = [pool EXCEPT ![a] = "live"]
    /\ UNCHANGED <<row, leaked, count, proc, started, mode, silenced, toggles, drops, failures>>

(* A stream ends or has nothing to say for 90 seconds: the client keeps    *)
(* calling itself connected, its heartbeat decides.                        *)
GoSilent(a) ==
    /\ Running
    /\ pool[a] \in {"fresh", "live"}
    /\ drops > 0
    /\ drops' = drops - 1
    /\ pool' = [pool EXCEPT ![a] = IF @ = "live" THEN "silent" ELSE "mute"]
    /\ silenced' = silenced \cup {a}
    /\ UNCHANGED <<row, leaked, count, proc, started, mode, toggles, failures>>

(* The listen key expires, in the row and in every copy of it.             *)
Expire(a) ==
    /\ Running
    /\ row[a].key = "valid"
    /\ row' = [row EXCEPT ![a].key = "expired"]
    /\ proc' = [p \in Procs |->
                   [proc[p] EXCEPT !.keyed = @ \ {a},
                                   !.copy = IF proc[p].of = a THEN Row(@.active, "expired") ELSE @]]
    /\ UNCHANGED <<pool, leaked, count, started, mode, silenced, toggles, drops, failures>>

-----------------------------------------------------------------------------
(* The shutdown.                                                           *)

(* What the cancellation leaves of a pass: every query and request of the  *)
(* manager fails from now on and the loops over accounts look at the       *)
(* context, so that only a connection being opened is still opened, and a  *)
(* client found dead is still dropped.                                     *)
Interrupted(p) ==
    CASE p = "user" -> proc[p]
      [] p # "user" /\ proc[p].pc \in {"dial", "reconnect"} ->
             [proc[p] EXCEPT !.todo = {}, !.keyed = {}, !.remove = {}]
      [] OTHER -> Idle

(* Container.Shutdown cancels the context, once Start has returned.        *)
Cancel ==
    /\ started /\ Running
    /\ mode' = "cancelled"
    /\ proc' = [p \in Procs |-> Interrupted(p)]
    /\ UNCHANGED <<row, pool, leaked, count, started, silenced, toggles, drops, failures>>

(* Faulty variant: only the clients of the map are stopped.                *)
ClientStopsPooled(a) ==
    /\ ~Running
    /\ Open(a) /\ pool' = [pool EXCEPT ![a] = "ended"]
    /\ UNCHANGED <<row, leaked, count, proc, started, mode, silenced, toggles, drops, failures>>

(* The goroutine client.Start leaves behind stops its client, the map may  *)
(* have lost it or not.                                                    *)
ClientStops(a) ==
    /\ ~Running
    /\ \/ leaked[a] > 0 /\ leaked' = [leaked EXCEPT ![a] = @ - 1] /\ UNCHANGED pool
       \/ Open(a) /\ pool' = [pool EXCEPT ![a] = "ended"] /\ UNCHANGED leaked
    /\ UNCHANGED <<row, count, proc, started, mode, silenced, toggles, drops, failures>>

(* Stop: the clients of the map are stopped and waited for.                *)
StopClients ==
    /\ mode = "cancelled"
    /\ mode' = "stopping"
    /\ pool' = [a \in Accounts |-> IF pool[a] = "none" THEN "none" ELSE "ended"]
    /\ UNCHANGED <<row, leaked, count, proc, started, silenced, toggles, drops, failures>>

(* Stop: the map is replaced, with whatever was connected meanwhile.       *)
ResetPool ==
    /\ mode = "stopping"
    /\ mode' = "stopped"
    /\ leaked' = [a \in Accounts |-> IF Open(a) THEN leaked[a] + 1 ELSE leaked[a]]
    /\ pool' = [a \in Accounts |-> "none"]
    /\ count' = 0
    /\ UNCHANGED <<row, proc, started, silenced, toggles, drops, failures>>

Stop == StopClients \/ ResetPool

-----------------------------------------------------------------------------
Work(p) ==
    \/ p = "recon" /\ (ListActive \/ ComparePool \/ \E a \in Accounts : RemoveAccount(a))
    \/ p = "health" /\ (Reconnect \/ Load)
    \/ p = "renew" /\ RenewListenKey
    \/ ListPool(p)
    \/ \E a \in Accounts : p # "user" /\ Take(p, a)
    \/ p # "user" /\ EndPass(p)
    \/ EnsureListenKey(p)
    \/ Connect(p)
    \/ Get(p)
    \/ Put(p)

Next ==
    \/ \E p \in Procs : Work(p)
    \/ \E a \in Accounts : UserCall(a) \/ Message(a) \/ GoSilent(a) \/ Expire(a)
    \/ Cancel
    \/ Stop
    \/ \E a \in Accounts : ClientStops(a)

(* The goroutines of the manager tick and run; so does a call of a user,   *)
(* the shutdown once it has begun, and the goroutine of every client.      *)
Fairness ==
    /\ \A p \in Procs : WF_vars(Work(p))
    /\ WF_vars(Stop)
    /\ \A a \in Accounts : WF_vars(ClientStops(a))

Spec == Init /\ [][Next]_vars /\ Fairness

-----------------------------------------------------------------------------
States == {"none", "fresh", "live", "silent", "mute", "ended"}
RowType == [active : {"yes", "no", "gone"}, key : {"valid", "expired"}]
Ops == {"none", "save", "extend", "activate", "deactivate", "edit"}
Pcs == {"idle", "pool", "next", "reconnect", "load", "key", "dial", "renew", "get", "put"}

TypeOK ==
    /\ row \in [Accounts -> RowType]
    /\ pool \in [Accounts -> States]
    /\ leaked \in [Accounts -> Nat]
    /\ count \in Nat
    /\ proc \in [Procs -> [pc : Pcs, todo : SUBSET Accounts, keyed : SUBSET Accounts,
                           remove : SUBSET Accounts, of : Accounts \cup {None},
                           copy : RowType, op : Ops]]
    /\ started \in BOOLEAN
    /\ mode \in {"running", "cancelled", "stopping", "stopped"}
    /\ silenced \subseteq Accounts
    /\ {toggles, drops, failures} \subseteq Nat

(* Reconciliations, however late, and users that switch accounts on and    *)
(* off never open a second connection of an account: that takes a health   *)
(* check that reconnects a silent one at the same time, or a connection    *)
(* made while Stop replaces the map.                                       *)
LeaksNeedReconnect ==
    \A a \in Accounts : leaked[a] > 0 => a \in silenced \/ mode = "stopped"

(* A call that is about to write a row with is_active set.                 *)
Activating(a) ==
    \E p \in Procs : /\ proc[p].pc = "put" /\ proc[p].of = a
                     /\ \/ proc[p].op = "activate"
                        \/ proc[p].op \in {"save", "extend", "edit"} /\ proc[p].copy.active = "yes"

(* A deactivated account becomes active again only if a user activates it, *)
(* or by a listen key or an edit saved with a copy of the row from before. *)
StaysDeactivated ==
    [][\A a \in Accounts :
          (row[a].active # "yes" /\ ~Activating(a)) => row'[a].active # "yes"]_vars

(* An account that stays active ends up connected, as far as the manager   *)
(* can see, whatever went wrong before, until the shutdown.                *)
ActiveIsConnected ==
    \A a \in Accounts : <>[](row[a].active = "yes" /\ Running) => <>[](IsConnected(pool[a]))

(* A stream nobody wants ends.  An account that stays deactivated or       *)
(* deleted ends up out of the map, although a health check may still       *)
(* reconnect it; and after a shutdown no stream is open, those included    *)
(* that the map had lost and those connected while Stop was running.       *)
UnwantedStreamsEnd ==
    \A a \in Accounts :
        /\ <>[](row[a].active # "yes" /\ Running) => <>[](pool[a] = "none")
        /\ <>[](mode = "stopped") => <>[](leaked[a] = 0 /\ ~Open(a))
=============================================================================
