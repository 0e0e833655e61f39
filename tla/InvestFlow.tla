----------------------------- MODULE InvestFlow -----------------------------
(***************************************************************************)
(* One user's way from /invest to a portfolio.  The Telegram webhook       *)
(* (pkg/telegram/webhook.go) starts a goroutine for every update of the    *)
(* user; the menu (menu_registry.go, menu_navigator.go, adapters/telegram/ *)
(* invest_menu.go) keeps its session in Redis, where every handler reads   *)
(* the whole of it, changes its copy and writes the whole of it back,      *)
(* several times, without a lock.  A number ends the menu and publishes a  *)
(* job for the consumer of system events (PortfolioJobs).                  *)
(*                                                                         *)
(* A keyboard is identified by the number of its drawing, which stands for *)
(* the random keys of its buttons.  A session's data are the screens whose *)
(* choice it holds.  Menus of other types are left out.                    *)
(***************************************************************************)
EXTENDS Naturals, Sequences, SequencesExt, FiniteSets

CONSTANTS
    Handlers,      \* goroutines of the webhook that may run at a time
    MaxUpdates,    \* bound: updates the user sends
    MaxSessions,   \* bound: sessions created
    MaxCrashes,    \* bound: crashes of the process
    NoSession      \* no such key in Redis

ASSUME InvestAssumption == MaxUpdates \in Nat /\ MaxSessions \in Nat /\ MaxCrashes \in Nat

VARIABLES
    session,   \* the user's session in Redis
    shown,     \* the keyboard drawn last
    seen,      \* the keyboards the user has had
    drawn,     \* keyboards built so far
    created,   \* sessions created so far
    h,         \* the state of each handler
    sent,      \* updates the user has sent
    jobs,      \* the topic of system events
    flaws,     \* history: what went wrong for a session
    crashes    \* crashes so far

vars == <<session, shown, seen, drawn, created, h, sent, jobs, flaws, crashes>>

Screens == {"sel", "mkt", "risk", "amt"}
ChoiceScreens == {"sel", "mkt", "risk"}

(* NextScreenID of the screens.                                            *)
NextScreen == [sel |-> "mkt", mkt |-> "risk", risk |-> "amt"]

Keyboard == [n : 0 .. MaxUpdates, of : Screens]
Session == [id : 1 .. MaxSessions, menu : {"", "invest"}, screen : Screens,
            stack : Seq(Screens), data : SUBSET ChoiceScreens, keys : Keyboard]

ASSUME NoSessionAssumption == NoSession \notin Session

NewSession(id) ==
    [id |-> id, menu |-> "", screen |-> "sel", stack |-> <<>>, data |-> {},
     keys |-> [n |-> 0, of |-> "sel"]]

(* What a handler is about to do, its copy of the session, the session as  *)
(* it last read or wrote it, and the keyboard its update came from.        *)
Idle == [pc |-> "idle", copy |-> NoSession, base |-> NoSession, key |-> [n |-> 0, of |-> "amt"]]

Running == {x \in Handlers : h[x].pc # "idle"}

Init ==
    /\ session = NoSession
    /\ shown = [n |-> 0, of |-> "sel"]
    /\ seen = {}
    /\ drawn = 0
    /\ created = 0
    /\ h = [x \in Handlers |-> Idle]
    /\ sent = 0
    /\ jobs = <<>>
    /\ flaws = {}
    /\ crashes = 0

-----------------------------------------------------------------------------
(* The session in Redis.                                                   *)

IdsOf(S) == {s.id : s \in S \ {NoSession}}

(* A write over a session the handler has not seen loses an update: of its *)
(* own session, of the one it overwrites, or a deletion.                   *)
NoteLoss(x, s) ==
    flaws' = flaws \cup (IF session = h[x].base THEN {} ELSE IdsOf({s, session, h[x].base}) \X {"lost"})

(* SaveSession succeeds and the handler goes on.                           *)
Save(x, s, next) ==
    /\ session' = s
    /\ NoteLoss(x, s)
    /\ h' = [h EXCEPT ![x] = [pc |-> next, copy |-> s, base |-> s, key |-> @.key]]

Begin(x, pc, key) ==
    /\ h[x].pc = "idle"
    /\ sent < MaxUpdates
    /\ sent' = sent + 1
    /\ h' = [h EXCEPT ![x] = [Idle EXCEPT !.pc = pc, !.key = key]]
    /\ UNCHANGED <<session, shown, seen, drawn, created, jobs, flaws, crashes>>

(* The updates: a command, a button of any keyboard the user has had (old  *)
(* messages stay when they cannot be edited), Back, a number.              *)
Receive(x) ==
    \/ \E pc \in {"start", "cancel", "back", "text"} : Begin(x, pc, Idle.key)
    \/ \E key \in seen : key.of \in ChoiceScreens /\ Begin(x, "press", key)

-----------------------------------------------------------------------------
(* /invest: StartInvest and StartMenu.                                     *)

(* There are active accounts, and the old session is looked up.            *)
StartInvest(x) ==
    /\ h[x].pc = "start"
    /\ h' = [h EXCEPT ![x].pc = IF session = NoSession THEN "create" ELSE "replace",
                      ![x].base = session]
    /\ UNCHANGED <<session, shown, seen, drawn, created, sent, jobs, flaws, crashes>>

(* The deletion of the old session may fail, which is ignored.             *)
ReplaceSession(x) ==
    /\ h[x].pc = "replace"
    /\ session' \in {NoSession, session}
    /\ NoteLoss(x, NoSession)
    /\ h' = [h EXCEPT ![x].pc = "create", ![x].base = session']
    /\ UNCHANGED <<shown, seen, drawn, created, sent, jobs, crashes>>

CreateSession(x) ==
    /\ h[x].pc = "create"
    /\ created < MaxSessions
    /\ created' = created + 1
    /\ Save(x, NewSession(created + 1), "name")
    /\ UNCHANGED <<shown, seen, drawn, sent, jobs, crashes>>

NameMenu(x) ==
    /\ h[x].pc = "name"
    /\ Save(x, [h[x].copy EXCEPT !.menu = "invest"], "draw")
    /\ UNCHANGED <<shown, seen, drawn, created, sent, jobs, crashes>>

-----------------------------------------------------------------------------
(* A button.  RouteCallback and HandleCallback both read the session; the  *)
(* first only looks whether the menu is there, so one step does for both.  *)

Ends(x) == h' = [h EXCEPT ![x] = Idle]

(* There is a session with its menu, and it knows the key or the way back. *)
Accepts(x) ==
    /\ session # NoSession
    /\ session.menu = "invest"
    /\ h[x].pc = "press" => session.keys = h[x].key
    /\ h[x].pc = "back" => session.stack # <<>>

(* An error, and the user is asked to try again.                           *)
RejectPress(x) ==
    /\ h[x].pc \in {"press", "back"}
    /\ ~Accepts(x)
    /\ Ends(x)
    /\ UNCHANGED <<session, shown, seen, drawn, created, sent, jobs, flaws, crashes>>

(* GetSession, GetCallbackData, SetData.                                   *)
LoadPress(x) ==
    /\ h[x].pc = "press"
    /\ Accepts(x)
    /\ h' = [h EXCEPT ![x].pc = "data", ![x].base = session,
                      ![x].copy = [session EXCEPT !.data = @ \cup {h[x].key.of}]]
    /\ UNCHANGED <<session, shown, seen, drawn, created, sent, jobs, flaws, crashes>>

SaveData(x) ==
    /\ h[x].pc = "data"
    /\ Save(x, h[x].copy, "push")
    /\ UNCHANGED <<shown, seen, drawn, created, sent, jobs, crashes>>

(* PushScreen and the second SaveSession.                                  *)
Navigate(x) ==
    /\ h[x].pc = "push"
    /\ LET s == h[x].copy
           to == NextScreen[h[x].key.of]
       IN  Save(x, [s EXCEPT !.stack = Append(@, s.screen), !.screen = to], "draw")
    /\ UNCHANGED <<shown, seen, drawn, created, sent, jobs, crashes>>

(* goBack: PopScreen and SaveSession, after the read.                      *)
LoadBack(x) ==
    /\ h[x].pc = "back"
    /\ Accepts(x)
    /\ h' = [h EXCEPT ![x].pc = "pop", ![x].base = session,
                      ![x].copy = [session EXCEPT !.stack = Front(@), !.screen = Last(session.stack)]]
    /\ UNCHANGED <<session, shown, seen, drawn, created, sent, jobs, flaws, crashes>>

GoBack(x) ==
    /\ h[x].pc = "pop"
    /\ Save(x, h[x].copy, "draw")
    /\ UNCHANGED <<shown, seen, drawn, created, sent, jobs, crashes>>

-----------------------------------------------------------------------------
(* showScreen.  The keyboard of the amount screen has no key.              *)

Draw(x) ==
    /\ h[x].pc = "draw"
    /\ drawn' = drawn + 1
    /\ Save(x, [h[x].copy EXCEPT !.keys = [n |-> drawn', of |-> h[x].copy.screen]], "send")
    /\ UNCHANGED <<shown, seen, created, sent, jobs, crashes>>

(* EditMessage, or SendMessage when that fails.                            *)
SendScreen(x) ==
    /\ h[x].pc = "send"
    /\ shown' = h[x].copy.keys
    /\ seen' = seen \cup {shown'}
    /\ h' = [h EXCEPT ![x].pc = "stamp"]
    /\ UNCHANGED <<session, drawn, created, sent, jobs, flaws, crashes>>

(* Faulty variant: the session of before the keyboard is what is saved.    *)
SaveMessageStale(x) ==
    /\ h[x].pc = "stamp"
    /\ session' = [h[x].copy EXCEPT !.keys = [n |-> 0, of |-> "sel"]]
    /\ NoteLoss(x, h[x].copy)
    /\ Ends(x)
    /\ UNCHANGED <<shown, seen, drawn, created, sent, jobs, crashes>>

(* The last SaveSession, with the message's identifier.                    *)
SaveMessage(x) ==
    /\ h[x].pc = "stamp"
    /\ session' = h[x].copy
    /\ NoteLoss(x, h[x].copy)
    /\ Ends(x)
    /\ UNCHANGED <<shown, seen, drawn, created, sent, jobs, crashes>>

-----------------------------------------------------------------------------
(* A number, and /cancel.                                                  *)

(* RouteTextMessage.                                                       *)
RouteText(x) ==
    /\ h[x].pc = "text"
    /\ IF session # NoSession /\ session.menu = "invest"
       THEN h' = [h EXCEPT ![x].pc = "number"]
       ELSE Ends(x)
    /\ UNCHANGED <<session, shown, seen, drawn, created, sent, jobs, flaws, crashes>>

(* Faulty variant: the error of GetSession is ignored.                     *)
HandleNumberUnchecked(x) ==
    /\ h[x].pc = "number"
    /\ h' = [h EXCEPT ![x].pc = "end", ![x].copy = session, ![x].base = session]
    /\ UNCHANGED <<session, shown, seen, drawn, created, sent, jobs, flaws, crashes>>

(* HandleMessage, on whatever screen: GetSession; the amount is a number   *)
(* and the validator allows it.  (The refusals are GiveUp.)                *)
HandleNumber(x) ==
    /\ h[x].pc = "number"
    /\ session # NoSession
    /\ h' = [h EXCEPT ![x].pc = "end", ![x].copy = session, ![x].base = session]
    /\ UNCHANGED <<session, shown, seen, drawn, created, sent, jobs, flaws, crashes>>

(* Faulty variant: the menu is not ended.                                  *)
EndInvestmentNot(x) ==
    /\ h[x].pc = "end"
    /\ h' = [h EXCEPT ![x].pc = "publish"]
    /\ UNCHANGED <<session, shown, seen, drawn, created, sent, jobs, flaws, crashes>>

(* finalizeInvestment ends the menu; it ignores that the deletion fails.   *)
EndInvestment(x) ==
    /\ h[x].pc = "end"
    /\ h' = [h EXCEPT ![x].pc = "publish"]
    /\ \/ session' = NoSession /\ NoteLoss(x, NoSession)
       \/ UNCHANGED session /\ flaws' = flaws \cup {<<h[x].copy.id, "kept">>}
    /\ UNCHANGED <<shown, seen, drawn, created, sent, jobs, crashes>>

(* PublishPortfolioInitializationJob, with an empty strategy_id.           *)
Publish(x) ==
    /\ h[x].pc = "publish"
    /\ LET s == h[x].copy
       IN  jobs' = Append(jobs, [id |-> s.id, strategy |-> "", screen |-> s.screen, data |-> s.data])
    /\ Ends(x)
    /\ UNCHANGED <<session, shown, seen, drawn, created, sent, flaws, crashes>>

(* EndMenu.                                                                *)
CancelMenu(x) ==
    /\ h[x].pc = "cancel"
    /\ session' \in {NoSession, session}
    /\ Ends(x)
    /\ UNCHANGED <<shown, seen, drawn, created, sent, jobs, flaws, crashes>>

(* Redis, the database, Kafka, a template or Telegram fails, the number is *)
(* bad or not allowed, or the user has no account: the handler returns.    *)
GiveUp(x) ==
    /\ x \in Running
    /\ Ends(x)
    /\ flaws' = flaws \cup IdsOf({h[x].copy, session}) \X {"failed"}
    /\ UNCHANGED <<session, shown, seen, drawn, created, sent, jobs, crashes>>

(* Thirty minutes without a write.                                         *)
Expire ==
    /\ Running = {}
    /\ session # NoSession
    /\ session' = NoSession
    /\ UNCHANGED <<shown, seen, drawn, created, h, sent, jobs, flaws, crashes>>

HandlerStep(x) ==
    \/ StartInvest(x)  \/ ReplaceSession(x) \/ CreateSession(x) \/ NameMenu(x)
    \/ RejectPress(x)  \/ LoadPress(x)      \/ SaveData(x)      \/ Navigate(x)
    \/ LoadBack(x)     \/ GoBack(x)
    \/ Draw(x)         \/ SendScreen(x)     \/ SaveMessage(x)
    \/ RouteText(x)    \/ HandleNumber(x)   \/ EndInvestment(x) \/ Publish(x)
    \/ CancelMenu(x)   \/ GiveUp(x)

(* The process ends and starts again.                                      *)
Crash ==
    /\ crashes < MaxCrashes
    /\ crashes' = crashes + 1
    /\ h' = [x \in Handlers |-> Idle]
    /\ flaws' = flaws \cup
         (IF Running = {} THEN {} ELSE IdsOf({h[x].copy : x \in Handlers} \cup {session}) \X {"failed"})
    /\ UNCHANGED <<session, shown, seen, drawn, created, sent, jobs>>

Next ==
    \/ \E x \in Handlers : Receive(x) \/ HandlerStep(x)
    \/ Expire
    \/ Crash

Spec == Init /\ [][Next]_vars

-----------------------------------------------------------------------------
(* Types, of the stored session and of the copies; a handler that writes a *)
(* session or finishes one has read it.                                    *)
TypeOK ==
    /\ session \in Session \cup {NoSession}
    /\ shown \in Keyboard
    /\ seen \subseteq Keyboard
    /\ drawn \in 0 .. MaxUpdates
    /\ created \in 0 .. MaxSessions
    /\ \A x \in Handlers : h[x].copy = NoSession =>
            h[x].pc \in {"idle", "start", "replace", "create", "cancel", "press", "back", "text", "number"}
    /\ \A x \in Handlers : {h[x].copy, h[x].base} \subseteq Session \cup {NoSession}
    /\ sent \in 0 .. MaxUpdates
    /\ crashes \in 0 .. MaxCrashes

(* Once no handler runs, the buttons in front of the user are those whose  *)
(* keys the session holds, so that pressing one is not an error, unless    *)
(* overlapping handlers lost an update of the session or one gave up.      *)
ButtonsWork ==
    Running = {} /\ session # NoSession /\ (\A f \in flaws : f[1] # session.id)
        => session.keys = shown

(* A session leads to one job, unless handlers overlapped or the menu was  *)
(* left behind by a deletion that failed.                                  *)
OneJobPerSession ==
    \A i, j \in 1 .. Len(jobs) :
        i # j /\ jobs[i].id = jobs[j].id => \E w \in {"lost", "kept"} : <<jobs[i].id, w>> \in flaws

(* A job lacks a choice only when its number was typed before the amount   *)
(* was asked for, which no check prevents: updates that handlers lose do   *)
(* not separate the screen of a session from the choices made on the way.  *)
JobIsComplete ==
    \A i \in 1 .. Len(jobs) : jobs[i].screen = "amt" => jobs[i].data = ChoiceScreens

(* What the consumer of the jobs relies on: both of the above.             *)
JobsMatchSessions == OneJobPerSession /\ JobIsComplete
=============================================================================
