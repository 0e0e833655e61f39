-------------------------- MODULE InvestFlowProofs --------------------------
(***************************************************************************)
(* Safety of InvestFlow, and of the consumer of its jobs (PortfolioJobs),  *)
(* for every set of handlers and any number of updates, sessions and       *)
(* crashes.                                                                *)
(***************************************************************************)
EXTENDS PortfolioJobs, FiniteSetTheorems, SequenceTheorems, TLAPS

(* Where a handler is: on its way to a session, with a copy that equals    *)
(* what it has read or written last, or with a copy it has changed.        *)
Unread == {"idle", "start", "replace", "create", "cancel", "press", "back", "text", "number"}
Written == {"name", "push", "draw", "send", "stamp", "end", "publish"}
Changed == {"data", "pop"}

Handler == [pc : Unread \cup Written \cup Changed, copy : Session \cup {NoSession},
            base : Session \cup {NoSession}, key : Keyboard]

(* The choices made before a screen is reached.                            *)
Before == [sel |-> {}, mkt |-> {"sel"}, risk |-> {"sel", "mkt"}, amt |-> ChoiceScreens]

(* A session has the choices made before its screen, before the screen its *)
(* buttons are of, and before every screen on its stack.                   *)
Consistent(s) ==
    /\ Before[s.screen] \subseteq s.data
    /\ Before[s.keys.of] \subseteq s.data
    /\ \A i \in 1 .. Len(s.stack) : Before[s.stack[i]] \subseteq s.data

(* Of the n sessions created.                                              *)
KnownAt(s, n) == s # NoSession => s.id <= n

(* What the copies in the state r of a handler are.                        *)
CopiesOf(r) ==
    /\ r.pc \in Written => r.copy \in Session /\ r.base = r.copy
    /\ r.pc \in Changed =>
           /\ r.copy \in Session /\ r.base \in Session
           /\ r.copy.id = r.base.id /\ r.copy.keys = r.base.keys
    /\ r.copy # NoSession => Consistent(r.copy)

(* A button that is being handled is one of the copy, and has been added   *)
(* to its data.                                                            *)
PressOf(r) ==
    /\ r.pc \in {"press", "data", "push"} => r.key.of \in ChoiceScreens
    /\ r.pc \in {"data", "push"} => r.copy.keys = r.key /\ r.key.of \in r.copy.data

(* The types, with what is known of the copies, of the session in Redis    *)
(* and of the jobs: they have the choices made before their screen.        *)
Job == [id : 1 .. MaxSessions, strategy : {""}, screen : Screens, data : SUBSET ChoiceScreens]

HandlersKept ==
    /\ h \in [Handlers -> Handler]
    /\ \A x \in Handlers : CopiesOf(h[x]) /\ PressOf(h[x])
    /\ \A x \in Handlers : KnownAt(h[x].copy, created) /\ KnownAt(h[x].base, created)

SessionKept ==
    /\ session \in Session \cup {NoSession}
    /\ KnownAt(session, created)
    /\ session # NoSession => Consistent(session)

Others ==
    /\ shown \in Keyboard
    /\ seen \subseteq Keyboard
    /\ drawn \in Nat
    /\ created \in 0 .. MaxSessions
    /\ sent \in 0 .. MaxUpdates
    /\ jobs \in Seq(Job)
    /\ \A i \in 1 .. Len(jobs) :
           jobs[i].id <= created /\ Before[jobs[i].screen] \subseteq jobs[i].data
    /\ crashes \in 0 .. MaxCrashes

(* An update draws a keyboard once.                                        *)
Undrawn == {x \in Handlers : h[x].pc \notin {"idle", "send", "stamp"}}

DrawnOnce == IsFiniteSet(Undrawn) /\ drawn + Cardinality(Undrawn) <= sent

Shape == HandlersKept /\ SessionKept /\ Others /\ DrawnOnce

-----------------------------------------------------------------------------
(* A handler that will still show the keyboard of the session, or write    *)
(* over a session it has not seen.                                         *)
WillShow(x) ==
    \/ h[x].pc \in {"name", "draw", "send"}
    \/ h[x].pc = "stamp" /\ h[x].copy.keys # session.keys

Clean(id) == \A f \in flaws : f[1] # id

ButtonsComing ==
    session # NoSession /\ Clean(session.id) /\ shown # session.keys
        => \E x \in Handlers : WillShow(x)

(* A job was, or is being, published for the session.                      *)
Publishes(x, id) == h[x].pc = "publish" /\ h[x].copy.id = id
HasJob(id) == \/ \E i \in 1 .. Len(jobs) : jobs[i].id = id
              \/ \E x \in Handlers : Publishes(x, id)

(* The session of a job is no more, unless an update of it was lost or its *)
(* deletion failed; it has one job.                                        *)
Undamaged(id) == \A w \in {"lost", "kept"} : <<id, w>> \notin flaws

JobsOnce ==
    \A id \in 1 .. MaxSessions :
        Undamaged(id) =>
            /\ HasJob(id) => session = NoSession \/ session.id # id
            /\ \A i, j \in 1 .. Len(jobs) : jobs[i].id = id /\ jobs[j].id = id => i = j
            /\ \A x, y \in Handlers : Publishes(x, id) /\ Publishes(y, id) => x = y
            /\ \A i \in 1 .. Len(jobs), x \in Handlers : ~(jobs[i].id = id /\ Publishes(x, id))

IInv == Shape /\ ButtonsComing /\ JobsOnce

-----------------------------------------------------------------------------
(* The changes of a session that the menu makes keep its choices complete. *)

LEMMA NewSessionIs ==
    ASSUME NEW id \in 1 .. MaxSessions
    PROVE  NewSession(id) \in Session /\ Consistent(NewSession(id)) /\ NewSession(id).id = id
<1>1. NewSession(id) \in Session
  BY InvestAssumption DEF NewSession, Session, Keyboard, Screens
<1>2. NewSession(id).stack = <<>> /\ NewSession(id).screen = "sel" /\ NewSession(id).data = {}
      /\ NewSession(id).keys.of = "sel" /\ NewSession(id).id = id
  BY DEF NewSession
<1> QED  BY <1>1, <1>2 DEF Consistent, Before

LEMMA NamedIs ==
    ASSUME NEW s \in Session, Consistent(s)
    PROVE  LET t == [s EXCEPT !.menu = "invest"]
           IN  t \in Session /\ Consistent(t) /\ t.id = s.id /\ t.keys = s.keys
<1> DEFINE t == [s EXCEPT !.menu = "invest"]
<1>1. t \in Session /\ t.id = s.id /\ t.keys = s.keys /\ t.stack = s.stack /\ t.screen = s.screen
      /\ t.data = s.data
  BY DEF Session
<1>2. Consistent(t)
  BY <1>1 DEF Consistent
<1> QED  BY <1>1, <1>2

LEMMA ChosenIs ==
    ASSUME NEW s \in Session, Consistent(s), NEW of \in ChoiceScreens
    PROVE  LET t == [s EXCEPT !.data = @ \cup {of}]
           IN  /\ t \in Session /\ Consistent(t) /\ t.id = s.id /\ t.keys = s.keys
               /\ of \in t.data
<1> DEFINE t == [s EXCEPT !.data = @ \cup {of}]
<1>1. t \in Session /\ t.id = s.id /\ t.keys = s.keys /\ t.stack = s.stack /\ t.screen = s.screen
      /\ t.data = s.data \cup {of}
  BY DEF Session
<1>2. Consistent(t)
  BY <1>1 DEF Consistent
<1> QED  BY <1>1, <1>2

LEMMA PushedIs ==
    ASSUME NEW s \in Session, Consistent(s), NEW of \in ChoiceScreens,
           s.keys.of = of, of \in s.data
    PROVE  LET t == [s EXCEPT !.stack = Append(@, s.screen), !.screen = NextScreen[of]]
           IN  t \in Session /\ Consistent(t) /\ t.id = s.id
<1> DEFINE t == [s EXCEPT !.stack = Append(@, s.screen), !.screen = NextScreen[of]]
<1>1. s.stack \in Seq(Screens) /\ s.screen \in Screens
  BY DEF Session
<1>2. Append(s.stack, s.screen) \in Seq(Screens)
  BY <1>1
<1>3. NextScreen[of] \in Screens /\ Before[NextScreen[of]] = Before[of] \cup {of}
  BY DEF NextScreen, Screens, ChoiceScreens, Before
<1>4. t \in Session /\ t.id = s.id /\ t.keys = s.keys /\ t.stack = Append(s.stack, s.screen)
      /\ t.screen = NextScreen[of] /\ t.data = s.data
  BY <1>2, <1>3 DEF Session
<1>5. \A i \in 1 .. Len(t.stack) : Before[t.stack[i]] \subseteq t.data
  <2>1. Len(t.stack) = Len(s.stack) + 1 /\ t.stack[Len(s.stack) + 1] = s.screen
        /\ \A i \in 1 .. Len(s.stack) : t.stack[i] = s.stack[i]
    BY <1>1, <1>4
  <2> QED  BY <2>1, <1>1, <1>4 DEF Consistent
<1>6. Before[t.screen] \subseteq t.data /\ Before[t.keys.of] \subseteq t.data
  BY <1>3, <1>4 DEF Consistent
<1> QED  BY <1>4, <1>5, <1>6 DEF Consistent

LEMMA PoppedIs ==
    ASSUME NEW s \in Session, Consistent(s), s.stack # <<>>
    PROVE  LET t == [s EXCEPT !.stack = Front(@), !.screen = Last(s.stack)]
           IN  t \in Session /\ Consistent(t) /\ t.id = s.id /\ t.keys = s.keys
<1> DEFINE t == [s EXCEPT !.stack = Front(@), !.screen = Last(s.stack)]
           n == Len(s.stack)
<1>1. s.stack \in Seq(Screens) /\ n \in Nat \ {0}
  <2>1. s.stack \in Seq(Screens)
    BY DEF Session
  <2> HIDE DEF n
  <2>2. n \in Nat /\ n # 0
    BY <2>1, EmptySeq DEF n
  <2> QED  BY <2>1, <2>2
<1>2. /\ Front(s.stack) \in Seq(Screens) /\ Len(Front(s.stack)) = n - 1
      /\ \A i \in 1 .. n - 1 : Front(s.stack)[i] = s.stack[i]
  BY <1>1 DEF Front
<1>3. Last(s.stack) = s.stack[n] /\ Last(s.stack) \in Screens
  BY <1>1 DEF Last
<1>4. t \in Session /\ t.id = s.id /\ t.keys = s.keys /\ t.stack = Front(s.stack)
      /\ t.screen = Last(s.stack) /\ t.data = s.data
  BY <1>2, <1>3 DEF Session
<1>5. Consistent(t)
  BY <1>1, <1>2, <1>3, <1>4 DEF Consistent
<1> QED  BY <1>4, <1>5

LEMMA DrawnIs ==
    ASSUME NEW s \in Session, Consistent(s), NEW n \in 0 .. MaxUpdates
    PROVE  LET t == [s EXCEPT !.keys = [n |-> n, of |-> s.screen]]
           IN  t \in Session /\ Consistent(t) /\ t.id = s.id
<1> DEFINE t == [s EXCEPT !.keys = [n |-> n, of |-> s.screen]]
<1>1. [n |-> n, of |-> s.screen] \in Keyboard
  BY DEF Keyboard, Session
<1>2. t \in Session /\ t.id = s.id /\ t.keys.of = s.screen /\ t.stack = s.stack
      /\ t.screen = s.screen /\ t.data = s.data
  BY <1>1 DEF Session
<1>3. Consistent(t)
  BY <1>2 DEF Consistent
<1> QED  BY <1>2, <1>3

-----------------------------------------------------------------------------
(* Every step of a handler puts it in a state of its own, and leaves in    *)
(* Redis the session, its copy, or none.                                   *)

MovesTo(x, r) ==
    /\ h' = [h EXCEPT ![x] = r]
    /\ r \in Handler /\ CopiesOf(r) /\ PressOf(r)
    /\ KnownAt(r.copy, created') /\ KnownAt(r.base, created')
    /\ session' \in {session, NoSession, h[x].copy, r.copy}

LEMMA MoveKeeps ==
    ASSUME HandlersKept, SessionKept, created \in Nat, created' \in Nat, created <= created',
           NEW x \in Handlers, NEW r, MovesTo(x, r)
    PROVE  HandlersKept' /\ SessionKept'
<1>1. h' \in [Handlers -> Handler] /\ h'[x] = r /\ \A y \in Handlers \ {x} : h'[y] = h[y]
  BY DEF HandlersKept, MovesTo
<1>2. \A s \in Session : KnownAt(s, created) => KnownAt(s, created')
  <2>1. \A s \in Session : s.id \in 1 .. MaxSessions
    BY DEF Session
  <2> QED  BY <2>1, InvestAssumption DEF KnownAt
<1>3. KnownAt(NoSession, created')
  BY DEF KnownAt
<1>4. HandlersKept'
  <2> SUFFICES ASSUME NEW y \in Handlers
               PROVE  /\ CopiesOf(h'[y]) /\ PressOf(h'[y])
                      /\ KnownAt(h'[y].copy, created') /\ KnownAt(h'[y].base, created')
    BY <1>1 DEF HandlersKept
  <2>1. CASE y = x
    BY <2>1, <1>1 DEF MovesTo
  <2>2. CASE y # x
    <3>1. h[y].copy \in Session \cup {NoSession} /\ h[y].base \in Session \cup {NoSession}
      BY DEF HandlersKept, Handler
    <3> QED  BY <3>1, <2>2, <1>1, <1>2, <1>3 DEF HandlersKept
  <2> QED  BY <2>1, <2>2
<1>5. SessionKept'
  <2>1. h[x].copy \in Session \cup {NoSession} /\ KnownAt(h[x].copy, created)
        /\ (h[x].copy # NoSession => Consistent(h[x].copy))
    BY DEF HandlersKept, Handler, CopiesOf
  <2>2. r.copy \in Session \cup {NoSession} /\ KnownAt(r.copy, created')
        /\ (r.copy # NoSession => Consistent(r.copy))
    BY DEF MovesTo, Handler, CopiesOf
  <2> QED  BY <2>1, <2>2, <1>2, <1>3 DEF SessionKept, MovesTo
<1> QED  BY <1>4, <1>5

LEMMA IdleIs == Idle \in Handler /\ CopiesOf(Idle) /\ PressOf(Idle)
    /\ Idle.pc = "idle" /\ Idle.copy = NoSession /\ Idle.base = NoSession
<1>1. Idle.key \in Keyboard
  BY InvestAssumption DEF Idle, Keyboard, Screens
<1>2. Idle \in Handler
  BY <1>1 DEF Idle, Handler, Unread
<1> QED  BY <1>2 DEF Idle, CopiesOf, PressOf, Written, Changed

LEMMA EndsIs ==
    ASSUME NEW x \in Handlers, Ends(x), session' \in {session, NoSession, h[x].copy}
    PROVE  MovesTo(x, Idle)
BY IdleIs DEF MovesTo, Ends, KnownAt

(* A session is saved, with which the handler goes on.                     *)
LEMMA SaveIs ==
    ASSUME NEW x \in Handlers, HandlersKept, NEW s \in Session, Consistent(s),
           NEW next \in Written, Save(x, s, next), KnownAt(s, created'),
           next = "push" => s.keys = h[x].key /\ h[x].key.of \in s.data
                            /\ h[x].key.of \in ChoiceScreens
    PROVE  MovesTo(x, [pc |-> next, copy |-> s, base |-> s, key |-> h[x].key])
<1> DEFINE r == [pc |-> next, copy |-> s, base |-> s, key |-> h[x].key]
<1>1. r \in Handler
  BY DEF HandlersKept, Handler
<1>2. CopiesOf(r) /\ PressOf(r)
  BY NoSessionAssumption DEF CopiesOf, PressOf, Written, Changed
<1>3. h' = [h EXCEPT ![x] = r]
  BY DEF Save
<1>4. session' = r.copy
  BY DEF Save
<1> QED  BY <1>1, <1>2, <1>3, <1>4 DEF MovesTo

-----------------------------------------------------------------------------
(* The same of each action.                                                *)

LEMMA ReceiveMoves ==
    ASSUME Shape, NEW x \in Handlers, NEW pc, NEW key \in Keyboard, Begin(x, pc, key),
           pc \in {"start", "cancel", "back", "text", "press"},
           pc = "press" => key.of \in ChoiceScreens
    PROVE  MovesTo(x, [Idle EXCEPT !.pc = pc, !.key = key]) /\ created' = created
<1> DEFINE r == [Idle EXCEPT !.pc = pc, !.key = key]
<1>1. r \in Handler /\ r.pc = pc /\ r.key = key /\ r.copy = NoSession /\ r.base = NoSession
  BY IdleIs DEF Handler, Unread
<1>2. CopiesOf(r) /\ PressOf(r)
  BY <1>1 DEF CopiesOf, PressOf, Written, Changed
<1>3. h' = [h EXCEPT ![x] = r]
  BY DEF Begin
<1> QED  BY <1>1, <1>2, <1>3 DEF MovesTo, Begin, KnownAt

LEMMA StartMoves ==
    ASSUME Shape, NEW x \in Handlers, StartInvest(x)
    PROVE  \E r : MovesTo(x, r) /\ r.pc \in {"create", "replace"}
<1>1. PICK p \in {"create", "replace"} : h' = [h EXCEPT ![x].pc = p, ![x].base = session]
  BY DEF StartInvest
<1> DEFINE r == [h[x] EXCEPT !.pc = p, !.base = session]
<1>2. HandlersKept /\ SessionKept
  BY DEF Shape
<1>3. h[x] \in Handler /\ h[x].pc = "start" /\ CopiesOf(h[x])
  BY <1>2 DEF HandlersKept, StartInvest
<1>4. r \in Handler /\ r.pc = p /\ r.copy = h[x].copy /\ r.base = session
  BY <1>2, <1>3 DEF Handler, Unread, SessionKept
<1>5. CopiesOf(r) /\ PressOf(r)
  BY <1>3, <1>4 DEF CopiesOf, PressOf, Written, Changed
<1>6. h' = [h EXCEPT ![x] = r]
  BY <1>1 DEF Shape, HandlersKept
<1> QED  BY <1>2, <1>4, <1>5, <1>6 DEF MovesTo, HandlersKept, SessionKept, StartInvest

LEMMA ReplaceMoves ==
    ASSUME Shape, NEW x \in Handlers, ReplaceSession(x)
    PROVE  \E r : MovesTo(x, r) /\ r.pc = "create"
<1> DEFINE r == [h[x] EXCEPT !.pc = "create", !.base = session']
<1>2. HandlersKept /\ SessionKept
  BY DEF Shape
<1>3. h[x] \in Handler /\ h[x].pc = "replace" /\ CopiesOf(h[x])
  BY <1>2 DEF HandlersKept, ReplaceSession
<1>4. session' \in {NoSession, session}
  BY DEF ReplaceSession
<1>5. r \in Handler /\ r.pc = "create" /\ r.copy = h[x].copy /\ r.base = session'
  BY <1>2, <1>3, <1>4 DEF Handler, Unread, SessionKept
<1>6. CopiesOf(r) /\ PressOf(r)
  BY <1>3, <1>5 DEF CopiesOf, PressOf, Written, Changed
<1>7. h' = [h EXCEPT ![x] = r]
  BY DEF ReplaceSession, Shape, HandlersKept
<1>8. created' = created
  BY DEF ReplaceSession
<1>9. KnownAt(r.copy, created') /\ KnownAt(r.base, created')
  BY <1>2, <1>4, <1>5, <1>8 DEF HandlersKept, SessionKept, KnownAt
<1> QED  BY <1>4, <1>5, <1>6, <1>7, <1>9 DEF MovesTo

LEMMA EndingMoves ==
    ASSUME NEW x \in Handlers,
           \/ RejectPress(x) \/ SaveMessage(x) \/ Publish(x) \/ CancelMenu(x) \/ GiveUp(x)
    PROVE  MovesTo(x, Idle)
<1>1. Ends(x)
  BY DEF RejectPress, SaveMessage, Publish, CancelMenu, GiveUp
<1>2. session' \in {session, NoSession, h[x].copy}
  BY DEF RejectPress, SaveMessage, Publish, CancelMenu, GiveUp
<1> QED  BY <1>1, <1>2, EndsIs

LEMMA LoadPressMoves ==
    ASSUME Shape, NEW x \in Handlers, LoadPress(x)
    PROVE  \E r : MovesTo(x, r) /\ r.pc = "data"
<1> DEFINE t == [session EXCEPT !.data = @ \cup {h[x].key.of}]
           r == [h[x] EXCEPT !.pc = "data", !.base = session, !.copy = t]
<1>1. HandlersKept /\ SessionKept
  BY DEF Shape
<1>2. h[x] \in Handler /\ h[x].pc = "press" /\ PressOf(h[x])
  BY <1>1 DEF HandlersKept, LoadPress
<1>3. session \in Session /\ Consistent(session) /\ session.keys = h[x].key
      /\ h[x].key.of \in ChoiceScreens
  BY <1>1, <1>2 DEF LoadPress, Accepts, SessionKept, PressOf
<1>4. t \in Session /\ Consistent(t) /\ t.id = session.id /\ t.keys = session.keys
      /\ h[x].key.of \in t.data
  BY <1>3, ChosenIs
<1> HIDE DEF t
<1>5. r \in Handler /\ r.pc = "data" /\ r.copy = t /\ r.base = session /\ r.key = h[x].key
  BY <1>2, <1>3, <1>4 DEF Handler, Changed
<1>6. CopiesOf(r) /\ PressOf(r)
  BY <1>3, <1>4, <1>5 DEF CopiesOf, PressOf, Written, Changed
<1>7. h' = [h EXCEPT ![x] = r]
  BY DEF LoadPress, Shape, HandlersKept, t
<1>8. created' = created /\ session' = session
  BY DEF LoadPress
<1>9. KnownAt(t, created) /\ KnownAt(session, created)
  BY <1>1, <1>3, <1>4, NoSessionAssumption DEF SessionKept, KnownAt
<1> QED  BY <1>5, <1>6, <1>7, <1>8, <1>9 DEF MovesTo

LEMMA LoadBackMoves ==
    ASSUME Shape, NEW x \in Handlers, LoadBack(x)
    PROVE  \E r : MovesTo(x, r) /\ r.pc = "pop"
<1> DEFINE t == [session EXCEPT !.stack = Front(@), !.screen = Last(session.stack)]
           r == [h[x] EXCEPT !.pc = "pop", !.base = session, !.copy = t]
<1>1. HandlersKept /\ SessionKept
  BY DEF Shape
<1>2. h[x] \in Handler /\ h[x].pc = "back"
  BY <1>1 DEF HandlersKept, LoadBack
<1>3. session \in Session /\ Consistent(session) /\ session.stack # <<>>
  BY <1>1, <1>2 DEF LoadBack, Accepts, SessionKept
<1>4. t \in Session /\ Consistent(t) /\ t.id = session.id /\ t.keys = session.keys
  BY <1>3, PoppedIs
<1> HIDE DEF t
<1>5. r \in Handler /\ r.pc = "pop" /\ r.copy = t /\ r.base = session
  BY <1>2, <1>3, <1>4 DEF Handler, Changed
<1>6. CopiesOf(r) /\ PressOf(r)
  BY <1>3, <1>4, <1>5 DEF CopiesOf, PressOf, Written, Changed
<1>7. h' = [h EXCEPT ![x] = r]
  BY DEF LoadBack, Shape, HandlersKept, t
<1>8. created' = created /\ session' = session
  BY DEF LoadBack
<1>9. KnownAt(t, created) /\ KnownAt(session, created)
  BY <1>1, <1>3, <1>4, NoSessionAssumption DEF SessionKept, KnownAt
<1> QED  BY <1>5, <1>6, <1>7, <1>8, <1>9 DEF MovesTo

LEMMA SendMoves ==
    ASSUME Shape, NEW x \in Handlers, SendScreen(x)
    PROVE  \E r : MovesTo(x, r) /\ r.pc = "stamp"
<1> DEFINE r == [h[x] EXCEPT !.pc = "stamp"]
<1>1. HandlersKept /\ h[x].pc = "send" /\ h[x] \in Handler /\ CopiesOf(h[x])
  BY DEF Shape, HandlersKept, SendScreen
<1>2. r \in Handler /\ r.pc = "stamp" /\ r.copy = h[x].copy /\ r.base = h[x].base
  BY <1>1 DEF Handler, Written
<1>3. CopiesOf(r) /\ PressOf(r)
  BY <1>1, <1>2 DEF CopiesOf, PressOf, Written, Changed
<1>4. h' = [h EXCEPT ![x] = r]
  BY DEF SendScreen, Shape, HandlersKept
<1> QED  BY <1>1, <1>2, <1>3, <1>4 DEF MovesTo, HandlersKept, SendScreen

LEMMA RouteMoves ==
    ASSUME Shape, NEW x \in Handlers, RouteText(x)
    PROVE  \E r : MovesTo(x, r) /\ r.pc \in {"idle", "number"}
<1> DEFINE r == [h[x] EXCEPT !.pc = "number"]
<1>1. HandlersKept /\ h[x].pc = "text" /\ h[x] \in Handler /\ CopiesOf(h[x])
  BY DEF Shape, HandlersKept, RouteText
<1>2. r \in Handler /\ r.pc = "number" /\ r.copy = h[x].copy /\ r.base = h[x].base
  BY <1>1 DEF Handler, Unread
<1>3. CopiesOf(r) /\ PressOf(r)
  BY <1>1, <1>2 DEF CopiesOf, PressOf, Written, Changed
<1>4. CASE Ends(x)
  BY <1>4, EndsIs, IdleIs DEF RouteText
<1>5. CASE h' = [h EXCEPT ![x].pc = "number"]
  <2>1. h' = [h EXCEPT ![x] = r]
    BY <1>5 DEF Shape, HandlersKept
  <2> QED  BY <1>1, <1>2, <1>3, <2>1 DEF MovesTo, HandlersKept, RouteText
<1> QED  BY <1>4, <1>5 DEF RouteText

LEMMA NumberMoves ==
    ASSUME Shape, NEW x \in Handlers, HandleNumber(x)
    PROVE  \E r : MovesTo(x, r) /\ r.pc = "end"
<1> DEFINE r == [h[x] EXCEPT !.pc = "end", !.copy = session, !.base = session]
<1>1. HandlersKept /\ SessionKept
  BY DEF Shape
<1>2. h[x] \in Handler /\ session \in Session /\ Consistent(session)
  BY <1>1 DEF HandlersKept, SessionKept, HandleNumber
<1>3. r \in Handler /\ r.pc = "end" /\ r.copy = session /\ r.base = session
  BY <1>2 DEF Handler, Written
<1>4. CopiesOf(r) /\ PressOf(r)
  BY <1>2, <1>3 DEF CopiesOf, PressOf, Written, Changed
<1>5. h' = [h EXCEPT ![x] = r]
  BY DEF HandleNumber, Shape, HandlersKept
<1> QED  BY <1>1, <1>3, <1>4, <1>5 DEF MovesTo, SessionKept, HandleNumber

LEMMA EndMoves ==
    ASSUME Shape, NEW x \in Handlers, EndInvestment(x)
    PROVE  MovesTo(x, [h[x] EXCEPT !.pc = "publish"])
<1> DEFINE r == [h[x] EXCEPT !.pc = "publish"]
<1>1. HandlersKept /\ h[x].pc = "end" /\ h[x] \in Handler /\ CopiesOf(h[x])
  BY DEF Shape, HandlersKept, EndInvestment
<1>2. r \in Handler /\ r.pc = "publish" /\ r.copy = h[x].copy /\ r.base = h[x].base
  BY <1>1 DEF Handler, Written
<1>3. CopiesOf(r) /\ PressOf(r)
  BY <1>1, <1>2 DEF CopiesOf, PressOf, Written, Changed
<1>4. h' = [h EXCEPT ![x] = r]
  BY DEF EndInvestment, Shape, HandlersKept
<1> QED  BY <1>1, <1>2, <1>3, <1>4 DEF MovesTo, HandlersKept, EndInvestment

LEMMA CreateSaves ==
    ASSUME Shape, NEW x \in Handlers, CreateSession(x)
    PROVE  \E r : MovesTo(x, r) /\ r.pc = "name" /\ NewSession(created + 1).id = created + 1
<1>1. HandlersKept /\ created + 1 \in 1 .. MaxSessions /\ created' = created + 1
  BY InvestAssumption DEF Shape, Others, CreateSession
<1> DEFINE s == NewSession(created + 1)
<1>2. s \in Session /\ Consistent(s) /\ s.id = created + 1
  BY <1>1, NewSessionIs
<1> HIDE DEF s
<1>3. KnownAt(s, created')
  BY <1>1, <1>2 DEF KnownAt
<1>4. Save(x, s, "name")
  BY DEF CreateSession, s
<1>5. MovesTo(x, [pc |-> "name", copy |-> s, base |-> s, key |-> h[x].key])
  BY <1>1, <1>2, <1>3, <1>4, SaveIs DEF Written
<1> QED  BY <1>2, <1>5 DEF s

(* What the saves of a session known before have in common.  The keyboard  *)
(* drawn is new, and there is room for its number.                         *)
SavesAs(x, s, next) ==
    /\ Save(x, s, next)
    /\ s \in Session /\ Consistent(s)
    /\ h[x].base \in Session /\ s.id = h[x].base.id /\ h[x].copy \in Session
    /\ h[x].pc \in Written \cup Changed
    /\ next \in {"push", "draw", "send"}
    /\ next = "push" =>
           s.keys = h[x].base.keys /\ s.keys = h[x].key /\ h[x].key.of \in s.data \cap ChoiceScreens

LEMMA SavesAre ==
    ASSUME Shape, NEW x \in Handlers,
           drawn + 1 \in 0 .. MaxUpdates,
           NameMenu(x) \/ SaveData(x) \/ Navigate(x) \/ GoBack(x) \/ Draw(x)
    PROVE  \E s, next : SavesAs(x, s, next)
<1> DEFINE c == h[x].copy
<1>1. CopiesOf(h[x]) /\ PressOf(h[x])
  BY DEF Shape, HandlersKept
<1>2. c \in Session /\ Consistent(c) /\ h[x].base \in Session /\ c.id = h[x].base.id
      /\ h[x].pc \in Written \cup Changed
  BY <1>1, NoSessionAssumption
     DEF NameMenu, SaveData, Navigate, GoBack, Draw, CopiesOf, Written, Changed
<1> HIDE DEF c
<1>3. CASE NameMenu(x)
  <2> DEFINE t == [c EXCEPT !.menu = "invest"]
  <2>1. t \in Session /\ Consistent(t) /\ t.id = c.id
    BY <1>2, NamedIs
  <2>2. Save(x, t, "draw")
    BY <1>3 DEF NameMenu, c
  <2> HIDE DEF t
  <2> QED  BY <1>2, <2>1, <2>2 DEF SavesAs, c
<1>4. CASE SaveData(x)
  <2>1. Save(x, c, "push") /\ h[x].pc = "data"
    BY <1>4 DEF SaveData, c
  <2>2. c.keys = h[x].base.keys /\ c.keys = h[x].key /\ h[x].key.of \in c.data \cap ChoiceScreens
    BY <1>1, <2>1 DEF CopiesOf, PressOf, Changed, c
  <2> QED  BY <1>2, <2>1, <2>2 DEF SavesAs, c
<1>5. CASE Navigate(x)
  <2> DEFINE t == [c EXCEPT !.stack = Append(@, c.screen), !.screen = NextScreen[h[x].key.of]]
  <2>1. c.keys = h[x].key /\ h[x].key.of \in c.data \cap ChoiceScreens
    BY <1>1, <1>5 DEF Navigate, PressOf, c
  <2>2. t \in Session /\ Consistent(t) /\ t.id = c.id
    BY <1>2, <2>1, PushedIs
  <2>3. Save(x, t, "draw")
    BY <1>5 DEF Navigate, c
  <2> HIDE DEF t
  <2> QED  BY <1>2, <2>2, <2>3 DEF SavesAs, c
<1>6. CASE GoBack(x)
  <2>1. Save(x, c, "draw")
    BY <1>6 DEF GoBack, c
  <2> QED  BY <1>2, <2>1 DEF SavesAs, c
<1>7. CASE Draw(x)
  <2> DEFINE t == [c EXCEPT !.keys = [n |-> drawn + 1, of |-> c.screen]]
  <2>1. t \in Session /\ Consistent(t) /\ t.id = c.id
    BY <1>2, DrawnIs
  <2>2. Save(x, t, "send")
    BY <1>7 DEF Draw, c
  <2> HIDE DEF t
  <2> QED  BY <1>2, <2>1, <2>2 DEF SavesAs, c
<1> QED  BY <1>3, <1>4, <1>5, <1>6, <1>7

LEMMA SavesMove ==
    ASSUME Shape, NEW x \in Handlers, NEW s, NEW next, SavesAs(x, s, next),
           created' = created
    PROVE  \E r : MovesTo(x, r) /\ r.pc = next
<1>1. HandlersKept
  BY DEF Shape
<1>2. s \in Session /\ Consistent(s) /\ next \in Written /\ Save(x, s, next)
  BY DEF SavesAs, Written
<1>3. KnownAt(s, created')
  BY <1>1, NoSessionAssumption DEF HandlersKept, KnownAt, SavesAs
<1>4. next = "push" => s.keys = h[x].key /\ h[x].key.of \in s.data /\ h[x].key.of \in ChoiceScreens
  BY DEF SavesAs
<1>5. MovesTo(x, [pc |-> next, copy |-> s, base |-> s, key |-> h[x].key])
  BY <1>1, <1>2, <1>3, <1>4, SaveIs
<1> QED  BY <1>5

-----------------------------------------------------------------------------
(* The sessions and the copies of them, for every step.                    *)

LEMMA OthersStay ==
    Others /\ UNCHANGED <<shown, seen, drawn, created, sent, jobs, crashes>> => Others'
BY DEF Others

LEMMA DrawnStays ==
    ASSUME DrawnOnce, drawn \in Nat, sent \in Nat, Undrawn' \subseteq Undrawn,
           drawn' = drawn, sent' = sent
    PROVE  DrawnOnce'
<1>1. IsFiniteSet(Undrawn') /\ Cardinality(Undrawn') <= Cardinality(Undrawn)
  BY FS_Subset DEF DrawnOnce
<1>2. Cardinality(Undrawn') \in Nat /\ Cardinality(Undrawn) \in Nat
  BY <1>1, FS_CardinalityType DEF DrawnOnce
<1> QED  BY <1>1, <1>2 DEF DrawnOnce

Done == {"idle", "send", "stamp"}

(* A step that only moves a handler, and draws nothing.                    *)
LEMMA StepIsPlain ==
    ASSUME Shape, NEW x \in Handlers, NEW r, MovesTo(x, r),
           h[x].pc \notin Done \/ r.pc \in Done,
           UNCHANGED <<shown, seen, drawn, created, sent, jobs, crashes>>
    PROVE  Shape'
<1>1. HandlersKept /\ SessionKept /\ Others /\ DrawnOnce
  BY DEF Shape
<1>2. Others'
  BY <1>1, OthersStay
<1>3. HandlersKept' /\ SessionKept'
  <2>1. created \in Nat
    BY <1>1, InvestAssumption DEF Others
  <2>2. created' \in Nat /\ created <= created'
    BY <2>1
  <2> QED  BY <1>1, <2>1, <2>2, MoveKeeps
<1>4. DrawnOnce'
  <2>1. Undrawn' \subseteq Undrawn
    BY <1>1 DEF Undrawn, MovesTo, HandlersKept, Done
  <2> QED  BY <1>1, <2>1, DrawnStays, InvestAssumption DEF Others
<1> QED  BY <1>2, <1>3, <1>4 DEF Shape

LEMMA ReceiveShape ==
    ASSUME Shape, NEW x \in Handlers, Receive(x)
    PROVE  Shape'
<1>1. HandlersKept /\ SessionKept /\ Others /\ DrawnOnce
  BY DEF Shape
<1>2. Idle.key \in Keyboard
  BY InvestAssumption DEF Idle, Keyboard, Screens
<1>3. PICK pc \in {"start", "cancel", "back", "text", "press"}, key \in Keyboard :
          Begin(x, pc, key) /\ (pc = "press" => key.of \in ChoiceScreens)
  BY <1>1, <1>2 DEF Receive, Others
<1>4. MovesTo(x, [Idle EXCEPT !.pc = pc, !.key = key]) /\ created' = created
  BY <1>1, <1>3, ReceiveMoves
<1>5. /\ UNCHANGED <<shown, seen, drawn, created, jobs, crashes>>
      /\ sent' = sent + 1 /\ sent < MaxUpdates /\ h[x].pc = "idle"
  BY <1>3 DEF Begin
<1>6. created \in Nat /\ sent \in Nat /\ drawn \in Nat
  BY <1>1, InvestAssumption DEF Others
<1>7. HandlersKept' /\ SessionKept'
  <2>1. created' \in Nat /\ created <= created'
    BY <1>5, <1>6
  <2> QED  BY <1>1, <1>4, <1>6, <2>1, MoveKeeps
<1>8. Others'
  <2>1. sent' \in 0 .. MaxUpdates
    BY <1>5, <1>6, InvestAssumption
  <2> QED  BY <1>1, <1>5, <2>1 DEF Others
<1>9. DrawnOnce'
  <2>1. x \notin Undrawn
    BY <1>5 DEF Undrawn
  <2>2. Undrawn' \subseteq Undrawn \cup {x}
    BY <1>1, <1>4 DEF Undrawn, MovesTo, HandlersKept
  <2>3. IsFiniteSet(Undrawn \cup {x}) /\ Cardinality(Undrawn \cup {x}) = Cardinality(Undrawn) + 1
    BY <1>1, <2>1, FS_AddElement DEF DrawnOnce
  <2>4. IsFiniteSet(Undrawn') /\ Cardinality(Undrawn') <= Cardinality(Undrawn) + 1
    BY <2>2, <2>3, FS_Subset
  <2>5. Cardinality(Undrawn) \in Nat /\ Cardinality(Undrawn') \in Nat
    BY <1>1, <2>4, FS_CardinalityType DEF DrawnOnce
  <2> QED  BY <1>1, <1>5, <1>6, <2>4, <2>5 DEF DrawnOnce
<1> QED  BY <1>7, <1>8, <1>9 DEF Shape

LEMMA CreateShape ==
    ASSUME Shape, NEW x \in Handlers, CreateSession(x)
    PROVE  Shape'
<1>1. HandlersKept /\ SessionKept /\ Others /\ DrawnOnce
  BY DEF Shape
<1>2. PICK r : MovesTo(x, r) /\ r.pc = "name"
  BY <1>1, CreateSaves
<1>3. /\ UNCHANGED <<shown, seen, drawn, sent, jobs, crashes>>
      /\ created' = created + 1 /\ created < MaxSessions /\ h[x].pc = "create"
  BY DEF CreateSession
<1>4. created \in Nat /\ created' \in Nat /\ created <= created' /\ created' \in 0 .. MaxSessions
  BY <1>1, <1>3, InvestAssumption DEF Others
<1>5. HandlersKept' /\ SessionKept'
  BY <1>1, <1>2, <1>4, MoveKeeps
<1>6. Others'
  <2>1. \A i \in 1 .. Len(jobs) : jobs[i].id <= created'
    <3>1. \A i \in 1 .. Len(jobs) : jobs[i] \in Job
      BY <1>1, ElementOfSeq DEF Others
    <3>2. \A j \in Job : j.id \in 1 .. MaxSessions
      BY DEF Job
    <3> QED  BY <1>1, <1>3, <1>4, <3>1, <3>2, InvestAssumption DEF Others
  <2> QED  BY <1>1, <1>3, <1>4, <2>1 DEF Others
<1>7. DrawnOnce'
  <2>1. Undrawn' \subseteq Undrawn
    BY <1>1, <1>2, <1>3 DEF Undrawn, MovesTo, HandlersKept
  <2> QED  BY <1>1, <1>3, <2>1, DrawnStays, InvestAssumption DEF Others
<1> QED  BY <1>5, <1>6, <1>7 DEF Shape

(* A handler that draws has had an update for it.                          *)
LEMMA RoomToDraw ==
    ASSUME Shape, NEW x \in Handlers, h[x].pc \notin Done
    PROVE  drawn + 1 <= sent /\ drawn + 1 \in 0 .. MaxUpdates
<1>1. x \in Undrawn /\ IsFiniteSet(Undrawn) /\ drawn + Cardinality(Undrawn) <= sent
  BY DEF Undrawn, Shape, DrawnOnce, Done
<1>2. Cardinality(Undrawn) \in Nat /\ Cardinality(Undrawn) # 0
  BY <1>1, FS_CardinalityType, FS_EmptySet
<1> QED  BY <1>1, <1>2, InvestAssumption DEF Shape, Others

LEMMA DrawShape ==
    ASSUME Shape, NEW x \in Handlers, Draw(x)
    PROVE  Shape'
<1>1. HandlersKept /\ SessionKept /\ Others /\ DrawnOnce
  BY DEF Shape
<1>2. /\ UNCHANGED <<shown, seen, created, sent, jobs, crashes>>
      /\ drawn' = drawn + 1 /\ h[x].pc = "draw"
  BY DEF Draw
<1>3. drawn + 1 \in 0 .. MaxUpdates
  BY <1>2, RoomToDraw DEF Done
<1>4. PICK s, next : SavesAs(x, s, next)
  BY <1>1, <1>3, SavesAre
<1>5. PICK r : MovesTo(x, r) /\ r.pc = next
  BY <1>1, <1>2, <1>4, SavesMove
<1>6. r.pc = "send"
  BY <1>1, <1>5 DEF Draw, Save, MovesTo, HandlersKept
<1>7. HandlersKept' /\ SessionKept'
  <2>1. created \in Nat
    BY <1>1, InvestAssumption DEF Others
  <2>2. created' \in Nat /\ created <= created'
    BY <1>2, <2>1
  <2> QED  BY <1>1, <1>5, <2>1, <2>2, MoveKeeps
<1>8. Others'
  BY <1>1, <1>2, <1>3 DEF Others
<1>9. DrawnOnce'
  <2>1. x \in Undrawn
    BY <1>2 DEF Undrawn
  <2>2. Undrawn' \subseteq Undrawn \ {x}
    BY <1>1, <1>5, <1>6 DEF Undrawn, MovesTo, HandlersKept
  <2>3. IsFiniteSet(Undrawn \ {x}) /\ Cardinality(Undrawn \ {x}) = Cardinality(Undrawn) - 1
    BY <1>1, <2>1, FS_RemoveElement DEF DrawnOnce
  <2>4. IsFiniteSet(Undrawn') /\ Cardinality(Undrawn') <= Cardinality(Undrawn) - 1
    BY <2>2, <2>3, FS_Subset
  <2>5. Cardinality(Undrawn) \in Nat /\ Cardinality(Undrawn') \in Nat
    BY <1>1, <2>4, FS_CardinalityType DEF DrawnOnce
  <2>6. drawn \in Nat /\ sent \in Nat
    BY <1>1, InvestAssumption DEF Others
  <2> QED  BY <1>1, <1>2, <2>4, <2>5, <2>6 DEF DrawnOnce
<1> QED  BY <1>7, <1>8, <1>9 DEF Shape

LEMMA SendShape ==
    ASSUME Shape, NEW x \in Handlers, SendScreen(x)
    PROVE  Shape'
<1>1. HandlersKept /\ SessionKept /\ Others /\ DrawnOnce
  BY DEF Shape
<1>2. PICK r : MovesTo(x, r) /\ r.pc = "stamp"
  BY <1>1, SendMoves
<1>3. /\ UNCHANGED <<drawn, created, sent, jobs, crashes>>
      /\ shown' = h[x].copy.keys /\ seen' = seen \cup {shown'} /\ h[x].pc = "send"
  BY DEF SendScreen
<1>4. created \in Nat /\ created' \in Nat /\ created <= created'
  BY <1>1, <1>3, InvestAssumption DEF Others
<1>5. HandlersKept' /\ SessionKept'
  BY <1>1, <1>2, <1>4, MoveKeeps
<1>6. Others'
  <2>1. h[x].copy \in Session
    BY <1>1, <1>3 DEF HandlersKept, CopiesOf, Written
  <2>2. h[x].copy.keys \in Keyboard
    BY <2>1 DEF Session
  <2> QED  BY <1>1, <1>3, <2>2 DEF Others
<1>7. DrawnOnce'
  <2>1. Undrawn' \subseteq Undrawn
    BY <1>1, <1>2 DEF Undrawn, MovesTo, HandlersKept
  <2> QED  BY <1>1, <1>3, <2>1, DrawnStays, InvestAssumption DEF Others
<1> QED  BY <1>5, <1>6, <1>7 DEF Shape

LEMMA PublishIs ==
    ASSUME Shape, NEW x \in Handlers, Publish(x)
    PROVE  \E j \in Job : /\ jobs' = Append(jobs, j)
                          /\ j.id = h[x].copy.id /\ j.id <= created
                          /\ Before[j.screen] \subseteq j.data
<1> DEFINE s == h[x].copy
           j == [id |-> s.id, strategy |-> "", screen |-> s.screen, data |-> s.data]
<1>1. s \in Session /\ Consistent(s) /\ s # NoSession /\ s.id <= created
  BY NoSessionAssumption DEF Shape, Publish, HandlersKept, CopiesOf, Written, KnownAt
<1>2. s.id \in 1 .. MaxSessions /\ s.screen \in Screens /\ s.data \in SUBSET ChoiceScreens
  BY <1>1 DEF Session
<1>3. jobs' = Append(jobs, j)
  BY DEF Publish
<1> HIDE DEF s
<1>4. j \in Job /\ j.id = s.id /\ j.screen = s.screen /\ j.data = s.data
  BY <1>2 DEF Job
<1>5. Before[j.screen] \subseteq j.data
  BY <1>1, <1>4 DEF Consistent
<1> QED  BY <1>1, <1>3, <1>4, <1>5 DEF s

LEMMA PublishShape ==
    ASSUME Shape, NEW x \in Handlers, Publish(x)
    PROVE  Shape'
<1>1. HandlersKept /\ SessionKept /\ Others /\ DrawnOnce
  BY DEF Shape
<1>2. MovesTo(x, Idle)
  BY EndingMoves
<1>3. UNCHANGED <<shown, seen, drawn, created, sent, crashes>>
  BY DEF Publish
<1>4. created \in Nat /\ created' \in Nat /\ created <= created'
  BY <1>1, <1>3, InvestAssumption DEF Others
<1>5. HandlersKept' /\ SessionKept'
  BY <1>1, <1>2, <1>4, MoveKeeps
<1>6. Others'
  <2>1. PICK j \in Job : /\ jobs' = Append(jobs, j) /\ j.id <= created
                         /\ Before[j.screen] \subseteq j.data
    BY <1>1, PublishIs
  <2>2. /\ jobs \in Seq(Job) /\ jobs' \in Seq(Job) /\ Len(jobs') = Len(jobs) + 1
        /\ jobs'[Len(jobs) + 1] = j /\ \A i \in 1 .. Len(jobs) : jobs'[i] = jobs[i]
    BY <1>1, <2>1 DEF Others
  <2>3. \A i \in 1 .. Len(jobs') :
            jobs'[i].id <= created' /\ Before[jobs'[i].screen] \subseteq jobs'[i].data
    BY <1>1, <1>3, <2>1, <2>2 DEF Others
  <2> QED  BY <1>1, <1>3, <2>2, <2>3 DEF Others
<1>7. DrawnOnce'
  <2>1. Undrawn' \subseteq Undrawn
    BY <1>1, <1>2, IdleIs DEF Undrawn, MovesTo, HandlersKept
  <2> QED  BY <1>1, <1>3, <2>1, DrawnStays, InvestAssumption DEF Others
<1> QED  BY <1>5, <1>6, <1>7 DEF Shape

LEMMA ExpireShape ==
    ASSUME Shape, Expire
    PROVE  Shape'
<1>1. HandlersKept' /\ SessionKept' /\ Others'
  BY DEF Shape, HandlersKept, SessionKept, Others, Expire, KnownAt
<1>2. DrawnOnce'
  BY DEF Shape, DrawnOnce, Undrawn, Expire
<1> QED  BY <1>1, <1>2 DEF Shape

LEMMA CrashShape ==
    ASSUME Shape, Crash
    PROVE  Shape'
<1>1. HandlersKept /\ SessionKept /\ Others /\ DrawnOnce
  BY DEF Shape
<1>2. /\ UNCHANGED <<session, shown, seen, drawn, created, sent, jobs>>
      /\ crashes' = crashes + 1 /\ crashes < MaxCrashes /\ h' = [x \in Handlers |-> Idle]
  BY DEF Crash
<1>3. HandlersKept'
  BY <1>2, IdleIs DEF HandlersKept, KnownAt
<1>4. SessionKept' /\ Others'
  BY <1>1, <1>2, InvestAssumption DEF SessionKept, Others, KnownAt
<1>5. DrawnOnce'
  <2>1. Undrawn' \subseteq Undrawn
    BY <1>2, IdleIs DEF Undrawn
  <2> QED  BY <1>1, <1>2, <2>1, DrawnStays, InvestAssumption DEF Others
<1> QED  BY <1>3, <1>4, <1>5 DEF Shape

LEMMA HandlerShape ==
    ASSUME Shape, NEW x \in Handlers, HandlerStep(x)
    PROVE  Shape'
<1>1. HandlersKept
  BY DEF Shape
<1> DEFINE Plain == UNCHANGED <<shown, seen, drawn, created, sent, jobs, crashes>>
<1>3. (\E r : MovesTo(x, r) /\ (h[x].pc \notin Done \/ r.pc \in Done)) /\ Plain => Shape'
  BY StepIsPlain
<1> HIDE DEF Plain
<1>4. CASE StartInvest(x)
  <2>1. Plain /\ h[x].pc = "start"
    BY <1>4 DEF StartInvest, Plain
  <2> QED  BY <1>1, <1>3, <1>4, <2>1, StartMoves DEF Done
<1>5. CASE ReplaceSession(x)
  <2>1. Plain /\ h[x].pc = "replace"
    BY <1>5 DEF ReplaceSession, Plain
  <2> QED  BY <1>1, <1>3, <1>5, <2>1, ReplaceMoves DEF Done
<1>6. CASE NameMenu(x) \/ SaveData(x) \/ Navigate(x) \/ GoBack(x)
  <2>1. Plain /\ h[x].pc \in {"name", "data", "push", "pop"}
    BY <1>6 DEF NameMenu, SaveData, Navigate, GoBack, Plain
  <2>2. drawn + 1 \in 0 .. MaxUpdates
    BY <2>1, RoomToDraw DEF Done
  <2>3. PICK s, next : SavesAs(x, s, next)
    BY <1>1, <1>6, <2>2, SavesAre
  <2>4. \E r : MovesTo(x, r)
    BY <1>1, <2>1, <2>3, SavesMove DEF Plain
  <2> QED  BY <1>3, <2>1, <2>4 DEF Done
<1>7. CASE RejectPress(x) \/ SaveMessage(x) \/ CancelMenu(x) \/ GiveUp(x)
  <2>1. Plain
    BY <1>7 DEF RejectPress, SaveMessage, CancelMenu, GiveUp, Plain
  <2> QED  BY <1>3, <1>7, <2>1, EndingMoves, IdleIs DEF Done
<1>8. CASE LoadPress(x)
  <2>1. Plain /\ h[x].pc = "press"
    BY <1>8 DEF LoadPress, Plain
  <2> QED  BY <1>1, <1>3, <1>8, <2>1, LoadPressMoves DEF Done
<1>9. CASE LoadBack(x)
  <2>1. Plain /\ h[x].pc = "back"
    BY <1>9 DEF LoadBack, Plain
  <2> QED  BY <1>1, <1>3, <1>9, <2>1, LoadBackMoves DEF Done
<1>10. CASE RouteText(x)
  <2>1. Plain /\ h[x].pc = "text"
    BY <1>10 DEF RouteText, Plain
  <2> QED  BY <1>1, <1>3, <1>10, <2>1, RouteMoves DEF Done
<1>11. CASE HandleNumber(x)
  <2>1. Plain /\ h[x].pc = "number"
    BY <1>11 DEF HandleNumber, Plain
  <2> QED  BY <1>1, <1>3, <1>11, <2>1, NumberMoves DEF Done
<1>12. CASE EndInvestment(x)
  <2>1. Plain /\ h[x].pc = "end"
    BY <1>12 DEF EndInvestment, Plain
  <2> QED  BY <1>1, <1>3, <1>12, <2>1, EndMoves DEF Done
<1> QED  BY <1>4, <1>5, <1>6, <1>7, <1>8, <1>9, <1>10, <1>11, <1>12,
            CreateShape, DrawShape, SendShape, PublishShape DEF HandlerStep

LEMMA ShapeNext == Shape /\ [Next]_vars => Shape'
<1> SUFFICES ASSUME Shape, [Next]_vars
             PROVE  Shape'
  OBVIOUS
<1>1. CASE UNCHANGED vars
  <2>1. HandlersKept' /\ SessionKept' /\ Others'
    BY <1>1 DEF vars, Shape, HandlersKept, SessionKept, Others, KnownAt
  <2>2. DrawnOnce'
    BY <1>1 DEF vars, Shape, DrawnOnce, Undrawn
  <2> QED  BY <2>1, <2>2 DEF Shape
<1> QED  BY <1>1, ReceiveShape, HandlerShape, ExpireShape, CrashShape DEF Next

-----------------------------------------------------------------------------
(* What a write over a session that the handler has not seen leaves behind. *)

LEMMA LossIsNoted ==
    ASSUME NEW x \in Handlers, NEW s, NoteLoss(x, s)
    PROVE  /\ flaws \subseteq flaws'
           /\ session # h[x].base =>
                  \A t \in {s, session, h[x].base} : t # NoSession => <<t.id, "lost">> \in flaws'
<1>1. flaws \subseteq flaws'
  BY DEF NoteLoss
<1>2. ASSUME session # h[x].base, NEW t \in {s, session, h[x].base}, t # NoSession
      PROVE  <<t.id, "lost">> \in flaws'
  <2>1. t.id \in IdsOf({s, session, h[x].base})
    BY <1>2 DEF IdsOf
  <2> QED  BY <1>2, <2>1 DEF NoteLoss
<1> QED  BY <1>1, <1>2

LEMMA FlawsGrow ==
    ASSUME Shape, NEW x \in Handlers, HandlerStep(x)
    PROVE  flaws \subseteq flaws'
BY LossIsNoted
   DEF HandlerStep, StartInvest, ReplaceSession, CreateSession, NameMenu, RejectPress, LoadPress,
       SaveData, Navigate, LoadBack, GoBack, Draw, SendScreen, SaveMessage, RouteText, HandleNumber,
       EndInvestment, Publish, CancelMenu, GiveUp, Save

-----------------------------------------------------------------------------
(* The keyboard of the session is shown, or will be.                       *)

(* A step that neither writes a session nor shows a keyboard.              *)
LEMMA ButtonsStay ==
    ASSUME HandlersKept, ButtonsComing, NEW x \in Handlers, NEW r, MovesTo(x, r),
           ~WillShow(x), session' \in {session, NoSession}, shown' = shown, flaws \subseteq flaws'
    PROVE  ButtonsComing'
<1> SUFFICES ASSUME session' # NoSession, Clean(session.id)', shown' # session'.keys
             PROVE  \E y \in Handlers : WillShow(y)'
  BY DEF ButtonsComing
<1>1. session' = session
  OBVIOUS
<1>2. Clean(session.id)
  BY <1>1 DEF Clean
<1>3. PICK y \in Handlers : WillShow(y)
  BY <1>1, <1>2 DEF ButtonsComing
<1>4. y # x /\ h'[y] = h[y]
  BY <1>3 DEF MovesTo, HandlersKept
<1> QED  BY <1>1, <1>3, <1>4 DEF WillShow

LEMMA ButtonsDrawn ==
    ASSUME HandlersKept, NEW x \in Handlers, NEW r, MovesTo(x, r), r.pc \in {"name", "draw", "send"}
    PROVE  ButtonsComing'
<1>1. h'[x] = r
  BY DEF MovesTo, HandlersKept
<1> QED  BY <1>1 DEF ButtonsComing, WillShow

LEMMA ButtonsReceive ==
    ASSUME Shape, ButtonsComing, NEW x \in Handlers, Receive(x)
    PROVE  ButtonsComing'
<1>1. HandlersKept /\ SessionKept /\ Others
  BY DEF Shape
<1>2. Idle.key \in Keyboard
  BY InvestAssumption DEF Idle, Keyboard, Screens
<1>3. PICK pc \in {"start", "cancel", "back", "text", "press"}, key \in Keyboard :
          Begin(x, pc, key) /\ (pc = "press" => key.of \in ChoiceScreens)
  BY <1>1, <1>2 DEF Receive, Others
<1>4. MovesTo(x, [Idle EXCEPT !.pc = pc, !.key = key])
  BY <1>1, <1>3, ReceiveMoves
<1>5. ~WillShow(x) /\ session' = session /\ shown' = shown /\ flaws' = flaws
  BY <1>3 DEF Begin, WillShow
<1> QED  BY <1>1, <1>4, <1>5, ButtonsStay

LEMMA ButtonsSend ==
    ASSUME Shape, NEW x \in Handlers, SendScreen(x)
    PROVE  ButtonsComing'
<1>1. h'[x].pc = "stamp" /\ h'[x].copy = h[x].copy /\ session' = session /\ shown' = h[x].copy.keys
  BY DEF Shape, HandlersKept, SendScreen, Handler
<1> QED  BY <1>1 DEF ButtonsComing, WillShow

(* The handler has not seen the session it overwrites, or leaves it as is. *)
LEMMA ButtonsStamp ==
    ASSUME Shape, ButtonsComing, NEW x \in Handlers, SaveMessage(x)
    PROVE  ButtonsComing'
<1>1. HandlersKept
  BY DEF Shape
<1>2. /\ session' = h[x].copy /\ NoteLoss(x, h[x].copy) /\ shown' = shown
      /\ h[x].pc = "stamp" /\ h[x].base = h[x].copy /\ MovesTo(x, Idle)
  BY <1>1, EndingMoves DEF SaveMessage, HandlersKept, CopiesOf, Written
<1>3. CASE session = h[x].base
  <2>1. ~WillShow(x)
    BY <1>2, <1>3 DEF WillShow
  <2>2. flaws \subseteq flaws'
    BY <1>2, LossIsNoted
  <2> QED  BY <1>1, <1>2, <1>3, <2>1, <2>2, ButtonsStay
<1>4. CASE session # h[x].base
  <2>1. session' # NoSession => <<session'.id, "lost">> \in flaws'
    BY <1>2, <1>4, LossIsNoted
  <2> QED  BY <2>1 DEF ButtonsComing, Clean
<1> QED  BY <1>3, <1>4

LEMMA ButtonsData ==
    ASSUME Shape, ButtonsComing, NEW x \in Handlers, SaveData(x)
    PROVE  ButtonsComing'
<1>1. HandlersKept
  BY DEF Shape
<1>2. h[x].pc = "data" /\ shown' = shown /\ created' = created
  BY DEF SaveData
<1>3. PICK s, next : SavesAs(x, s, next)
  BY <1>1, <1>2, RoomToDraw, SavesAre DEF Done
<1>4. PICK r : MovesTo(x, r) /\ r.pc = next
  BY <1>1, <1>2, <1>3, SavesMove
<1>5. session' = s /\ NoteLoss(x, s) /\ s.id = h[x].base.id
  BY <1>3 DEF SavesAs, Save
<1>6. CASE next # "push"
  BY <1>1, <1>3, <1>4, <1>6, ButtonsDrawn DEF SavesAs
<1>7. CASE session # h[x].base
  <2>1. session' # NoSession => <<session'.id, "lost">> \in flaws'
    BY <1>5, <1>7, LossIsNoted
  <2> QED  BY <2>1 DEF ButtonsComing, Clean
<1>8. CASE next = "push" /\ session = h[x].base
  <2> SUFFICES ASSUME session' # NoSession, Clean(session.id)', shown' # session'.keys
               PROVE  \E y \in Handlers : WillShow(y)'
    BY DEF ButtonsComing
  <2>1. session \in Session /\ session'.id = session.id /\ session'.keys = session.keys
    BY <1>3, <1>5, <1>8 DEF SavesAs
  <2>2. session # NoSession /\ Clean(session.id)
    BY <1>5, <2>1, LossIsNoted, NoSessionAssumption DEF Clean
  <2>3. PICK y \in Handlers : WillShow(y)
    BY <1>2, <2>1, <2>2 DEF ButtonsComing
  <2>4. y # x /\ h'[y] = h[y]
    BY <1>1, <1>2, <1>4, <2>3 DEF MovesTo, HandlersKept, WillShow
  <2> QED  BY <2>1, <2>3, <2>4 DEF WillShow
<1> QED  BY <1>6, <1>7, <1>8

LEMMA ButtonsHandler ==
    ASSUME Shape, ButtonsComing, NEW x \in Handlers, HandlerStep(x)
    PROVE  ButtonsComing'
<1>1. HandlersKept
  BY DEF Shape
<1>2. flaws \subseteq flaws'
  BY FlawsGrow
<1>3. CASE \/ StartInvest(x) \/ ReplaceSession(x) \/ RejectPress(x) \/ LoadPress(x) \/ LoadBack(x)
           \/ RouteText(x) \/ HandleNumber(x) \/ EndInvestment(x) \/ Publish(x) \/ CancelMenu(x)
  <2>1. session' \in {session, NoSession} /\ shown' = shown
    BY <1>3 DEF StartInvest, ReplaceSession, RejectPress, LoadPress, LoadBack, RouteText,
                HandleNumber, EndInvestment, Publish, CancelMenu
  <2>2. ~WillShow(x)
    BY <1>3 DEF StartInvest, ReplaceSession, RejectPress, LoadPress, LoadBack, RouteText,
                HandleNumber, EndInvestment, Publish, CancelMenu, WillShow
  <2>3. \E r : MovesTo(x, r)
    BY <1>1, <1>3, StartMoves, ReplaceMoves, EndingMoves, LoadPressMoves, LoadBackMoves, RouteMoves,
       NumberMoves, EndMoves
  <2> QED  BY <1>1, <1>2, <2>1, <2>2, <2>3, ButtonsStay
<1>4. CASE CreateSession(x)
  BY <1>1, <1>4, CreateSaves, ButtonsDrawn
<1>5. CASE NameMenu(x) \/ Navigate(x) \/ GoBack(x) \/ Draw(x)
  <2>1. created' = created /\ h[x].pc \notin Done
    BY <1>5 DEF NameMenu, Navigate, GoBack, Draw, Done
  <2>2. PICK s, next : SavesAs(x, s, next)
    BY <1>1, <1>5, <2>1, RoomToDraw, SavesAre
  <2>3. h'[x].pc \in {"draw", "send"}
    BY <1>1, <1>5 DEF NameMenu, Navigate, GoBack, Draw, Save, HandlersKept
  <2>4. PICK r : MovesTo(x, r)
    BY <1>1, <2>1, <2>2, SavesMove
  <2> QED  BY <1>1, <2>3, <2>4, ButtonsDrawn DEF MovesTo, HandlersKept
<1>6. CASE GiveUp(x)
  <2>1. session' = session /\ (session # NoSession => <<session.id, "failed">> \in flaws')
    <3>1. session # NoSession => session.id \in IdsOf({h[x].copy, session})
      BY DEF IdsOf
    <3> QED  BY <1>6, <3>1 DEF GiveUp
  <2> QED  BY <2>1 DEF ButtonsComing, Clean
<1> QED  BY <1>3, <1>4, <1>5, <1>6, ButtonsSend, ButtonsStamp, ButtonsData DEF HandlerStep

LEMMA ButtonsCrash ==
    ASSUME Shape, ButtonsComing, Crash
    PROVE  ButtonsComing'
<1>1. session' = session /\ shown' = shown
  BY DEF Crash
<1>2. CASE Running = {}
  <2>1. flaws' = flaws
    BY <1>2 DEF Crash
  <2>2. \A y \in Handlers : ~WillShow(y)
    BY <1>2 DEF Running, WillShow
  <2> QED  BY <1>1, <2>1, <2>2 DEF ButtonsComing, Clean
<1>3. CASE Running # {}
  <2>1. session # NoSession => session.id \in IdsOf({h[x].copy : x \in Handlers} \cup {session})
    BY DEF IdsOf
  <2>2. session # NoSession => <<session.id, "failed">> \in flaws'
    BY <1>3, <2>1 DEF Crash
  <2> QED  BY <1>1, <2>2 DEF ButtonsComing, Clean
<1> QED  BY <1>2, <1>3

LEMMA ButtonsNext == Shape /\ ButtonsComing /\ [Next]_vars => ButtonsComing'
<1> SUFFICES ASSUME Shape, ButtonsComing, [Next]_vars
             PROVE  ButtonsComing'
  OBVIOUS
<1>1. CASE UNCHANGED vars
  BY <1>1 DEF vars, ButtonsComing, Clean, WillShow
<1>2. CASE Expire
  BY <1>2 DEF Expire, ButtonsComing
<1> QED  BY <1>1, <1>2, ButtonsReceive, ButtonsHandler, ButtonsCrash DEF Next

-----------------------------------------------------------------------------
(* An undamaged session has one job, and is no more when it has.           *)

(* A step that publishes nothing, and brings back no session with a job.   *)
LEMMA JobsStay ==
    ASSUME HandlersKept, JobsOnce, NEW x \in Handlers, NEW r, MovesTo(x, r),
           r.pc # "publish", jobs' = jobs, flaws \subseteq flaws',
           session' # NoSession /\ Undamaged(session.id)' =>
               \/ session # NoSession /\ session.id = session'.id
               \/ ~HasJob(session'.id)
    PROVE  JobsOnce'
<1>1. \A id : \A y \in Handlers : Publishes(y, id)' => Publishes(y, id)
  BY DEF Publishes, MovesTo, HandlersKept
<1>2. \A id : HasJob(id)' => HasJob(id)
  BY <1>1 DEF HasJob
<1>3. \A id : Undamaged(id)' => Undamaged(id)
  BY DEF Undamaged
<1> SUFFICES ASSUME NEW id \in 1 .. MaxSessions, Undamaged(id)'
             PROVE  /\ HasJob(id)' => session' = NoSession \/ session'.id # id
                    /\ \A i, j \in 1 .. Len(jobs') : jobs'[i].id = id /\ jobs'[j].id = id => i = j
                    /\ \A y, z \in Handlers : Publishes(y, id)' /\ Publishes(z, id)' => y = z
                    /\ \A i \in 1 .. Len(jobs'), y \in Handlers :
                           ~(jobs'[i].id = id /\ Publishes(y, id)')
  BY DEF JobsOnce
<1>4. Undamaged(id)
  BY <1>3
<1>5. HasJob(id)' => session' = NoSession \/ session'.id # id
  <2> SUFFICES ASSUME HasJob(id)', session' # NoSession, session'.id = id
               PROVE  FALSE
    OBVIOUS
  <2>1. HasJob(id) /\ (session = NoSession \/ session.id # id)
    BY <1>2, <1>4 DEF JobsOnce
  <2>2. Undamaged(session.id)'
    BY DEF Undamaged
  <2> QED  BY <2>1, <2>2
<1> QED  BY <1>1, <1>4, <1>5 DEF JobsOnce

LEMMA JobsReceive ==
    ASSUME Shape, JobsOnce, NEW x \in Handlers, Receive(x)
    PROVE  JobsOnce'
<1>1. HandlersKept /\ SessionKept /\ Others
  BY DEF Shape
<1>2. Idle.key \in Keyboard
  BY InvestAssumption DEF Idle, Keyboard, Screens
<1>3. PICK pc \in {"start", "cancel", "back", "text", "press"}, key \in Keyboard :
          Begin(x, pc, key) /\ (pc = "press" => key.of \in ChoiceScreens)
  BY <1>1, <1>2 DEF Receive, Others
<1> DEFINE r == [Idle EXCEPT !.pc = pc, !.key = key]
<1>4. MovesTo(x, r)
  BY <1>1, <1>3, ReceiveMoves
<1>5. r.pc # "publish"
  BY DEF Idle
<1>6. session' = session /\ jobs' = jobs /\ flaws' = flaws
  BY <1>3 DEF Begin
<1> HIDE DEF r
<1> QED  BY <1>1, <1>4, <1>5, <1>6, JobsStay

LEMMA JobsSaved ==
    ASSUME Shape, JobsOnce, NEW x \in Handlers,
           NameMenu(x) \/ SaveData(x) \/ Navigate(x) \/ GoBack(x) \/ Draw(x)
    PROVE  JobsOnce'
<1>1. HandlersKept
  BY DEF Shape
<1>2. created' = created /\ jobs' = jobs /\ h[x].pc \notin Done
  BY DEF NameMenu, SaveData, Navigate, GoBack, Draw, Done
<1>3. PICK s, next : SavesAs(x, s, next)
  BY <1>1, <1>2, RoomToDraw, SavesAre
<1>4. PICK r : MovesTo(x, r) /\ r.pc = next
  BY <1>1, <1>2, <1>3, SavesMove
<1>5. session' = s /\ NoteLoss(x, s) /\ s.id = h[x].base.id /\ s \in Session
      /\ h[x].base \in Session /\ next # "publish"
  BY <1>3 DEF SavesAs, Save
<1>6. flaws \subseteq flaws'
  BY <1>5, LossIsNoted
<1>7. Undamaged(session.id)' => session # NoSession /\ session.id = session'.id
  BY <1>5, LossIsNoted, NoSessionAssumption DEF Undamaged
<1> QED  BY <1>1, <1>2, <1>4, <1>5, <1>6, <1>7, JobsStay

LEMMA JobsStamp ==
    ASSUME Shape, JobsOnce, NEW x \in Handlers, SaveMessage(x)
    PROVE  JobsOnce'
<1>1. HandlersKept
  BY DEF Shape
<1>2. /\ session' = h[x].copy /\ NoteLoss(x, h[x].copy) /\ jobs' = jobs
      /\ h[x].base = h[x].copy /\ h[x].copy \in Session /\ MovesTo(x, Idle)
  BY <1>1, EndingMoves DEF SaveMessage, HandlersKept, CopiesOf, Written
<1>3. flaws \subseteq flaws'
  BY <1>2, LossIsNoted
<1>4. Undamaged(session.id)' => session # NoSession /\ session.id = session'.id
  BY <1>2, LossIsNoted, NoSessionAssumption DEF Undamaged
<1> QED  BY <1>1, <1>2, <1>3, <1>4, IdleIs, JobsStay

(* A new session has a new identifier.                                     *)
LEMMA JobsCreate ==
    ASSUME Shape, JobsOnce, NEW x \in Handlers, CreateSession(x)
    PROVE  JobsOnce'
<1>1. HandlersKept /\ Others
  BY DEF Shape
<1>2. PICK r : MovesTo(x, r) /\ r.pc = "name"
  BY <1>1, CreateSaves
<1>3. /\ session'.id = created + 1 /\ jobs' = jobs /\ flaws \subseteq flaws'
  BY <1>1, CreateSaves, LossIsNoted DEF CreateSession, Save
<1>4. created \in Nat
  BY <1>1, InvestAssumption DEF Others
<1>5. \A i \in 1 .. Len(jobs) : jobs[i].id # created + 1
  <2> SUFFICES ASSUME NEW i \in 1 .. Len(jobs)
               PROVE  jobs[i].id # created + 1
    OBVIOUS
  <2>1. jobs[i] \in Job /\ jobs[i].id <= created
    BY <1>1, ElementOfSeq DEF Others
  <2>2. jobs[i].id \in 1 .. MaxSessions
    BY <2>1 DEF Job
  <2> QED  BY <1>4, <2>1, <2>2, InvestAssumption
<1>6. \A y \in Handlers : ~Publishes(y, created + 1)
  <2> SUFFICES ASSUME NEW y \in Handlers, h[y].pc = "publish"
               PROVE  h[y].copy.id # created + 1
    BY DEF Publishes
  <2>1. h[y].copy \in Session /\ h[y].copy.id <= created
    BY <1>1, NoSessionAssumption DEF HandlersKept, CopiesOf, Written, KnownAt
  <2>2. h[y].copy.id \in 1 .. MaxSessions
    BY <2>1 DEF Session
  <2> QED  BY <1>4, <2>1, <2>2, InvestAssumption
<1>7. ~HasJob(session'.id)
  BY <1>3, <1>5, <1>6 DEF HasJob
<1> QED  BY <1>1, <1>2, <1>3, <1>7, JobsStay

(* The menu is ended: with the session that the handler has seen, which    *)
(* had no job before, or with one that is damaged.                         *)
LEMMA JobsEnd ==
    ASSUME Shape, JobsOnce, NEW x \in Handlers, EndInvestment(x)
    PROVE  JobsOnce'
<1>1. HandlersKept
  BY DEF Shape
<1>2. MovesTo(x, [h[x] EXCEPT !.pc = "publish"])
  BY <1>1, EndMoves
<1>3. jobs' = jobs /\ h[x].pc = "end"
  BY DEF EndInvestment
<1>4. h[x].copy \in Session /\ h[x].base = h[x].copy /\ h[x] \in Handler
  BY <1>1, <1>3 DEF HandlersKept, CopiesOf, Written
<1>5. /\ h'[x].pc = "publish" /\ h'[x].copy = h[x].copy
      /\ \A y \in Handlers \ {x} : h'[y] = h[y]
  BY <1>1, <1>2, <1>4 DEF MovesTo, HandlersKept, Handler
<1>6. \A id : \A y \in Handlers \ {x} : Publishes(y, id)' <=> Publishes(y, id)
  BY <1>5 DEF Publishes
<1>7. \A id : Publishes(x, id)' <=> id = h[x].copy.id
  BY <1>5 DEF Publishes
<1>8. flaws \subseteq flaws' /\ session' \in {session, NoSession}
  BY LossIsNoted DEF EndInvestment
<1>9. \A id : Undamaged(id)' => Undamaged(id)
  BY <1>8 DEF Undamaged
<1>10. \A id : Undamaged(id)' /\ id = h[x].copy.id => session' = NoSession /\ session = h[x].copy
  <2>1. CASE session' = NoSession /\ NoteLoss(x, NoSession)
    BY <1>4, <2>1, LossIsNoted, NoSessionAssumption DEF Undamaged
  <2>2. CASE flaws' = flaws \cup {<<h[x].copy.id, "kept">>}
    BY <2>2 DEF Undamaged
  <2> QED  BY <2>1, <2>2 DEF EndInvestment
<1> SUFFICES ASSUME NEW id \in 1 .. MaxSessions, Undamaged(id)'
             PROVE  /\ HasJob(id)' => session' = NoSession \/ session'.id # id
                    /\ \A i, j \in 1 .. Len(jobs') : jobs'[i].id = id /\ jobs'[j].id = id => i = j
                    /\ \A y, z \in Handlers : Publishes(y, id)' /\ Publishes(z, id)' => y = z
                    /\ \A i \in 1 .. Len(jobs'), y \in Handlers :
                           ~(jobs'[i].id = id /\ Publishes(y, id)')
  BY DEF JobsOnce
<1>11. CASE id = h[x].copy.id
  <2>1. session' = NoSession /\ session \in Session /\ session # NoSession /\ session.id = id
    BY <1>4, <1>10, <1>11, NoSessionAssumption
  <2>2. ~HasJob(id)
    BY <1>9, <2>1 DEF JobsOnce
  <2>3. /\ \A i \in 1 .. Len(jobs) : jobs[i].id # id
        /\ \A y \in Handlers : ~Publishes(y, id)
    BY <2>2 DEF HasJob
  <2> QED  BY <1>3, <1>6, <2>1, <2>3
<1>12. CASE id # h[x].copy.id
  <2>1. \A y \in Handlers : Publishes(y, id)' => Publishes(y, id)
    BY <1>6, <1>7, <1>12
  <2>2. HasJob(id)' => HasJob(id)
    BY <1>3, <2>1 DEF HasJob
  <2> QED  BY <1>3, <1>8, <1>9, <2>1, <2>2 DEF JobsOnce
<1> QED  BY <1>11, <1>12

LEMMA JobsPublish ==
    ASSUME Shape, JobsOnce, NEW x \in Handlers, Publish(x)
    PROVE  JobsOnce'
<1>1. HandlersKept /\ Others
  BY DEF Shape
<1>2. PICK job \in Job : jobs' = Append(jobs, job) /\ job.id = h[x].copy.id
  BY <1>1, PublishIs
<1>3. /\ jobs \in Seq(Job) /\ Len(jobs) \in Nat /\ Len(jobs') = Len(jobs) + 1
      /\ jobs'[Len(jobs) + 1] = job /\ \A i \in 1 .. Len(jobs) : jobs'[i] = jobs[i]
  BY <1>1, <1>2 DEF Others
<1>4. MovesTo(x, Idle)
  BY EndingMoves
<1>5. \A id : \A y \in Handlers : Publishes(y, id)' => y # x /\ Publishes(y, id)
  BY <1>1, <1>4, IdleIs DEF Publishes, MovesTo, HandlersKept
<1>6. session' = session /\ flaws' = flaws /\ Publishes(x, job.id)
  BY <1>2 DEF Publish, Publishes
<1>7. \A id : HasJob(id)' => HasJob(id)
  BY <1>3, <1>5, <1>6 DEF HasJob
<1> SUFFICES ASSUME NEW id \in 1 .. MaxSessions, Undamaged(id)'
             PROVE  /\ HasJob(id)' => session' = NoSession \/ session'.id # id
                    /\ \A i, j \in 1 .. Len(jobs') : jobs'[i].id = id /\ jobs'[j].id = id => i = j
                    /\ \A y, z \in Handlers : Publishes(y, id)' /\ Publishes(z, id)' => y = z
                    /\ \A i \in 1 .. Len(jobs'), y \in Handlers :
                           ~(jobs'[i].id = id /\ Publishes(y, id)')
  BY DEF JobsOnce
<1>8. Undamaged(id)
  BY <1>6 DEF Undamaged
<1>9. HasJob(id)' => session' = NoSession \/ session'.id # id
  BY <1>6, <1>7, <1>8 DEF JobsOnce
<1>10. ASSUME job.id = id
      PROVE  /\ \A i \in 1 .. Len(jobs) : jobs[i].id # id
             /\ \A y \in Handlers : Publishes(y, id) => y = x
  <2>1. Publishes(x, id)
    BY <1>6, <1>10
  <2> QED  BY <1>8, <2>1 DEF JobsOnce
<1>11. \A i, j \in 1 .. Len(jobs') : jobs'[i].id = id /\ jobs'[j].id = id => i = j
  <2> SUFFICES ASSUME NEW i \in 1 .. Len(jobs'), NEW j \in 1 .. Len(jobs'),
                      jobs'[i].id = id, jobs'[j].id = id, i # j
               PROVE  FALSE
    OBVIOUS
  <2>1. CASE i \in 1 .. Len(jobs) /\ j \in 1 .. Len(jobs)
    BY <1>3, <1>8, <2>1 DEF JobsOnce
  <2>2. CASE i = Len(jobs) + 1 /\ j \in 1 .. Len(jobs)
    BY <1>3, <1>10, <2>2
  <2>3. CASE j = Len(jobs) + 1 /\ i \in 1 .. Len(jobs)
    BY <1>3, <1>10, <2>3
  <2> QED  BY <1>3, <2>1, <2>2, <2>3
<1>12. \A y, z \in Handlers : Publishes(y, id)' /\ Publishes(z, id)' => y = z
  BY <1>5, <1>8 DEF JobsOnce
<1>13. \A i \in 1 .. Len(jobs'), y \in Handlers : ~(jobs'[i].id = id /\ Publishes(y, id)')
  <2> SUFFICES ASSUME NEW i \in 1 .. Len(jobs'), NEW y \in Handlers,
                      jobs'[i].id = id, Publishes(y, id)'
               PROVE  FALSE
    OBVIOUS
  <2>1. y # x /\ Publishes(y, id)
    BY <1>5
  <2>2. CASE i \in 1 .. Len(jobs)
    BY <1>3, <1>8, <2>1, <2>2 DEF JobsOnce
  <2>3. CASE i = Len(jobs) + 1
    BY <1>3, <1>10, <2>1, <2>3
  <2> QED  BY <1>3, <2>2, <2>3
<1> QED  BY <1>9, <1>11, <1>12, <1>13

LEMMA JobsHandler ==
    ASSUME Shape, JobsOnce, NEW x \in Handlers, HandlerStep(x)
    PROVE  JobsOnce'
<1>1. HandlersKept
  BY DEF Shape
<1>2. flaws \subseteq flaws'
  BY FlawsGrow
<1>3. CASE \/ StartInvest(x) \/ ReplaceSession(x) \/ RejectPress(x) \/ LoadPress(x) \/ LoadBack(x)
           \/ RouteText(x) \/ HandleNumber(x) \/ SendScreen(x) \/ CancelMenu(x) \/ GiveUp(x)
  <2>1. session' \in {session, NoSession} /\ jobs' = jobs
    BY <1>3 DEF StartInvest, ReplaceSession, RejectPress, LoadPress, LoadBack, RouteText,
                HandleNumber, SendScreen, CancelMenu, GiveUp
  <2>2. \E r : MovesTo(x, r) /\ r.pc # "publish"
    BY <1>1, <1>3, StartMoves, ReplaceMoves, EndingMoves, LoadPressMoves, LoadBackMoves, RouteMoves,
       NumberMoves, SendMoves, IdleIs
  <2> QED  BY <1>1, <1>2, <2>1, <2>2, JobsStay
<1> QED  BY <1>3, JobsSaved, JobsStamp, JobsCreate, JobsEnd, JobsPublish DEF HandlerStep

LEMMA JobsNext == Shape /\ JobsOnce /\ [Next]_vars => JobsOnce'
<1> SUFFICES ASSUME Shape, JobsOnce, [Next]_vars
             PROVE  JobsOnce'
  OBVIOUS
<1>1. CASE UNCHANGED vars
  BY <1>1 DEF vars, JobsOnce, HasJob, Publishes, Undamaged
<1>2. CASE Expire
  BY <1>2 DEF Expire, JobsOnce, HasJob, Publishes, Undamaged
<1>3. CASE Crash
  <2>1. session' = session /\ jobs' = jobs
    BY <1>3 DEF Crash
  <2>2. \A id : \A y \in Handlers : ~Publishes(y, id)'
    BY <1>3, IdleIs DEF Crash, Publishes
  <2>3. \A id : Undamaged(id)' => Undamaged(id)
    <3>1. flaws \subseteq flaws'
      BY <1>3 DEF Crash
    <3> QED  BY <3>1 DEF Undamaged
  <2>4. \A id : HasJob(id)' => HasJob(id)
    BY <2>1, <2>2 DEF HasJob
  <2> QED  BY <2>1, <2>2, <2>3, <2>4 DEF JobsOnce
<1> QED  BY <1>1, <1>2, <1>3, JobsReceive, JobsHandler DEF Next

-----------------------------------------------------------------------------
(* The theorems.                                                           *)

LEMMA InitHolds == Init => IInv
<1> SUFFICES ASSUME Init
             PROVE  IInv
  OBVIOUS
<1>1. Others
  BY InvestAssumption DEF Init, Others, Keyboard, Screens
<1>2. HandlersKept /\ SessionKept
  BY IdleIs DEF Init, HandlersKept, SessionKept, KnownAt
<1>3. DrawnOnce
  <2>1. Undrawn = {}
    BY IdleIs DEF Init, Undrawn
  <2> QED  BY <2>1, FS_EmptySet DEF Init, DrawnOnce
<1>4. ButtonsComing
  BY DEF Init, ButtonsComing
<1>5. JobsOnce
  BY IdleIs DEF Init, JobsOnce, HasJob, Publishes
<1> QED  BY <1>1, <1>2, <1>3, <1>4, <1>5 DEF IInv, Shape

LEMMA NextHolds == IInv /\ [Next]_vars => IInv'
BY ShapeNext, ButtonsNext, JobsNext DEF IInv

LEMMA Invariance == Spec => []IInv
<1> QED  BY InitHolds, NextHolds, PTL DEF Spec

LEMMA TypesHold == IInv => TypeOK
<1> SUFFICES ASSUME IInv
             PROVE  TypeOK
  OBVIOUS
<1>1. HandlersKept /\ SessionKept /\ Others /\ DrawnOnce
  BY DEF IInv, Shape
<1>2. drawn \in 0 .. MaxUpdates
  <2>1. Cardinality(Undrawn) \in Nat
    BY <1>1, FS_CardinalityType DEF DrawnOnce
  <2> QED  BY <1>1, <2>1, InvestAssumption DEF DrawnOnce, Others
<1>3. \A x \in Handlers : h[x].copy = NoSession => h[x].pc \in Unread
  BY <1>1, NoSessionAssumption DEF HandlersKept, CopiesOf, Handler
<1>4. \A x \in Handlers : {h[x].copy, h[x].base} \subseteq Session \cup {NoSession}
  BY <1>1 DEF HandlersKept, Handler
<1> QED  BY <1>1, <1>2, <1>3, <1>4 DEF TypeOK, SessionKept, Others, Unread

LEMMA ButtonsHold == IInv => ButtonsWork
<1> SUFFICES ASSUME IInv, Running = {}
             PROVE  session # NoSession /\ (\A f \in flaws : f[1] # session.id)
                        => session.keys = shown
  BY DEF ButtonsWork
<1>1. \A x \in Handlers : ~WillShow(x)
  BY DEF Running, WillShow
<1> QED  BY <1>1 DEF IInv, ButtonsComing, Clean

LEMMA JobsHold == IInv => JobsMatchSessions
<1> SUFFICES ASSUME IInv
             PROVE  JobsMatchSessions
  OBVIOUS
<1>1. Others
  BY DEF IInv, Shape
<1>2. \A i \in 1 .. Len(jobs) : jobs[i] \in Job
  BY <1>1, ElementOfSeq DEF Others
<1>3. OneJobPerSession
  <2>1. \A i \in 1 .. Len(jobs) : jobs[i].id \in 1 .. MaxSessions
    BY <1>2 DEF Job
  <2> QED  BY <2>1 DEF OneJobPerSession, IInv, JobsOnce, Undamaged
<1>4. JobIsComplete
  <2>1. \A i \in 1 .. Len(jobs) : jobs[i].data \in SUBSET ChoiceScreens
    BY <1>2 DEF Job
  <2>2. Before["amt"] = ChoiceScreens
    BY DEF Before
  <2> QED  BY <1>1, <2>1, <2>2 DEF JobIsComplete, Others
<1> QED  BY <1>3, <1>4 DEF JobsMatchSessions

(* Types; the keyboards drawn are at most the updates sent, and a handler  *)
(* that writes or ends a session has a copy of one.                        *)
THEOREM TypeCorrect == Spec => []TypeOK
<1> QED  BY Invariance, TypesHold, PTL

(* The buttons in front of the user are the session's, once no handler     *)
(* runs, unless an update was lost or a handler gave up.                   *)
THEOREM ButtonsAnswer == Spec => []ButtonsWork
<1> QED  BY Invariance, ButtonsHold, PTL

(* A session leads to one job unless it was damaged, and a job whose       *)
(* amount was asked for has every choice, whatever the handlers lose.      *)
THEOREM JobsMatch == Spec => []JobsMatchSessions
<1> QED  BY Invariance, JobsHold, PTL

-----------------------------------------------------------------------------
(* The consumer of the jobs.                                               *)

LEMMA MenuOrStutter == [NextJobs]_<<vars, jobVars>> => [Next]_vars
BY DEF NextJobs, MenuStep, ReadJob, Onboard, Finish, CrashJobs, Next, jobVars

(* The consumer does nothing to the menu: what holds of the menu holds     *)
(* beside it.                                                              *)
THEOREM MenuIsUndisturbed == SpecJobs => Spec
<1>1. InitJobs => Init
  BY DEF InitJobs
<1> QED  BY <1>1, MenuOrStutter, PTL DEF SpecJobs, Spec

(* No job of the menu becomes a portfolio: it names no strategy, and the   *)
(* one that is created instead is refused.                                 *)
NoPortfolio == \A i \in 1 .. Len(outcome) : outcome[i] # "portfolio"

Outcomes == {"portfolio", "refused", "error", "lost"}

WorkIsRead ==
    /\ offset \in 0 .. Len(jobs) /\ work \in 0 .. offset
    /\ outcome \in Seq(Outcomes)

LEMMA WorkNext == Others /\ WorkIsRead /\ [NextJobs]_<<vars, jobVars>> => WorkIsRead'
<1> SUFFICES ASSUME Others, WorkIsRead, [NextJobs]_<<vars, jobVars>>
             PROVE  WorkIsRead'
  OBVIOUS
<1>1. jobs \in Seq(Job) /\ Len(jobs) \in Nat
  BY DEF Others
<1>2. CASE MenuStep
  <2>1. offset' = offset /\ work' = work /\ outcome' = outcome
    BY <1>2 DEF MenuStep, jobVars
  <2>2. jobs' = jobs \/ \E j : jobs' = Append(jobs, j)
    BY <1>2 DEF MenuStep, Receive, Begin, Expire, HandlerStep, StartInvest, ReplaceSession,
       CreateSession, NameMenu, RejectPress, LoadPress, SaveData, Navigate, LoadBack, GoBack, Draw,
       SendScreen, SaveMessage, RouteText, HandleNumber, EndInvestment, Publish, CancelMenu, GiveUp
  <2>3. Len(jobs') \in Nat /\ Len(jobs') >= Len(jobs)
    BY <1>1, <2>2
  <2> QED  BY <1>1, <2>1, <2>3 DEF WorkIsRead
<1>3. CASE ReadJob
  BY <1>1, <1>3 DEF ReadJob, WorkIsRead, vars
<1>4. \A result \in Outcomes : Append(outcome, result) \in Seq(Outcomes)
  BY DEF WorkIsRead
<1>5. CASE Onboard
  <2>1. jobs' = jobs /\ offset' = offset /\ work' = 0
    BY <1>5 DEF Onboard, Finish, vars
  <2>2. \E result \in Outcomes : outcome' = Append(outcome, result)
    BY <1>5 DEF Onboard, Finish, Outcomes
  <2> QED  BY <1>1, <1>4, <2>1, <2>2 DEF WorkIsRead
<1>7. CASE CrashJobs
  <2>1. jobs' = jobs /\ offset' = offset /\ work' = 0
    BY <1>7 DEF CrashJobs, Crash
  <2>2. outcome' = outcome \/ outcome' = Append(outcome, "lost")
    BY <1>7 DEF CrashJobs
  <2>3. "lost" \in Outcomes
    BY DEF Outcomes
  <2> QED  BY <1>1, <1>4, <2>1, <2>2, <2>3 DEF WorkIsRead
<1>6. CASE UNCHANGED <<vars, jobVars>>
  BY <1>6 DEF WorkIsRead, vars, jobVars
<1> QED  BY <1>2, <1>3, <1>5, <1>6, <1>7 DEF NextJobs

LEMMA OutcomeNext ==
    Others /\ WorkIsRead /\ NoPortfolio /\ [NextJobs]_<<vars, jobVars>> => NoPortfolio'
<1> SUFFICES ASSUME Others, WorkIsRead, NoPortfolio, [NextJobs]_<<vars, jobVars>>
             PROVE  NoPortfolio'
  OBVIOUS
<1>1. outcome \in Seq(Outcomes)
  BY DEF WorkIsRead
<1>2. ASSUME NEW result \in Outcomes, result # "portfolio", outcome' = Append(outcome, result)
      PROVE  NoPortfolio'
  <2>1. /\ Len(outcome') = Len(outcome) + 1 /\ Len(outcome) \in Nat
        /\ outcome'[Len(outcome) + 1] = result
        /\ \A i \in 1 .. Len(outcome) : outcome'[i] = outcome[i]
    BY <1>1, <1>2
  <2> QED  BY <1>2, <2>1 DEF NoPortfolio
<1>3. CASE Onboard
  <2>1. work \in 1 .. Len(jobs)
    <3>1. Len(jobs) \in Nat
      BY DEF Others
    <3>2. work # 0
      BY <1>3 DEF Onboard
    <3> QED  BY <3>1, <3>2 DEF WorkIsRead
  <2>2. jobs[work].strategy = ""
    <3>1. jobs[work] \in Job
      BY <2>1, ElementOfSeq DEF Others
    <3> QED  BY <3>1 DEF Job
  <2>3. ~ValidParams(FallbackParams)
    BY DEF ValidParams, FallbackParams
  <2>4. outcome' = Append(outcome, "refused") \/ outcome' = Append(outcome, "error")
    BY <1>3, <2>2, <2>3 DEF Onboard, Finish
  <2> QED  BY <1>2, <2>4 DEF Outcomes
<1>4. CASE CrashJobs
  <2>1. outcome' = outcome \/ outcome' = Append(outcome, "lost")
    BY <1>4 DEF CrashJobs
  <2> QED  BY <1>2, <2>1 DEF NoPortfolio, Outcomes
<1>5. CASE MenuStep \/ ReadJob \/ UNCHANGED <<vars, jobVars>>
  <2>1. outcome' = outcome
    BY <1>5 DEF MenuStep, ReadJob, jobVars
  <2> QED  BY <2>1 DEF NoPortfolio
<1> QED  BY <1>3, <1>4, <1>5 DEF NextJobs

(* Whatever the user, the handlers and the consumer do, the fallback that  *)
(* the comment in invest_menu.go promises never gives a portfolio.         *)
THEOREM FallbackNeverCreates == SpecJobs => []NoPortfolio
<1>1. InitJobs => WorkIsRead /\ NoPortfolio
  <2> SUFFICES ASSUME InitJobs
               PROVE  WorkIsRead /\ NoPortfolio
    OBVIOUS
  <2> QED  BY DEF InitJobs, Init, WorkIsRead, NoPortfolio
<1>2. IInv => Others
  BY DEF IInv, Shape
<1>3. SpecJobs => []IInv
  BY MenuIsUndisturbed, Invariance, PTL
<1> QED  BY <1>1, <1>2, <1>3, WorkNext, OutcomeNext, PTL DEF SpecJobs
=============================================================================
