-------------------------- MODULE TelegramPolling --------------------------
(***************************************************************************)
(* How the updates of one bot reach the server: the polling loops of its   *)
(* binding, the supervisor that starts and stops them, the webhook, the    *)
(* dispatcher both share, and the relay's memory of processed updates.     *)
(*                                                                         *)
(* A loop is aborted by a flag.  The long poll and the backoff end at once *)
(* when it is raised; every other await runs on, so for a while an aborted *)
(* loop and its successor handle the same updates.  An ordinary update is  *)
(* remembered when it is received, one of the golden path when its capture *)
(* is durable.  Telegram repeats what no later request has confirmed.      *)
(*                                                                         *)
(* The memory is a list of numbers and a file.  The list is changed first; *)
(* when the write of the file then fails the number stays in the list, and *)
(* the next write that succeeds takes it along.                            *)
(*                                                                         *)
(* The bots of an installation share one memory, and Telegram numbers the  *)
(* updates of each bot on its own.                                         *)
(***************************************************************************)
EXTENDS Naturals, Sequences, FiniteSets, Functions

CONSTANTS
  LastUpdate,  \* bound: the bot's updates are 1..LastUpdate, as Telegram numbers them
  GoldenPath,  \* the updates of the golden path: commands and its callbacks
  Loops,       \* bound: loops that have not ended, and the registered one
  NoLoop,      \* no consumer is registered
  Tokens,      \* tokens the binding may have while its mode is polling
  Webhook,     \* the binding's mode is webhook
  Inactive,    \* the binding, or its cat, is not active
  Initial,     \* bound: settings at the first start; the names of the tokens do not matter
  Routes,      \* bound: requests and detached reconciliations in flight
  Ceiling,     \* maxInFlightPerKey
  Kept,        \* maxProcessedUpdates
  MaxChanges,  \* bound: what the owner asks: settings, reconnects and resets
  Mishaps,     \* what may go wrong, of MishapKinds
  MaxMishaps   \* bound: how often, all together

Updates == 1..LastUpdate

\* A request, read, capture or write fails before anything is remembered; the write of
\* what was just remembered fails; another bot has an update; the process dies.
MishapKinds == {"failure", "unwritten", "otherBot", "death"}

\* The memory may keep any number of updates, fewer than there are too.
ASSUME PollingAssumption ==
  /\ LastUpdate \in Nat /\ GoldenPath \subseteq Updates
  /\ IsFiniteSet(Loops) /\ NoLoop \notin Loops
  /\ Webhook \notin Tokens /\ Inactive \notin Tokens /\ Webhook # Inactive
  /\ Initial \subseteq Tokens \cup {Webhook, Inactive}
  /\ Ceiling \in Nat \ {0} /\ Kept \in Nat
  /\ Mishaps \subseteq MishapKinds /\ MaxChanges \in Nat /\ MaxMishaps \in Nat

VARIABLES
  up,          \* the process is running
  setting,     \* durable: the token the binding polls with, Webhook or Inactive
  arrived,     \* Telegram: updates 1..arrived exist
  confirmed,   \* Telegram: updates 1..confirmed are not sent again
  processed,   \* the relay's memory, the oldest first
  stored,      \* durable: the memory as it was last written
  captured,    \* durable: golden-path updates whose capture is written
  loop,        \* the loops, with what each shows as its health
  current,     \* the registered consumer
  turns,       \* ordinary updates whose bridge runs, detached
  dispatched,  \* how often each ordinary update was dispatched
  push,        \* the webhook request in progress
  route,       \* what each request is about to do
  reset,       \* a data reset waits for the work in flight
  forgets,     \* history: how often the memory lost each update
  excused,     \* history: updates that need not have been handled
  taken,       \* history: updates whose numbers another bot used
  lost,        \* history: updates remembered, and dropped before their dispatch
  lapse,       \* history: why polling may differ from the setting
  changes, mishaps

telegram == <<arrived, confirmed>>
memory == <<processed, stored, forgets>>
handled == <<captured, turns, dispatched, excused, taken, lost>>
supervisor == <<loop, current, lapse>>
bounds == <<changes, mishaps>>
aside == <<up, setting, current, lapse, push, route, reset, bounds>>  \* no loop writes these
vars == <<up, setting, telegram, memory, handled, supervisor, push, route, reset, bounds>>

-----------------------------------------------------------------------------
Place == {"none", "poll", "asked", "context", "batch", "goldenSlot", "capture", "captured",
          "chatSlot", "pause", "backoff"}
Unpolled == {Webhook, Inactive}

\* cur..last is what is left of the batch; offset 0 asks for everything.
Fresh(token) == [at |-> "poll", aborted |-> FALSE, health |-> "live", token |-> token,
                 bound |-> FALSE, offset |-> 0, cur |-> 0, last |-> 0]
Ended == [Fresh(Inactive) EXCEPT !.at = "none", !.health = "stopped"]
Between(state, place) == [state EXCEPT !.at = place, !.bound = FALSE, !.cur = 0, !.last = 0]
NoPush == [at |-> "idle", update |-> 0]
Idle == [at |-> "idle", token |-> Inactive]

Live(l) == loop[l].at # "none" /\ ~loop[l].aborted
Known(u) == u \in Range(processed)

\* What counts against the ceiling of the binding.
Busy == turns + Cardinality({l \in Loops : loop[l].at \in {"capture", "captured"}})
              + Cardinality({p \in {push} : p.at \in {"capture", "captured"}})

\* One more mishap, of a kind that may happen.
Mishap(kind) == kind \in Mishaps /\ mishaps < MaxMishaps /\ mishaps' = mishaps + 1

\* markProcessedUpdateInMemory: the oldest is forgotten when there are too many.
Memorize(u) ==
  LET longer == Append(processed, u)
      full == Len(longer) > Kept
  IN  /\ processed' = IF full THEN Tail(longer) ELSE longer
      /\ forgets' = [v \in Updates |->
                       IF full /\ v = longer[1] THEN forgets[v] + 1 ELSE forgets[v]]

\* persist writes the whole memory.
Persist == stored' = processed'

\* markProcessedUpdate: what is known already is not written again.
Remember(u) == IF Known(u) THEN UNCHANGED memory ELSE Memorize(u) /\ Persist

\* A receipt alone is recorded: the file is written, the memory is what it was.
Record == UNCHANGED <<processed, forgets>> /\ Persist

-----------------------------------------------------------------------------
(* runPollingLoop *)

At(l, place) == loop' = [loop EXCEPT ![l].at = place]

\* The loop's condition, and with it the end of an aborted loop.
Continues(l, state) ==
  loop' = [loop EXCEPT ![l] = IF state.aborted THEN Ended ELSE Between(state, "poll")]

\* The update is done with: the offset is past it.
Past(l) ==
  loop' = [loop EXCEPT ![l].at = "batch", ![l].offset = loop[l].cur + 1, ![l].cur = @ + 1]

\* Mutant of Confirms: the offset itself is confirmed.
ConfirmsOffset(offset) == IF offset > confirmed THEN offset ELSE confirmed

\* A request for an offset confirms what is before it.
Confirms(offset) == IF offset > confirmed + 1 THEN offset - 1 ELSE confirmed

Ask(l) ==
  /\ loop[l].at = "poll"
  /\ confirmed' = Confirms(loop[l].offset)
  /\ At(l, "asked")
  /\ UNCHANGED <<aside, arrived, memory, handled>>

Answer(l) ==
  /\ loop[l].at = "asked"
  /\ loop' = [loop EXCEPT ![l].at = "context", ![l].cur = confirmed + 1, ![l].last = arrived]
  /\ UNCHANGED <<aside, telegram, memory, handled>>

\* refreshContext has answered; an empty batch makes the loop pause.
Context(l) ==
  LET state == [loop[l] EXCEPT !.bound = setting # Inactive]
  IN  /\ loop[l].at = "context"
      /\ loop' = [loop EXCEPT ![l] = IF state.cur > state.last
                                     THEN Between([state EXCEPT !.health = "live"], "pause")
                                     ELSE [state EXCEPT !.at = "batch"]]
      /\ UNCHANGED <<aside, telegram, memory, handled>>

\* Mutant of Receive: an ordinary update is remembered once its bridge has it.
ReceiveUnmarked(u) == Record

\* receiveUpdate of an ordinary update that is accepted, and new.
Receive(u) == Memorize(u) /\ Persist

\* Its mark is in the list and the write of the file fails, or the mark is written and
\* the write of the receipt fails: the caller sees an error and the update is not
\* dispatched.
ReceiveUnwritten(u) ==
  /\ Memorize(u)
  /\ UNCHANGED stored \/ Persist
  /\ lost' = lost \cup {u}

\* receiveUpdate ignores an update it knows, and any while the binding is not there.
Ignores(l, u) == Known(u) \/ ~loop[l].bound

Ignore(l, u) ==
  /\ Past(l)
  /\ excused' = IF Known(u) THEN excused ELSE excused \cup {u}
  /\ Record

\* The loop has an update left and goes on with it.
Takes(l) == loop[l].at = "batch" /\ ~loop[l].aborted /\ loop[l].cur <= loop[l].last

NextChat(l) ==
  LET u == loop[l].cur
  IN  /\ Takes(l) /\ u \notin GoldenPath
      /\ IF Ignores(l, u) THEN Ignore(l, u)
         ELSE Receive(u) /\ At(l, "chatSlot") /\ UNCHANGED excused
      /\ UNCHANGED <<aside, telegram, captured, turns, dispatched, taken, lost>>

\* A slot is free: the bridge runs detached, and the offset moves on.
Dispatch(l) ==
  LET u == loop[l].cur
  IN  /\ loop[l].at = "chatSlot" /\ Busy < Ceiling
      /\ dispatched' = [dispatched EXCEPT ![u] = @ + 1]
      /\ turns' = turns + 1
      /\ Past(l)
      /\ UNCHANGED <<aside, telegram, memory, captured, excused, taken, lost>>

NextGoldenPath(l) ==
  /\ Takes(l) /\ loop[l].cur \in GoldenPath
  /\ At(l, "goldenSlot")
  /\ UNCHANGED <<aside, telegram, memory, handled>>

\* Only with a slot is the update received.
StartCapture(l) ==
  LET u == loop[l].cur
  IN  /\ loop[l].at = "goldenSlot" /\ Busy < Ceiling
      /\ IF Ignores(l, u) THEN Ignore(l, u) ELSE At(l, "capture") /\ Record /\ UNCHANGED excused
      /\ UNCHANGED <<aside, telegram, captured, turns, dispatched, taken, lost>>

Capture(l) ==
  /\ loop[l].at = "capture"
  /\ captured' = captured \cup {loop[l].cur}
  /\ At(l, "captured")
  /\ UNCHANGED <<aside, telegram, memory, turns, dispatched, excused, taken, lost>>

\* markUpdateProcessed.
Acknowledge(l) ==
  /\ loop[l].at = "captured"
  /\ Remember(loop[l].cur)
  /\ Past(l)
  /\ UNCHANGED <<aside, telegram, handled>>

\* The end of a batch shows a live consumer again before the condition is read.
EndBatch(l) ==
  /\ loop[l].at = "batch"
  /\ loop[l].aborted \/ loop[l].cur > loop[l].last
  /\ Continues(l, [loop[l] EXCEPT !.health = "live"])
  /\ UNCHANGED <<aside, telegram, memory, handled>>

\* The 50 ms after an empty batch, and the backoff.
Wake(l) ==
  /\ loop[l].at \in {"pause", "backoff"}
  /\ Continues(l, loop[l])
  /\ UNCHANGED <<aside, telegram, memory, handled>>

\* Mutants of Failed: the update that failed is passed over; the loop gives up.
FailedPast(state) ==
  IF state.aborted THEN Ended
  ELSE Between([state EXCEPT !.health = "live", !.offset = state.cur + 1], "backoff")
FailedForGood(state) == Ended

\* The catch of a loop: nothing moves the offset.
Failed(state) ==
  IF state.aborted THEN Ended ELSE Between([state EXCEPT !.health = "live"], "backoff")

Fails(l) == loop' = [loop EXCEPT ![l] = Failed(loop[l])]

\* Nothing was remembered: a request or a read failed, the capture, or the first write
\* of receiveUpdate, of a receipt or of the chat's conversation.
Fail(l) ==
  /\ \/ loop[l].at \in {"poll", "asked", "context", "capture", "captured"}
     \/ Takes(l) /\ loop[l].cur \notin GoldenPath
     \/ loop[l].at = "goldenSlot" /\ Busy < Ceiling
  /\ Mishap("failure")
  /\ Fails(l)
  /\ UNCHANGED <<up, setting, telegram, memory, handled, current, lapse, push, route, reset,
                 changes>>

\* The update is asked for again, and is then a duplicate.
ReceiveFails(l) ==
  LET u == loop[l].cur
  IN  /\ Takes(l) /\ u \notin GoldenPath /\ ~Ignores(l, u)
      /\ Mishap("unwritten")
      /\ ReceiveUnwritten(u)
      /\ Fails(l)
      /\ UNCHANGED <<up, setting, telegram, captured, turns, dispatched, excused, taken, current,
                     lapse, push, route, reset, changes>>

\* The capture is written, its mark is not.
AcknowledgeFails(l) ==
  /\ loop[l].at = "captured" /\ ~Known(loop[l].cur)
  /\ Mishap("unwritten")
  /\ Memorize(loop[l].cur) /\ UNCHANGED stored
  /\ Fails(l)
  /\ UNCHANGED <<up, setting, telegram, handled, current, lapse, push, route, reset, changes>>

\* A detached bridge, with the turn it runs, has settled.
TurnEnds ==
  /\ turns > 0 /\ turns' = turns - 1
  /\ UNCHANGED <<up, setting, telegram, memory, captured, dispatched, excused, taken, lost,
                 supervisor, push, route, reset, bounds>>

-----------------------------------------------------------------------------
(* The supervisor *)

\* The signal ends the long poll and the backoff at once, and no other await.
Aborted(state) == IF state.at \in {"none", "poll", "asked", "backoff"} THEN Ended
                  ELSE [state EXCEPT !.aborted = TRUE]

Free == {l \in Loops : loop[l].at = "none" /\ l # current}

\* Mutant of StartPolling: the loop that is replaced is not aborted.
StartPollingBeside(token) ==
  /\ Free # {}
  /\ current' = CHOOSE l \in Free : TRUE
  /\ loop' = [loop EXCEPT ![current'] = Fresh(token)]

StartPolling(token) ==
  /\ Free # {}
  /\ current' = CHOOSE l \in Free : TRUE
  /\ loop' = [l \in Loops |->
                IF l = current' THEN Fresh(token)
                ELSE IF l = current /\ loop[l].health # "stopped"
                THEN Aborted(loop[l]) ELSE loop[l]]

Stopped(state) == [Aborted(state) EXCEPT !.health = "stopped"]
StopPolling == loop' = [l \in Loops |-> IF l = current THEN Stopped(loop[l]) ELSE loop[l]]

Shown == IF current = NoLoop THEN "stopped" ELSE loop[current].health

\* Mutant of Starts: a new token does not replace the consumer.
StartsIfStopped == Shown = "stopped"

\* The test that decides whether a consumer is started reads the health shown.
Starts == Shown = "stopped" \/ loop[current].token # setting

\* reconcilePolling with the bindings as they are.
ReconcilePolling ==
  IF setting \in Unpolled THEN StopPolling /\ UNCHANGED current /\ lapse' = {}
  ELSE IF Starts THEN StartPolling(setting) /\ lapse' = {}
  ELSE /\ UNCHANGED <<loop, current>>
       /\ lapse' = IF loop[current].aborted THEN {"window"} ELSE {}

-----------------------------------------------------------------------------
(* The routes *)

\* A request, or the detached end of one, is in progress.
Opens(request) ==
  /\ \E r \in Routes : route[r] = Idle
  /\ route' = [route EXCEPT ![CHOOSE r \in Routes : route[r] = Idle] = request]
Reconciling == [at |-> "reconcile", token |-> Inactive]

\* A binding is saved; its reconciliation is detached and first talks to Telegram.
Configure ==
  /\ up /\ ~reset
  /\ changes < MaxChanges /\ changes' = changes + 1
  /\ setting' \in (Tokens \cup Unpolled) \ {setting}
  /\ Opens(Reconciling)
  /\ UNCHANGED <<up, telegram, memory, handled, supervisor, push, reset, mishaps>>

Reconcile(r) ==
  /\ route[r].at = "reconcile"
  /\ ReconcilePolling
  /\ route' = [route EXCEPT ![r] = Idle]
  /\ UNCHANGED <<up, setting, telegram, memory, handled, push, reset, bounds>>

\* The reconnect route reads the binding, stops its consumer, waits a second and
\* starts one with what it read.
AskReconnect ==
  /\ up /\ ~reset
  /\ changes < MaxChanges /\ changes' = changes + 1
  /\ setting \in Tokens
  /\ Opens([at |-> "reconnect", token |-> setting])
  /\ UNCHANGED <<up, setting, telegram, memory, handled, supervisor, push, reset, mishaps>>

Reconnect(r) ==
  /\ route[r].at = "reconnect"
  /\ StopPolling
  /\ route' = [route EXCEPT ![r].at = "sleep"]
  /\ UNCHANGED <<up, setting, telegram, memory, handled, current, lapse, push, reset, bounds>>

StartAgain(r) ==
  /\ route[r].at = "sleep"
  /\ StartPolling(route[r].token)
  /\ lapse' = IF route[r].token # setting THEN {"stale"} ELSE {}
  /\ route' = [route EXCEPT ![r] = Idle]
  /\ UNCHANGED <<up, setting, telegram, memory, handled, push, reset, bounds>>

\* A data reset is refused while requests are in progress, and refuses new ones.
BeginReset ==
  /\ up /\ ~reset /\ push = NoPush
  /\ \A r \in Routes : route[r].at \in {"idle", "reconcile"}
  /\ changes < MaxChanges /\ changes' = changes + 1
  /\ reset' = TRUE
  /\ StopPolling
  /\ UNCHANGED <<up, setting, telegram, memory, handled, current, lapse, push, route, mishaps>>

\* drain waits for the loops when every consumer is aborted, and for the bridges.
\* The reset may still be refused; a wipe takes the binding with the rest.
Reset ==
  /\ reset /\ Busy = 0
  /\ (current # NoLoop /\ Live(current)) \/ \A l \in Loops : loop[l].at = "none"
  /\ reset' = FALSE
  /\ Opens(Reconciling)
  /\ \/ UNCHANGED <<setting, memory, captured, excused, current, loop>>
     \/ /\ setting' = Inactive
        /\ processed' = <<>> /\ stored' = <<>>
        /\ forgets' = [u \in Updates |-> IF Known(u) THEN forgets[u] + 1 ELSE forgets[u]]
        /\ excused' = excused \cup captured
        /\ captured' = {}
        /\ StopPolling
        /\ current' = NoLoop
  /\ UNCHANGED <<up, telegram, turns, dispatched, taken, lost, lapse, push, bounds>>

-----------------------------------------------------------------------------
(* The webhook: handleTelegramWebhook *)

\* Saturated, the update is refused before it is received.
Pushes == /\ up /\ ~reset /\ setting = Webhook /\ push = NoPush
          /\ confirmed < arrived /\ Busy < Ceiling

Push ==
  LET u == confirmed + 1
  IN  /\ Pushes
      /\ \/ /\ Known(u)
            /\ Record
            /\ confirmed' = u
            /\ UNCHANGED <<turns, dispatched, push>>
         \/ /\ ~Known(u) /\ u \in GoldenPath
            /\ Record
            /\ push' = [at |-> "capture", update |-> u]
            /\ UNCHANGED <<confirmed, turns, dispatched>>
         \/ /\ ~Known(u) /\ u \notin GoldenPath
            /\ Receive(u)
            /\ turns' = turns + 1
            /\ dispatched' = [dispatched EXCEPT ![u] = @ + 1]
            /\ confirmed' = u
            /\ UNCHANGED push
      /\ UNCHANGED <<up, setting, arrived, captured, excused, taken, lost, supervisor, route, reset,
                     bounds>>

PushCaptured ==
  /\ push.at = "capture"
  /\ captured' = captured \cup {push.update}
  /\ push' = [push EXCEPT !.at = "captured"]
  /\ UNCHANGED <<up, setting, telegram, memory, turns, dispatched, excused, taken, lost,
                 supervisor, route, reset, bounds>>

PushAnswered ==
  /\ push.at = "captured"
  /\ Remember(push.update)
  /\ confirmed' = IF push.update > confirmed THEN push.update ELSE confirmed
  /\ push' = NoPush
  /\ UNCHANGED <<up, setting, arrived, handled, supervisor, route, reset, bounds>>

\* The capture throws: 500, and Telegram sends the update again.
PushFails ==
  /\ push.at \in {"capture", "captured"}
  /\ Mishap("failure")
  /\ push' = NoPush
  /\ UNCHANGED <<up, setting, telegram, memory, handled, supervisor, route, reset, changes>>

\* So does the write of a mark: Telegram sends again what is a duplicate by then.
PushUnwritten ==
  LET u == confirmed + 1
  IN  /\ \/ /\ Pushes /\ ~Known(u) /\ u \notin GoldenPath
            /\ ReceiveUnwritten(u)
            /\ UNCHANGED push
         \/ /\ push.at = "captured" /\ ~Known(push.update)
            /\ Memorize(push.update) /\ UNCHANGED <<stored, lost>>
            /\ push' = NoPush
      /\ Mishap("unwritten")
      /\ UNCHANGED <<up, setting, telegram, captured, turns, dispatched, excused, taken, supervisor,
                     route, reset, changes>>

-----------------------------------------------------------------------------
(* The environment *)

Arrive ==
  /\ arrived < LastUpdate /\ arrived' = arrived + 1
  /\ UNCHANGED <<up, setting, confirmed, memory, handled, supervisor, push, route, reset, bounds>>

\* An update of another bot, under a number this bot may use too.
OtherBot(id) ==
  /\ up /\ Mishap("otherBot")
  /\ ~Known(id)
  /\ Remember(id)
  /\ taken' = taken \cup ({id} \cap Updates)
  /\ UNCHANGED <<up, setting, telegram, captured, turns, dispatched, excused, lost, supervisor,
                 push, route, reset, changes>>

\* A delivery, or a chat of another bot, writes the file.
WriteRelay ==
  /\ up /\ stored # processed
  /\ Record
  /\ UNCHANGED <<up, setting, telegram, handled, supervisor, push, route, reset, bounds>>

\* An ordinary update that waited for its slot, remembered already, is gone.  What the
\* file holds is the memory of the next start.
Crash ==
  /\ up /\ Mishap("death")
  /\ up' = FALSE
  /\ processed' = stored
  /\ lost' = lost \cup {loop[l].cur : l \in {m \in Loops : loop[m].at = "chatSlot"}}
  /\ loop' = [l \in Loops |-> Ended]
  /\ current' = NoLoop
  /\ turns' = 0 /\ push' = NoPush /\ reset' = FALSE /\ lapse' = {}
  /\ route' = [r \in Routes |-> Idle]
  /\ UNCHANGED <<setting, telegram, stored, forgets, captured, dispatched, excused, taken, changes>>

\* The startup reconciles like a route does.
Restart ==
  /\ ~up /\ up' = TRUE
  /\ Opens(Reconciling)
  /\ UNCHANGED <<setting, telegram, memory, handled, supervisor, push, reset, bounds>>

-----------------------------------------------------------------------------
Init ==
  /\ up = FALSE
  /\ setting \in Initial
  /\ arrived = 0 /\ confirmed = 0
  /\ processed = <<>> /\ stored = <<>> /\ forgets = [u \in Updates |-> 0]
  /\ captured = {} /\ turns = 0 /\ dispatched = [u \in Updates |-> 0]
  /\ excused = {} /\ taken = {} /\ lost = {}
  /\ loop = [l \in Loops |-> Ended] /\ current = NoLoop /\ lapse = {}
  /\ push = NoPush /\ route = [r \in Routes |-> Idle] /\ reset = FALSE
  /\ changes = 0 /\ mishaps = 0

LoopStep(l) ==
  \/ Ask(l) \/ Answer(l) \/ Context(l) \/ NextChat(l) \/ Dispatch(l)
  \/ NextGoldenPath(l) \/ StartCapture(l) \/ Capture(l) \/ Acknowledge(l)
  \/ EndBatch(l) \/ Wake(l)

LoopFailure(l) == Fail(l) \/ ReceiveFails(l) \/ AcknowledgeFails(l)

RouteStep(r) == Reconcile(r) \/ Reconnect(r) \/ StartAgain(r)

WebhookStep == Push \/ PushCaptured \/ PushAnswered

Next ==
  \/ \E l \in Loops : LoopStep(l) \/ LoopFailure(l)
  \/ \E r \in Routes : RouteStep(r)
  \/ Configure \/ AskReconnect
  \/ WebhookStep \/ PushFails \/ PushUnwritten
  \/ TurnEnds \/ BeginReset \/ Reset
  \/ Arrive \/ (\E id \in 1..(LastUpdate + 1) : OtherBot(id)) \/ WriteRelay
  \/ Crash \/ Restart

Spec == Init /\ [][Next]_vars

\* Node settles every await, a turn ends and Telegram answers its long polls.
Fairness ==
  /\ \A l \in Loops : WF_vars(LoopStep(l))
  /\ \A r \in Routes : WF_vars(RouteStep(r))
  /\ WF_vars(TurnEnds) /\ WF_vars(PushCaptured \/ PushAnswered)
  /\ WF_vars(Reset) /\ WF_vars(Restart)

FairSpec == Spec /\ Fairness

-----------------------------------------------------------------------------
LoopState == [at : Place, aborted : BOOLEAN, health : {"live", "stopped"},
              token : Tokens \cup {Inactive}, bound : BOOLEAN,
              offset : 0..(LastUpdate + 1), cur : 0..(LastUpdate + 1), last : 0..LastUpdate]

TypeOK ==
  /\ up \in BOOLEAN /\ setting \in Tokens \cup Unpolled /\ reset \in BOOLEAN
  /\ arrived \in 0..LastUpdate /\ confirmed \in 0..arrived
  /\ processed \in Seq(1..(LastUpdate + 1)) /\ Len(processed) <= Kept
  /\ stored \in Seq(1..(LastUpdate + 1)) /\ Len(stored) <= Kept
  /\ forgets \in [Updates -> Nat] /\ dispatched \in [Updates -> Nat]
  /\ captured \subseteq GoldenPath /\ turns \in Nat
  /\ excused \subseteq Updates /\ taken \subseteq Updates /\ lost \subseteq Updates
  /\ loop \in [Loops -> LoopState] /\ current \in Loops \cup {NoLoop}
  /\ push \in [at : {"idle", "capture", "captured"}, update : 0..LastUpdate]
  /\ route \in [Routes -> [at : {"idle", "reconcile", "reconnect", "sleep"},
                           token : Tokens \cup {Inactive}]]
  /\ lapse \subseteq {"window", "stale"}
  /\ changes \in 0..MaxChanges /\ mishaps \in 0..MaxMishaps

\* An update is captured if it is of the golden path; otherwise its bridge runs, or ran,
\* or a loop waits for a slot with it.
Carried(u) ==
  IF u \in GoldenPath THEN u \in captured
  ELSE dispatched[u] > 0 \/ \E l \in Loops : loop[l].at = "chatSlot" /\ loop[l].cur = u

\* What Telegram will not send again is carried, unless it came while the binding was
\* inactive, a data reset wiped it, or it was lost in one of three ways: the process
\* died while the update, remembered, waited for a slot; the write of its mark or of its
\* receipt failed; another bot used its number (relay/ingress.ts:106, 190, 194).  A
\* golden-path update is lost in the last way only.
AcknowledgedIsHandled ==
  /\ \A u \in 1..confirmed : Carried(u) \/ u \in excused \cup taken \cup lost
  /\ lost \cap GoldenPath = {}

\* What Telegram will not send again is carried, unless it came while the binding was
\* inactive or a data reset wiped it: an update is not consumed before there is capacity
\* for it, an error leaves it to be sent again, and each bot is an inbox of its own
\* (ingressDispatch.ts:16-20, docs/api.md:1580-1582, SPEC-017:13).
NoUpdateIsLost == \A u \in 1..confirmed : Carried(u) \/ u \in excused

\* No ordinary update is dispatched twice, by overlapping loops, by the webhook
\* after a loop or after a restart, unless the memory lost it: to the updates of
\* other bots, or to a data reset (relay/ingress.ts:106).
DispatchedOnce ==
  \A u \in Updates \ GoldenPath : dispatched[u] <= 1 + forgets[u]

\* Loops overlap only while all but the registered one are aborted.
OneConsumer == \A l \in Loops : Live(l) => l = current

\* At rest the binding is polled with its token, or by nothing: unless a reconcile
\* took an aborted consumer for a live one in the 50 ms after an empty batch, or a
\* reconnect started what it had read a second before (polling.ts:466-470, 482-495).
PolledAsConfigured ==
  up /\ ~reset /\ lapse = {} /\ (\A r \in Routes : route[r] = Idle) =>
    IF setting \in Unpolled THEN \A l \in Loops : ~Live(l)
    ELSE current # NoLoop /\ Live(current) /\ loop[current].token = setting

\* A golden-path update is captured in the end, across failures and restarts, while
\* polling is configured and none of the exceptions above applies.
GoldenPathUpdateArrives ==
  \A u \in GoldenPath :
    u <= arrived ~> u \in captured \cup excused \cup taken \/ setting \in Unpolled \/ lapse # {}
=============================================================================
