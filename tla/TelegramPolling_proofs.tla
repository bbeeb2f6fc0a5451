----------------------- MODULE TelegramPolling_proofs -----------------------
(***************************************************************************)
(* TelegramPolling for every number of updates, loops, requests, tokens,   *)
(* and of the mishaps between them.                                        *)
(***************************************************************************)
EXTENDS TelegramPolling, SequenceTheorems, FiniteSetTheorems, TLAPS

-----------------------------------------------------------------------------
(***************************************************************************)
(* The inductive invariant.                                                *)
(***************************************************************************)

\* The numbers a loop or a push works with are updates that exist.
Holding == {"goldenSlot", "capture", "captured", "chatSlot"}
Bounded(state, last) ==
  /\ state.offset <= last + 1 /\ state.cur <= last + 1 /\ state.last <= last
  /\ state.at \in Holding \cup {"batch", "context"} => state.cur > 0
  /\ state.at \in Holding => state.cur <= state.last
  /\ state.at \in Holding => (state.cur \in GoldenPath <=> state.at # "chatSlot")
NumbersInv ==
  /\ \A l \in Loops : Bounded(loop[l], arrived)
  /\ push.at # "idle" => push.update > 0 /\ push.update <= arrived /\ push.update \in GoldenPath

\* The registered consumer is the only live loop, and shows so.
ConsumerInv ==
  /\ OneConsumer
  /\ \A l \in Loops : Live(l) => loop[l].health = "live"
  /\ \A l \in Loops : loop[l].at = "none" => loop[l].health = "stopped"
  /\ \A r \in Routes : route[r].at \in {"reconnect", "sleep"} => route[r].token \in Tokens
  /\ PolledAsConfigured

\* An update the server is done with, or holds.
Held(u) == \E l \in Loops : loop[l].at = "chatSlot" /\ loop[l].cur = u
Handled(u) ==
  \/ u \in excused \cup taken \cup lost
  \/ IF u \in GoldenPath THEN u \in captured ELSE dispatched[u] > 0 \/ Held(u)

\* Whatever is remembered, in the list or in the file, confirmed, or behind a loop or a
\* push has been handled.
Stored(u) == u \in Range(stored)
Recalled(u) == Known(u) \/ Stored(u)
Behind(l) ==
  /\ \A u \in Updates : u < loop[l].offset \/ (loop[l].at # "none" /\ u < loop[l].cur) => Handled(u)
  /\ loop[l].at = "captured" => Handled(loop[l].cur)
HandledInv ==
  /\ \A u \in Updates : Recalled(u) \/ u <= confirmed => Handled(u)
  /\ \A l \in Loops : Behind(l)
  /\ push.at # "idle" => \A u \in Updates : u < push.update => Handled(u)
  /\ push.at = "captured" => Handled(push.update)

\* No update of the golden path is dropped before its dispatch.
LostInv == lost \cap GoldenPath = {}

\* Every dispatch, and every update that waits for one, was remembered once more
\* than it was forgotten; a number whose write failed counts for none.
Waiting(u) == {l \in Loops : loop[l].at = "chatSlot" /\ loop[l].cur = u}
Remembered(u) == forgets[u] + (IF Known(u) /\ Stored(u) THEN 1 ELSE 0)
OnceInv ==
  \A u \in Updates \ GoldenPath : dispatched[u] + Cardinality(Waiting(u)) <= Remembered(u)

IInv == TypeOK /\ NumbersInv /\ ConsumerInv /\ HandledInv /\ LostInv /\ OnceInv

-----------------------------------------------------------------------------
(***************************************************************************)
(* The memory and the records of the loops.                                *)
(***************************************************************************)

Numbers == 1..(LastUpdate + 1)

\* Where a number stands in the memory after it was appended and, when there are too
\* many, the oldest was dropped.
LEMMA AppendedAt ==
  ASSUME NEW s \in Seq(Numbers), NEW u \in Numbers
  PROVE  /\ Append(s, u) \in Seq(Numbers) /\ Len(Append(s, u)) = Len(s) + 1
         /\ \A i \in 1..(Len(s) + 1) : Append(s, u)[i] = IF i = Len(s) + 1 THEN u ELSE s[i]
         /\ Tail(Append(s, u)) \in Seq(Numbers) /\ Len(Tail(Append(s, u))) = Len(s)
         /\ \A i \in 1..Len(s) : Tail(Append(s, u))[i] = Append(s, u)[i + 1]
<1>1. /\ Append(s, u) \in Seq(Numbers) /\ Len(Append(s, u)) = Len(s) + 1
      /\ \A i \in 1..(Len(s) + 1) : Append(s, u)[i] = IF i = Len(s) + 1 THEN u ELSE s[i]
  BY AppendProperties
<1>2. Append(s, u) # << >>
  BY <1>1
<1> DEFINE longer == Append(s, u)
<1>3. Tail(longer) \in Seq(Numbers) /\ Len(Tail(longer)) = Len(longer) - 1
  BY <1>1, <1>2, HeadTailProperties
<1>4. \A i \in 1..Len(s) : Tail(longer)[i] = longer[i + 1]
  BY <1>1, <1>2, HeadTailProperties
<1> QED
  BY <1>1, <1>3, <1>4

\* What a step may do to the memory: write the file, or add a number as well.
MemoryOK ==
  /\ processed \in Seq(Numbers) /\ Len(processed) <= Kept
  /\ stored \in Seq(Numbers) /\ Len(stored) <= Kept
  /\ forgets \in [Updates -> Nat]
Keeps == UNCHANGED memory \/ Record
Adds(u) == Remember(u) \/ (Memorize(u) /\ (UNCHANGED stored \/ Persist))

\* The list holds what it held and the number added, but for one that it counts as
\* forgotten.
LEMMA Memorized ==
  ASSUME TypeOK, NEW u \in Numbers, Memorize(u)
  PROVE  /\ processed' \in Seq(Numbers) /\ Len(processed') <= Kept
         /\ forgets' \in [Updates -> Nat]
         /\ \A v \in Range(processed') : Known(v) \/ v = u
         /\ \A v \in Updates :
              \/ forgets'[v] = forgets[v] + 1
              \/ forgets'[v] = forgets[v] /\ (Known(v) \/ v = u => Known(v)')
<1> DEFINE longer == Append(processed, u)
           full == Len(longer) > Kept
<1>0. /\ processed \in Seq(Numbers) /\ Len(processed) <= Kept /\ Len(processed) \in Nat
      /\ forgets \in [Updates -> Nat] /\ Kept \in Nat
  BY PollingAssumption DEF TypeOK, Numbers
<1>1. /\ processed' = IF full THEN Tail(longer) ELSE longer
      /\ forgets' = [v \in Updates |-> IF full /\ v = longer[1] THEN forgets[v] + 1
                                       ELSE forgets[v]]
  BY DEF Memorize
<1>2. forgets' \in [Updates -> Nat]
  BY <1>0, <1>1
<1>3. processed' \in Seq(Numbers) /\ Len(processed') <= Kept
  BY <1>0, <1>1, AppendedAt
<1>4. ASSUME NEW v \in Range(processed')
      PROVE  Known(v) \/ v = u
  <2>1. PICK i \in 1..Len(processed') : processed'[i] = v
    BY <1>3 DEF Range
  <2>2. \E j \in 1..(Len(processed) + 1) : longer[j] = v
    BY <1>0, <1>1, <2>1, AppendedAt
  <2>3. PICK j \in 1..(Len(processed) + 1) : longer[j] = v
    BY <2>2
  <2>4. v = IF j = Len(processed) + 1 THEN u ELSE processed[j]
    BY <1>0, <2>3, AppendedAt
  <2> QED
    BY <1>0, <2>4 DEF Known, Range
<1>5. ASSUME NEW v \in Updates
      PROVE  \/ forgets'[v] = forgets[v] + 1
             \/ forgets'[v] = forgets[v] /\ (Known(v) \/ v = u => Known(v)')
  <2>1. Known(v) \/ v = u => \E i \in 1..(Len(processed) + 1) : longer[i] = v
    <3>1. CASE v = u
      <4>1. Len(processed) + 1 \in 1..(Len(processed) + 1)
        BY <1>0
      <4>2. longer[Len(processed) + 1] = u
        BY <1>0, <4>1, AppendedAt
      <4> QED
        BY <3>1, <4>1, <4>2
    <3>2. CASE Known(v)
      <4>1. PICK i \in 1..Len(processed) : processed[i] = v
        BY <1>0, <3>2 DEF Known, Range
      <4>2. i \in 1..(Len(processed) + 1) /\ i # Len(processed) + 1
        BY <1>0, <4>1
      <4>3. longer[i] = v
        BY <1>0, <4>1, <4>2, AppendedAt
      <4> QED
        BY <4>2, <4>3
    <3> QED
      BY <3>1, <3>2
  <2>2. CASE full /\ v = longer[1]
    BY <1>0, <1>1, <2>2
  <2>3. CASE ~(full /\ v = longer[1])
    <3>1. forgets'[v] = forgets[v]
      BY <1>0, <1>1, <2>3
    <3>2. ASSUME NEW i \in 1..(Len(processed) + 1), longer[i] = v
          PROVE  \E k \in 1..Len(processed') : processed'[k] = v
      <4>1. CASE full
        <5>1. i # 1
          BY <2>3, <3>2, <4>1
        <5>2. i - 1 \in 1..Len(processed) /\ (i - 1) + 1 = i
          BY <1>0, <3>2, <5>1
        <5>3. processed' = Tail(longer) /\ Len(processed') = Len(processed)
          BY <1>0, <1>1, <4>1, AppendedAt
        <5>4. processed'[i - 1] = longer[i]
          BY <1>0, <5>2, <5>3, AppendedAt
        <5> QED
          BY <3>2, <5>2, <5>3, <5>4
      <4>2. CASE ~full
        <5>1. processed' = longer /\ Len(processed') = Len(processed) + 1
          BY <1>0, <1>1, <4>2, AppendedAt
        <5> QED
          BY <3>2, <5>1
      <4> QED
        BY <4>1, <4>2
    <3>3. DOMAIN processed' = 1..Len(processed')
      BY <1>3
    <3>4. Known(v) \/ v = u => Known(v)'
      BY <2>1, <3>2, <3>3 DEF Known, Range
    <3> QED
      BY <3>1, <3>4
  <2> QED
    BY <2>2, <2>3
<1> QED
  BY <1>2, <1>3, <1>4, <1>5

\* A step that only writes the file recalls nothing new and keeps every count.
LEMMA MemoryKept ==
  ASSUME TypeOK, Keeps
  PROVE  /\ MemoryOK'
         /\ \A v \in Updates : Recalled(v)' => Recalled(v)
         /\ \A v \in Updates : Remembered(v) <= Remembered(v)'
<1>0. MemoryOK /\ \A v \in Updates : forgets[v] \in Nat
  BY DEF TypeOK, MemoryOK, Numbers
<1>1. UNCHANGED <<processed, forgets>> /\ (UNCHANGED stored \/ stored' = processed)
  BY DEF Keeps, memory, Record, Persist
<1>2. MemoryOK'
  BY <1>0, <1>1 DEF MemoryOK
<1>3. \A v \in Updates : /\ Known(v)' = Known(v)
                         /\ Stored(v)' => Recalled(v)
                         /\ Known(v) /\ Stored(v) => Stored(v)'
  BY <1>1 DEF Known, Stored, Recalled
<1>4. ASSUME NEW v \in Updates
      PROVE  Remembered(v) <= Remembered(v)'
  <2>1. forgets'[v] = forgets[v] /\ forgets[v] \in Nat
    BY <1>0, <1>1
  <2> QED
    BY <1>3, <2>1 DEF Remembered
<1> QED
  BY <1>2, <1>3, <1>4 DEF Recalled

\* A step that adds a number recalls nothing else and keeps every count, and counts up
\* a number that is new and written.
LEMMA MemoryAdds ==
  ASSUME TypeOK, NEW u \in Numbers, Adds(u)
  PROVE  /\ MemoryOK'
         /\ \A v \in Updates : Recalled(v)' => Recalled(v) \/ v = u
         /\ \A v \in Updates : Remembered(v) <= Remembered(v)'
         /\ \A v \in Updates : v = u /\ ~Known(u) /\ Persist => Remembered(v) + 1 <= Remembered(v)'
<1>0. MemoryOK /\ \A v \in Updates : forgets[v] \in Nat
  BY DEF TypeOK, MemoryOK, Numbers
<1>1. CASE UNCHANGED memory /\ Known(u)
  BY <1>1, MemoryKept DEF Keeps
<1>2. CASE Memorize(u) /\ (UNCHANGED stored \/ Persist)
  <2>1. /\ processed' \in Seq(Numbers) /\ Len(processed') <= Kept
        /\ forgets' \in [Updates -> Nat]
        /\ \A v \in Range(processed') : Known(v) \/ v = u
        /\ \A v \in Updates :
             \/ forgets'[v] = forgets[v] + 1
             \/ forgets'[v] = forgets[v] /\ (Known(v) \/ v = u => Known(v)')
    BY <1>2, Memorized
  <2>2. stored' = stored \/ stored' = processed'
    BY <1>2 DEF Persist
  <2>3. MemoryOK'
    BY <1>0, <2>1, <2>2 DEF MemoryOK
  <2>4. \A v \in Updates : Recalled(v)' => Recalled(v) \/ v = u
    BY <2>1, <2>2 DEF Recalled, Known, Stored
  <2>5. \A v \in Updates : Known(v)' /\ Stored(v) => Stored(v)'
    BY <2>2 DEF Known, Stored
  <2>6. ASSUME NEW v \in Updates
        PROVE  Remembered(v) <= Remembered(v)'
    <3>1. CASE forgets'[v] = forgets[v] + 1
      BY <1>0, <3>1 DEF Remembered
    <3>2. CASE forgets'[v] = forgets[v] /\ (Known(v) \/ v = u => Known(v)')
      <4>1. Known(v) /\ Stored(v) => Known(v)' /\ Stored(v)'
        BY <2>5, <3>2
      <4> QED
        BY <1>0, <3>2, <4>1 DEF Remembered
    <3> QED
      BY <2>1, <3>1, <3>2
  <2>7. ASSUME NEW v \in Updates, v = u, ~Known(u), Persist
        PROVE  Remembered(v) + 1 <= Remembered(v)'
    <3>0. Remembered(v) = forgets[v] /\ forgets[v] \in Nat
      BY <1>0, <2>7 DEF Remembered
    <3>1. CASE forgets'[v] = forgets[v] + 1
      BY <3>0, <3>1 DEF Remembered
    <3>2. CASE forgets'[v] = forgets[v] /\ Known(v)'
      <4>1. Stored(v)'
        BY <2>7, <3>2 DEF Persist, Stored, Known
      <4> QED
        BY <3>0, <3>2, <4>1 DEF Remembered
    <3> QED
      BY <2>1, <2>7, <3>1, <3>2
  <2> QED
    BY <2>3, <2>4, <2>6, <2>7
<1> QED
  BY <1>1, <1>2 DEF Adds, Remember

\* The records a loop is set to are states of a loop.
LEMMA StateType ==
  /\ Ended \in LoopState
  /\ \A token \in Tokens : Fresh(token) \in LoopState
  /\ \A state \in LoopState, place \in Place : Between(state, place) \in LoopState
<1>1. /\ 0 \in 0..(LastUpdate + 1) /\ 0 \in 0..LastUpdate
      /\ "none" \in Place /\ "poll" \in Place
  BY PollingAssumption DEF Place
<1>2. Ended \in LoopState
  BY <1>1 DEF Ended, Fresh, LoopState
<1>3. ASSUME NEW token \in Tokens
      PROVE  Fresh(token) \in LoopState
  BY <1>1 DEF Fresh, LoopState
<1>4. ASSUME NEW state \in LoopState, NEW place \in Place
      PROVE  Between(state, place) \in LoopState
  BY <1>1 DEF Between, LoopState
<1> QED
  BY <1>2, <1>3, <1>4

\* A loop that moves to another place, or past an update, keeps its type.
LEMMA MoveType ==
  ASSUME loop \in [Loops -> LoopState], NEW l \in Loops
  PROVE  /\ \A place \in Place : At(l, place) => loop' \in [Loops -> LoopState]
         /\ loop[l].cur <= loop[l].last /\ Past(l) => loop' \in [Loops -> LoopState]
         /\ \A state \in LoopState :
              /\ loop' = [loop EXCEPT ![l] = state] => loop' \in [Loops -> LoopState]
              /\ Continues(l, state) => loop' \in [Loops -> LoopState]
<1>1. ASSUME NEW place \in Place, At(l, place)
      PROVE  loop' \in [Loops -> LoopState]
  BY <1>1 DEF At, LoopState
<1>2. ASSUME loop[l].cur <= loop[l].last, Past(l)
      PROVE  loop' \in [Loops -> LoopState]
  <2>1. loop[l].cur \in 0..(LastUpdate + 1) /\ loop[l].last \in 0..LastUpdate
    BY DEF LoopState
  <2>2. loop[l].cur + 1 \in 0..(LastUpdate + 1)
    BY <1>2, <2>1, PollingAssumption
  <2> QED
    BY <1>2, <2>2 DEF Past, LoopState, Place
<1>3. ASSUME NEW state \in LoopState, loop' = [loop EXCEPT ![l] = state]
      PROVE  loop' \in [Loops -> LoopState]
  BY <1>3
<1>4. ASSUME NEW state \in LoopState, Continues(l, state)
      PROVE  loop' \in [Loops -> LoopState]
  <2>1. Between(state, "poll") \in LoopState /\ Ended \in LoopState
    BY StateType DEF Place
  <2> QED
    BY <1>4, <2>1 DEF Continues
<1> QED
  BY <1>1, <1>2, <1>3, <1>4

\* A loop that is aborted or stopped is in a state of a loop.
LEMMA AbortedType ==
  ASSUME NEW state \in LoopState
  PROVE  Aborted(state) \in LoopState /\ Stopped(state) \in LoopState
<1>1. Aborted(state) \in LoopState
  <2>1. [state EXCEPT !.aborted = TRUE] \in LoopState
    BY DEF LoopState
  <2> QED
    BY <2>1, StateType DEF Aborted
<1> QED
  BY <1>1 DEF Stopped, LoopState

\* What the supervisor does to the loops keeps their type.
LEMMA SupervisorType ==
  ASSUME loop \in [Loops -> LoopState]
  PROVE  /\ StopPolling => loop' \in [Loops -> LoopState]
         /\ \A token \in Tokens : StartPolling(token) =>
              loop' \in [Loops -> LoopState] /\ current' \in Free
<1>1. ASSUME StopPolling
      PROVE  loop' \in [Loops -> LoopState]
  BY <1>1, AbortedType DEF StopPolling
<1>2. ASSUME NEW token \in Tokens, StartPolling(token)
      PROVE  loop' \in [Loops -> LoopState] /\ current' \in Free
  BY <1>2, AbortedType, StateType DEF StartPolling
<1> QED
  BY <1>1, <1>2

RouteState == [at : {"idle", "reconcile", "reconnect", "sleep"}, token : Tokens \cup {Inactive}]

\* A detached reconciliation is a request like the others.
LEMMA ReconcilingType == Reconciling \in RouteState
  BY DEF Reconciling, RouteState

\* A request that opens is a request.
LEMMA OpensType ==
  ASSUME NEW S, route \in [Routes -> S], NEW request \in S, Opens(request)
  PROVE  route' \in [Routes -> S]
  BY DEF Opens

-----------------------------------------------------------------------------
(***************************************************************************)
(* Every step preserves each part of the invariant.                        *)
(***************************************************************************)

\* A step of one loop keeps the types.
LEMMA TypeOfLoopStep ==
  ASSUME TypeOK, NumbersInv, NEW l \in Loops, LoopStep(l) \/ LoopFailure(l)
  PROVE  TypeOK'
<1>0. /\ loop \in [Loops -> LoopState] /\ loop[l] \in LoopState
      /\ LastUpdate \in Nat /\ arrived \in 0..LastUpdate /\ confirmed \in 0..arrived
      /\ loop[l].cur \in 0..(LastUpdate + 1) /\ loop[l].last \in 0..LastUpdate
      /\ loop[l].offset <= arrived + 1 /\ loop[l].offset \in 0..(LastUpdate + 1)
  BY PollingAssumption DEF TypeOK, LoopState, NumbersInv, Bounded, Holding
<1>1. CASE Ask(l)
  <2>1. loop' \in [Loops -> LoopState]
    BY <1>0, <1>1, MoveType DEF Ask, Place
  <2>2. confirmed' \in 0..arrived
    BY <1>0, <1>1 DEF Ask, Confirms
  <2> QED
    BY <1>1, <2>1, <2>2 DEF Ask, TypeOK, aside, memory, handled, bounds
<1>2. CASE Answer(l)
  <2>1. confirmed + 1 \in 0..(LastUpdate + 1)
    BY <1>0
  <2>2. loop' \in [Loops -> LoopState]
    BY <1>0, <1>2, <2>1 DEF Answer, LoopState, Place
  <2> QED
    BY <1>2, <2>2 DEF Answer, TypeOK, aside, telegram, memory, handled, bounds
<1>3. CASE Context(l)
  <2> DEFINE state == [loop[l] EXCEPT !.bound = setting # Inactive]
             next == IF state.cur > state.last THEN Between([state EXCEPT !.health = "live"], "pause")
                     ELSE [state EXCEPT !.at = "batch"]
  <2>1. /\ [state EXCEPT !.health = "live"] \in LoopState
        /\ [state EXCEPT !.at = "batch"] \in LoopState
    BY <1>0 DEF LoopState, Place
  <2>2. next \in LoopState
    BY <2>1, StateType DEF Place
  <2>3. loop' \in [Loops -> LoopState]
    BY <1>0, <1>3, <2>2, MoveType DEF Context
  <2> QED
    BY <1>3, <2>3 DEF Context, TypeOK, aside, telegram, memory, handled, bounds
<1>4. CASE NextChat(l)
  <2>1. loop' \in [Loops -> LoopState]
    BY <1>0, <1>4, MoveType DEF NextChat, Takes, Ignore, Place
  <2>2. loop[l].cur \in Updates
    BY <1>0, <1>4 DEF NextChat, Takes, NumbersInv, Bounded, Holding, Updates
  <2>3. excused' \subseteq Updates
    BY <1>4, <2>2 DEF NextChat, Ignore, TypeOK
  <2>4. MemoryOK'
    <3>1. CASE Ignores(l, loop[l].cur)
      BY <1>4, <3>1, MemoryKept DEF NextChat, Ignore, Keeps
    <3>2. CASE ~Ignores(l, loop[l].cur)
      <4>1. loop[l].cur \in Numbers
        BY <2>2, PollingAssumption DEF Updates, Numbers
      <4> QED
        BY <1>4, <3>2, <4>1, MemoryAdds DEF NextChat, Receive, Adds
    <3> QED
      BY <3>1, <3>2
  <2> QED
    BY <1>4, <2>1, <2>3, <2>4 DEF NextChat, TypeOK, MemoryOK, aside, telegram, bounds, Numbers
<1>5. CASE Dispatch(l)
  <2>1. loop' \in [Loops -> LoopState]
    BY <1>0, <1>5, MoveType DEF Dispatch, NumbersInv, Bounded, Holding
  <2>2. dispatched' \in [Updates -> Nat] /\ turns' \in Nat
    <3>1. loop[l].cur > 0 /\ loop[l].cur <= loop[l].last
      BY <1>5 DEF Dispatch, NumbersInv, Bounded, Holding
    <3>2. loop[l].cur \in Updates
      BY <1>0, <3>1 DEF Updates
    <3>3. dispatched \in [Updates -> Nat] /\ turns \in Nat
      BY DEF TypeOK
    <3> QED
      BY <1>5, <3>2, <3>3 DEF Dispatch
  <2> QED
    BY <1>5, <2>1, <2>2 DEF Dispatch, TypeOK, aside, telegram, memory, bounds
<1>6. CASE NextGoldenPath(l)
  <2>1. loop' \in [Loops -> LoopState]
    BY <1>0, <1>6, MoveType DEF NextGoldenPath, Place
  <2> QED
    BY <1>6, <2>1 DEF NextGoldenPath, TypeOK, aside, telegram, memory, handled, bounds
<1>7. CASE StartCapture(l)
  <2>1. loop' \in [Loops -> LoopState]
    BY <1>0, <1>7, MoveType DEF StartCapture, Ignore, Place, NumbersInv, Bounded, Holding
  <2>2. loop[l].cur \in Updates
    BY <1>0, <1>7, PollingAssumption DEF StartCapture, NumbersInv, Bounded, Holding
  <2>3. excused' \subseteq Updates
    BY <1>7, <2>2 DEF StartCapture, Ignore, TypeOK
  <2>4. MemoryOK'
    BY <1>7, MemoryKept DEF StartCapture, Ignore, Keeps
  <2> QED
    BY <1>7, <2>1, <2>3, <2>4 DEF StartCapture, TypeOK, MemoryOK, aside, telegram, bounds, Numbers
<1>8. CASE Capture(l)
  <2>1. loop' \in [Loops -> LoopState]
    BY <1>0, <1>8, MoveType DEF Capture, Place
  <2>2. captured' \subseteq GoldenPath
    BY <1>8 DEF Capture, TypeOK, NumbersInv, Bounded, Holding
  <2> QED
    BY <1>8, <2>1, <2>2 DEF Capture, TypeOK, aside, telegram, memory, bounds
<1>9. CASE Acknowledge(l)
  <2>1. loop' \in [Loops -> LoopState]
    BY <1>0, <1>9, MoveType DEF Acknowledge, NumbersInv, Bounded, Holding
  <2>2. loop[l].cur \in Numbers
    BY <1>0, <1>9 DEF Acknowledge, NumbersInv, Bounded, Holding, Numbers
  <2>3. MemoryOK'
    BY <1>9, <2>2, MemoryAdds DEF Acknowledge, Adds
  <2> QED
    BY <1>9, <2>1, <2>3 DEF Acknowledge, TypeOK, MemoryOK, aside, telegram, handled, bounds, Numbers
<1>10. CASE EndBatch(l)
  <2>1. [loop[l] EXCEPT !.health = "live"] \in LoopState
    BY <1>0 DEF LoopState
  <2>2. loop' \in [Loops -> LoopState]
    BY <1>0, <1>10, <2>1, MoveType DEF EndBatch
  <2> QED
    BY <1>10, <2>2 DEF EndBatch, TypeOK, aside, telegram, memory, handled, bounds
<1>11. CASE Wake(l)
  <2>1. loop' \in [Loops -> LoopState]
    BY <1>0, <1>11, MoveType DEF Wake
  <2> QED
    BY <1>11, <2>1 DEF Wake, TypeOK, aside, telegram, memory, handled, bounds
<1>12. CASE LoopFailure(l)
  <2>1. [loop[l] EXCEPT !.health = "live"] \in LoopState
    BY <1>0 DEF LoopState
  <2>2. Failed(loop[l]) \in LoopState
    BY <2>1, StateType DEF Failed, Place
  <2>3. loop' \in [Loops -> LoopState]
    BY <1>0, <1>12, <2>2, MoveType DEF LoopFailure, Fail, ReceiveFails, AcknowledgeFails, Fails
  <2>4. mishaps' \in 0..MaxMishaps
    BY <1>12, PollingAssumption DEF LoopFailure, Fail, ReceiveFails, AcknowledgeFails, Mishap, TypeOK
  <2>5. CASE Fail(l)
    BY <2>3, <2>4, <2>5 DEF Fail, TypeOK, telegram, memory, handled
  <2>6. CASE ReceiveFails(l)
    <3>1. loop[l].cur \in Updates /\ loop[l].cur \in Numbers
      BY <1>0, <2>6 DEF ReceiveFails, Takes, NumbersInv, Bounded, Holding, Updates, Numbers
    <3>2. MemoryOK' /\ lost' \subseteq Updates
      BY <2>6, <3>1, MemoryAdds DEF ReceiveFails, ReceiveUnwritten, Adds, TypeOK
    <3> QED
      BY <2>3, <2>4, <2>6, <3>2 DEF ReceiveFails, TypeOK, MemoryOK, telegram, Numbers
  <2>7. CASE AcknowledgeFails(l)
    <3>1. loop[l].cur \in Numbers
      BY <1>0, <2>7 DEF AcknowledgeFails, NumbersInv, Bounded, Holding, Numbers
    <3>2. MemoryOK'
      BY <2>7, <3>1, MemoryAdds DEF AcknowledgeFails, Adds
    <3> QED
      BY <2>3, <2>4, <2>7, <3>2 DEF AcknowledgeFails, TypeOK, MemoryOK, telegram, handled, Numbers
  <2> QED
    BY <1>12, <2>5, <2>6, <2>7 DEF LoopFailure
<1> QED
  BY <1>1, <1>2, <1>3, <1>4, <1>5, <1>6, <1>7, <1>8, <1>9, <1>10, <1>11, <1>12 DEF LoopStep

\* A step of the supervisor, of a route or of the webhook, or of their surroundings,
\* keeps the types.
LEMMA TypeOfOtherStep ==
  ASSUME TypeOK, NumbersInv, ConsumerInv,
         \/ \E r \in Routes : RouteStep(r)
         \/ Configure \/ AskReconnect
         \/ WebhookStep \/ PushFails \/ PushUnwritten
         \/ TurnEnds \/ BeginReset \/ Reset
         \/ Arrive \/ (\E id \in 1..(LastUpdate + 1) : OtherBot(id)) \/ WriteRelay
         \/ Crash \/ Restart
  PROVE  TypeOK'
<1> DEFINE PushState == [at : {"idle", "capture", "captured"}, update : 0..LastUpdate]
<1>0. /\ loop \in [Loops -> LoopState] /\ route \in [Routes -> RouteState]
      /\ push \in PushState /\ setting \in Tokens \cup Unpolled
      /\ LastUpdate \in Nat /\ arrived \in 0..LastUpdate /\ confirmed \in 0..arrived
      /\ dispatched \in [Updates -> Nat] /\ forgets \in [Updates -> Nat] /\ turns \in Nat
      /\ changes \in 0..MaxChanges /\ mishaps \in 0..MaxMishaps
      /\ MaxChanges \in Nat /\ MaxMishaps \in Nat
  BY PollingAssumption DEF TypeOK, RouteState
<1>1. ASSUME NEW r \in Routes, Reconcile(r)
      PROVE  TypeOK'
  <2>1. route' \in [Routes -> RouteState]
    BY <1>0, <1>1 DEF Reconcile, Idle, RouteState
  <2>2. loop' \in [Loops -> LoopState] /\ current' \in Loops \cup {NoLoop}
    <3>1. CASE setting \in Unpolled
      BY <1>0, <1>1, <3>1, SupervisorType DEF Reconcile, ReconcilePolling, TypeOK
    <3>2. CASE setting \notin Unpolled /\ StartPolling(setting)
      BY <1>0, <3>2, SupervisorType DEF Free
    <3>3. CASE UNCHANGED <<loop, current>>
      BY <1>0, <3>3 DEF TypeOK
    <3> QED
      BY <1>1, <3>1, <3>2, <3>3 DEF Reconcile, ReconcilePolling
  <2>3. lapse' \subseteq {"window", "stale"}
    BY <1>1 DEF Reconcile, ReconcilePolling
  <2> QED
    BY <1>1, <2>1, <2>2, <2>3 DEF Reconcile, TypeOK, telegram, memory, handled, bounds, RouteState
<1>2. ASSUME NEW r \in Routes, Reconnect(r)
      PROVE  TypeOK'
  <2>1. route' \in [Routes -> RouteState]
    BY <1>0, <1>2 DEF Reconnect, RouteState
  <2>2. loop' \in [Loops -> LoopState]
    BY <1>0, <1>2, SupervisorType DEF Reconnect
  <2> QED
    BY <1>2, <2>1, <2>2 DEF Reconnect, TypeOK, telegram, memory, handled, bounds, RouteState
<1>3. ASSUME NEW r \in Routes, StartAgain(r)
      PROVE  TypeOK'
  <2>1. route' \in [Routes -> RouteState]
    BY <1>0, <1>3 DEF StartAgain, Idle, RouteState
  <2>2. route[r].token \in Tokens
    BY <1>0, <1>3 DEF StartAgain, ConsumerInv
  <2>3. loop' \in [Loops -> LoopState] /\ current' \in Loops \cup {NoLoop}
    BY <1>0, <1>3, <2>2, SupervisorType DEF StartAgain, Free
  <2>4. lapse' \subseteq {"window", "stale"}
    BY <1>3 DEF StartAgain
  <2> QED
    BY <1>3, <2>1, <2>3, <2>4 DEF StartAgain, TypeOK, telegram, memory, handled, bounds, RouteState
<1>4. CASE Configure
  <2>1. route' \in [Routes -> RouteState]
    BY <1>0, <1>4, ReconcilingType, OpensType DEF Configure
  <2>2. changes' \in 0..MaxChanges
    BY <1>0, <1>4 DEF Configure
  <2>3. setting' \in Tokens \cup Unpolled
    BY <1>4 DEF Configure
  <2> QED
    BY <1>4, <2>1, <2>2, <2>3 DEF Configure, TypeOK, telegram, memory, handled, supervisor, RouteState
<1>5. CASE AskReconnect
  <2>1. route' \in [Routes -> RouteState]
    BY <1>0, <1>5, OpensType DEF AskReconnect, RouteState
  <2>2. changes' \in 0..MaxChanges
    BY <1>0, <1>5 DEF AskReconnect
  <2> QED
    BY <1>5, <2>1, <2>2 DEF AskReconnect, TypeOK, telegram, memory, handled, supervisor, RouteState
<1>6. CASE Push
  <2> DEFINE u == confirmed + 1
  <2>1. u \in 1..arrived /\ u \in Updates /\ u \in Numbers /\ u \in 0..LastUpdate
    BY <1>0, <1>6 DEF Push, Pushes, Updates, Numbers
  <2>2. CASE Record /\ confirmed' = u /\ UNCHANGED <<turns, dispatched, push>>
    <3>1. MemoryOK'
      BY <2>2, MemoryKept DEF Keeps
    <3> QED
      BY <1>6, <2>1, <2>2, <3>1 DEF Push, TypeOK, MemoryOK, supervisor, bounds, Numbers
  <2>3. CASE /\ Record /\ push' = [at |-> "capture", update |-> u]
             /\ UNCHANGED <<confirmed, turns, dispatched>>
    <3>1. push' \in PushState
      BY <2>1, <2>3
    <3>2. MemoryOK'
      BY <2>3, MemoryKept DEF Keeps
    <3> QED
      BY <1>6, <2>3, <3>1, <3>2 DEF Push, TypeOK, MemoryOK, supervisor, bounds, Numbers
  <2>4. CASE /\ Receive(u) /\ turns' = turns + 1
             /\ dispatched' = [dispatched EXCEPT ![u] = @ + 1]
             /\ confirmed' = u /\ UNCHANGED push
    <3>1. MemoryOK'
      BY <2>1, <2>4, MemoryAdds DEF Receive, Adds
    <3>2. turns' \in Nat /\ dispatched' \in [Updates -> Nat]
      BY <1>0, <2>1, <2>4
    <3> QED
      BY <1>6, <2>1, <2>4, <3>1, <3>2 DEF Push, TypeOK, MemoryOK, supervisor, bounds, Numbers
  <2> QED
    BY <1>6, <2>2, <2>3, <2>4 DEF Push
<1>7. CASE PushCaptured
  <2>1. push' \in PushState
    BY <1>0, <1>7 DEF PushCaptured
  <2>2. captured' \subseteq GoldenPath
    BY <1>7 DEF PushCaptured, TypeOK, NumbersInv, Bounded, Holding
  <2> QED
    BY <1>7, <2>1, <2>2 DEF PushCaptured, TypeOK, telegram, memory, supervisor, bounds
<1>8. CASE PushAnswered
  <2>1. push.update \in Numbers /\ push.update \in 0..arrived
    BY <1>0, <1>8 DEF PushAnswered, NumbersInv, Bounded, Holding, Numbers
  <2>2. MemoryOK'
    BY <1>8, <2>1, MemoryAdds DEF PushAnswered, Adds
  <2>3. confirmed' \in 0..arrived
    BY <1>0, <1>8, <2>1 DEF PushAnswered
  <2>4. push' \in PushState
    BY <1>0, <1>8 DEF PushAnswered, NoPush
  <2> QED
    BY <1>8, <2>2, <2>3, <2>4 DEF PushAnswered, TypeOK, MemoryOK, handled, supervisor, bounds, Numbers
<1>9. CASE PushFails
  <2>1. mishaps' \in 0..MaxMishaps
    BY <1>0, <1>9 DEF PushFails, Mishap
  <2>2. push' \in PushState
    BY <1>0, <1>9 DEF PushFails, NoPush
  <2> QED
    BY <1>9, <2>1, <2>2 DEF PushFails, TypeOK, telegram, memory, handled, supervisor
<1>10. CASE TurnEnds
  <2>1. turns' \in Nat
    BY <1>0, <1>10 DEF TurnEnds
  <2> QED
    BY <1>10, <2>1 DEF TurnEnds, TypeOK, telegram, memory, supervisor, bounds
<1>11. CASE BeginReset
  <2>1. changes' \in 0..MaxChanges
    BY <1>0, <1>11 DEF BeginReset
  <2>2. loop' \in [Loops -> LoopState]
    BY <1>0, <1>11, SupervisorType DEF BeginReset
  <2> QED
    BY <1>11, <2>1, <2>2 DEF BeginReset, TypeOK, telegram, memory, handled, RouteState
<1>12. CASE Reset
  <2>1. route' \in [Routes -> RouteState]
    BY <1>0, <1>12, ReconcilingType, OpensType DEF Reset
  <2>2. CASE UNCHANGED <<setting, memory, captured, excused, current, loop>>
    BY <1>12, <2>1, <2>2 DEF Reset, TypeOK, telegram, memory, bounds, RouteState
  <2>3. CASE /\ setting' = Inactive
             /\ processed' = <<>> /\ stored' = <<>>
             /\ forgets' = [u \in Updates |-> IF Known(u) THEN forgets[u] + 1 ELSE forgets[u]]
             /\ excused' = excused \cup captured
             /\ captured' = {}
             /\ StopPolling
             /\ current' = NoLoop
    <3>1. forgets' \in [Updates -> Nat]
      BY <1>0, <2>3
    <3>2. /\ processed' \in Seq(1..(LastUpdate + 1)) /\ Len(processed') <= Kept
          /\ stored' \in Seq(1..(LastUpdate + 1)) /\ Len(stored') <= Kept
      BY <2>3, PollingAssumption
    <3>3. loop' \in [Loops -> LoopState]
      BY <1>0, <2>3, SupervisorType
    <3>4. excused' \subseteq Updates /\ captured' \subseteq GoldenPath
      BY <2>3, PollingAssumption DEF TypeOK
    <3>5. setting' \in Tokens \cup Unpolled
      BY <2>3 DEF Unpolled
    <3> QED
      BY <1>12, <2>1, <2>3, <3>1, <3>2, <3>3, <3>4, <3>5 DEF Reset, TypeOK, telegram, bounds, RouteState
  <2> QED
    BY <1>12, <2>2, <2>3 DEF Reset
<1>13. CASE Arrive
  <2>1. arrived' \in 0..LastUpdate /\ confirmed' \in 0..arrived'
    BY <1>0, <1>13 DEF Arrive
  <2> QED
    BY <1>13, <2>1 DEF Arrive, TypeOK, memory, handled, supervisor, bounds
<1>14. ASSUME NEW id \in 1..(LastUpdate + 1), OtherBot(id)
       PROVE  TypeOK'
  <2>1. MemoryOK'
    BY <1>14, MemoryAdds DEF OtherBot, Adds, Numbers
  <2>2. mishaps' \in 0..MaxMishaps
    BY <1>0, <1>14 DEF OtherBot, Mishap
  <2>3. taken' \subseteq Updates
    BY <1>14 DEF OtherBot, TypeOK
  <2> QED
    BY <1>14, <2>1, <2>2, <2>3 DEF OtherBot, TypeOK, MemoryOK, telegram, supervisor, Numbers
<1>15. CASE Crash
  <2>1. mishaps' \in 0..MaxMishaps
    BY <1>0, <1>15 DEF Crash, Mishap
  <2>2. loop' \in [Loops -> LoopState]
    BY <1>15, StateType DEF Crash
  <2>3. route' \in [Routes -> RouteState] /\ push' \in PushState
    BY <1>0, <1>15 DEF Crash, Idle, NoPush, RouteState
  <2>4. lost' \subseteq Updates
    <3>1. ASSUME NEW l \in Loops, loop[l].at = "chatSlot"
          PROVE  loop[l].cur \in Updates
      <4>1. loop[l].cur > 0 /\ loop[l].cur <= loop[l].last
        BY <3>1 DEF NumbersInv, Bounded, Holding
      <4>2. loop[l].cur \in 0..(LastUpdate + 1) /\ loop[l].last \in 0..LastUpdate
        BY <1>0 DEF LoopState
      <4> QED
        BY <1>0, <4>1, <4>2 DEF Updates
    <3> QED
      BY <1>15, <3>1 DEF Crash, TypeOK
  <2> QED
    BY <1>15, <2>1, <2>2, <2>3, <2>4 DEF Crash, TypeOK, telegram, memory, RouteState
<1>16. CASE Restart
  <2>1. route' \in [Routes -> RouteState]
    BY <1>0, <1>16, ReconcilingType, OpensType DEF Restart
  <2> QED
    BY <1>16, <2>1 DEF Restart, TypeOK, telegram, memory, handled, supervisor, bounds, RouteState
<1>17. CASE PushUnwritten
  <2>1. mishaps' \in 0..MaxMishaps
    BY <1>0, <1>17 DEF PushUnwritten, Mishap
  <2>2. CASE Pushes /\ ReceiveUnwritten(confirmed + 1) /\ UNCHANGED push
    <3>1. confirmed + 1 \in Updates /\ confirmed + 1 \in Numbers
      BY <1>0, <2>2 DEF Pushes, Updates, Numbers
    <3>2. MemoryOK' /\ lost' \subseteq Updates
      BY <2>2, <3>1, MemoryAdds DEF ReceiveUnwritten, Adds, TypeOK
    <3> QED
      BY <1>17, <2>1, <2>2, <3>2 DEF PushUnwritten, TypeOK, MemoryOK, telegram, supervisor, Numbers
  <2>3. CASE /\ push.at = "captured" /\ Memorize(push.update) /\ UNCHANGED <<stored, lost>>
             /\ push' = NoPush
    <3>1. push.update \in Numbers
      BY <1>0, <2>3 DEF NumbersInv, Numbers
    <3>2. MemoryOK'
      BY <2>3, <3>1, MemoryAdds DEF Adds
    <3>3. push' \in PushState
      BY <1>0, <2>3 DEF NoPush
    <3> QED
      BY <1>17, <2>1, <2>3, <3>2, <3>3 DEF PushUnwritten, TypeOK, MemoryOK, telegram, supervisor,
         Numbers
  <2> QED
    BY <1>17, <2>2, <2>3 DEF PushUnwritten
<1>18. CASE WriteRelay
  <2>1. MemoryOK'
    BY <1>18, MemoryKept DEF WriteRelay, Keeps
  <2> QED
    BY <1>18, <2>1 DEF WriteRelay, TypeOK, MemoryOK, telegram, handled, supervisor, bounds, Numbers
<1> QED
  BY <1>1, <1>2, <1>3, <1>4, <1>5, <1>6, <1>7, <1>8, <1>9, <1>10, <1>11, <1>12, <1>13, <1>14,
     <1>15, <1>16, <1>17, <1>18 DEF RouteStep, WebhookStep

\* Every step keeps the types.
LEMMA TypeStep ==
  ASSUME IInv, [Next]_vars
  PROVE  TypeOK'
<1>1. CASE Next
  BY <1>1, TypeOfLoopStep, TypeOfOtherStep DEF IInv, Next
<1>2. CASE UNCHANGED vars
  BY <1>2 DEF IInv, TypeOK, vars, telegram, memory, handled, supervisor, bounds
<1> QED
  BY <1>1, <1>2

\* What a loop is set to, by itself or by the supervisor, stays within the updates.
LEMMA BoundedStates ==
  ASSUME NEW a \in Nat
  PROVE  /\ Bounded(Ended, a) /\ \A token \in Tokens : Bounded(Fresh(token), a)
         /\ \A state \in LoopState : Bounded(state, a) =>
              /\ Bounded(Aborted(state), a) /\ Bounded(Stopped(state), a)
              /\ Bounded([state EXCEPT !.health = "live"], a)
              /\ \A place \in Place \ (Holding \cup {"batch", "context"}) :
                   Bounded(Between(state, place), a)
<1>1. Bounded(Ended, a) /\ \A token \in Tokens : Bounded(Fresh(token), a)
  BY DEF Bounded, Ended, Fresh, Holding
<1>2. ASSUME NEW state \in LoopState, Bounded(state, a)
      PROVE  Bounded(Aborted(state), a)
  <2>1. Bounded([state EXCEPT !.aborted = TRUE], a)
    BY <1>2 DEF Bounded, LoopState
  <2> QED
    BY <1>1, <2>1 DEF Aborted
<1>3. ASSUME NEW state \in LoopState, Bounded(state, a)
      PROVE  /\ Bounded([state EXCEPT !.health = "live"], a)
             /\ Bounded([state EXCEPT !.health = "stopped"], a)
  BY <1>3 DEF Bounded, LoopState
<1>4. ASSUME NEW state \in LoopState, Bounded(state, a)
      PROVE  Bounded(Stopped(state), a)
  BY <1>2, <1>3, <1>4, AbortedType DEF Stopped
<1>5. ASSUME NEW state \in LoopState, Bounded(state, a),
             NEW place \in Place \ (Holding \cup {"batch", "context"})
      PROVE  Bounded(Between(state, place), a)
  BY <1>5 DEF Bounded, Between, LoopState
<1> QED
  BY <1>1, <1>2, <1>3, <1>4, <1>5

\* The numbers stay within the updates that exist.
LEMMA NumbersStep ==
  ASSUME IInv, [Next]_vars
  PROVE  NumbersInv'
<1>0. /\ loop \in [Loops -> LoopState] /\ \A l \in Loops : Bounded(loop[l], arrived)
      /\ LastUpdate \in Nat /\ arrived \in Nat /\ arrived <= LastUpdate
      /\ confirmed \in Nat /\ confirmed <= arrived
  BY PollingAssumption DEF IInv, TypeOK, NumbersInv
<1>1. ASSUME NEW l \in Loops, LoopStep(l) \/ LoopFailure(l)
      PROVE  NumbersInv'
  <2>1. loop[l] \in LoopState /\ Bounded(loop[l], arrived) /\ l \in Loops
        /\ loop[l].cur \in Nat /\ loop[l].last \in Nat /\ loop[l].offset \in Nat
    BY <1>0 DEF LoopState
  <2>2. UNCHANGED <<arrived, push>>
    BY <1>1 DEF LoopStep, Ask, Answer, Context, NextChat, Dispatch, NextGoldenPath, StartCapture,
            Capture, Acknowledge, EndBatch, Wake, LoopFailure, Fail, ReceiveFails,
            AcknowledgeFails, aside, telegram
  <2> DEFINE Moved == /\ \A k \in Loops : k # l => loop'[k] = loop[k]
                      /\ Bounded(loop'[l], arrived)
  <2>3. ASSUME NEW place \in Place, At(l, place),
               place \in Holding \cup {"batch", "context"} => loop[l].cur > 0,
               place \in Holding => /\ loop[l].cur <= loop[l].last
                                    /\ loop[l].cur \in GoldenPath <=> place # "chatSlot"
        PROVE  Moved
    <3>1. loop'[l] = [loop[l] EXCEPT !.at = place] /\ \A k \in Loops : k # l => loop'[k] = loop[k]
      BY <1>0, <2>3 DEF At
    <3> QED
      BY <2>1, <2>3, <3>1 DEF Bounded, LoopState
  <2>4. ASSUME Past(l), loop[l].cur <= loop[l].last
        PROVE  Moved
    <3>1. /\ loop'[l] = [loop[l] EXCEPT !.at = "batch", !.offset = loop[l].cur + 1,
                                        !.cur = loop[l].cur + 1]
          /\ \A k \in Loops : k # l => loop'[k] = loop[k]
      BY <1>0, <2>4 DEF Past
    <3>2. loop[l].cur + 1 <= arrived + 1 /\ loop[l].cur + 1 > 0
      BY <1>0, <2>1, <2>4 DEF Bounded
    <3> QED
      BY <2>1, <3>1, <3>2 DEF Bounded, LoopState, Holding
  <2>5. ASSUME NEW state \in LoopState, Bounded(state, arrived),
               Continues(l, state) \/ loop' = [loop EXCEPT ![l] = state]
        PROVE  Moved
    <3>1. Bounded(Ended, arrived) /\ Bounded(Between(state, "poll"), arrived)
      BY <1>0, <2>5, BoundedStates DEF Place, Holding
    <3> QED
      BY <1>0, <2>5, <3>1 DEF Continues
  <2>6. Moved
    <3>1. CASE Ask(l)
      BY <2>3, <3>1 DEF Ask, Place, Holding
    <3>2. CASE Answer(l)
      <4>1. /\ loop'[l] = [loop[l] EXCEPT !.at = "context", !.cur = confirmed + 1, !.last = arrived]
            /\ \A k \in Loops : k # l => loop'[k] = loop[k]
        BY <1>0, <3>2 DEF Answer
      <4>2. confirmed + 1 <= arrived + 1
        BY <1>0
      <4> QED
        BY <1>0, <2>1, <4>1, <4>2 DEF Bounded, LoopState, Holding
    <3>3. CASE Context(l)
      <4> DEFINE state == [loop[l] EXCEPT !.bound = setting # Inactive]
                 next == IF state.cur > state.last
                         THEN Between([state EXCEPT !.health = "live"], "pause")
                         ELSE [state EXCEPT !.at = "batch"]
      <4>1. state \in LoopState /\ [state EXCEPT !.health = "live"] \in LoopState
            /\ [state EXCEPT !.at = "batch"] \in LoopState
        BY <2>1 DEF LoopState, Place
      <4>2. Bounded(state, arrived) /\ Bounded([state EXCEPT !.health = "live"], arrived)
        BY <2>1 DEF Bounded, LoopState
      <4>3. Bounded(Between([state EXCEPT !.health = "live"], "pause"), arrived)
        BY <1>0, <4>1, <4>2, BoundedStates DEF Place, Holding
      <4>4. Bounded([state EXCEPT !.at = "batch"], arrived)
        <5>1. loop[l].cur > 0
          BY <3>3, <2>1 DEF Context, Bounded
        <5> QED
          BY <2>1, <4>2, <5>1 DEF Bounded, LoopState, Holding
      <4>5. Bounded(next, arrived) /\ next \in LoopState
        BY <4>1, <4>3, <4>4, StateType DEF Place
      <4> QED
        BY <2>5, <3>3, <4>5 DEF Context
    <3>4. CASE NextChat(l)
      BY <2>1, <2>3, <2>4, <3>4 DEF NextChat, Takes, Ignore, Place, Holding, Bounded
    <3>5. CASE Dispatch(l)
      BY <2>1, <2>4, <3>5 DEF Dispatch, Bounded, Holding
    <3>6. CASE NextGoldenPath(l)
      BY <2>1, <2>3, <3>6 DEF NextGoldenPath, Takes, Place, Holding, Bounded
    <3>7. CASE StartCapture(l)
      BY <2>1, <2>3, <2>4, <3>7 DEF StartCapture, Ignore, Place, Holding, Bounded
    <3>8. CASE Capture(l)
      BY <2>1, <2>3, <3>8 DEF Capture, Place, Holding, Bounded
    <3>9. CASE Acknowledge(l)
      BY <2>1, <2>4, <3>9 DEF Acknowledge, Bounded, Holding
    <3>10. CASE EndBatch(l)
      <4>1. /\ [loop[l] EXCEPT !.health = "live"] \in LoopState
            /\ Bounded([loop[l] EXCEPT !.health = "live"], arrived)
        BY <1>0, <2>1, BoundedStates DEF LoopState
      <4> QED
        BY <2>5, <3>10, <4>1 DEF EndBatch
    <3>11. CASE Wake(l)
      BY <2>1, <2>5, <3>11 DEF Wake
    <3>12. CASE LoopFailure(l)
      <4>1. /\ [loop[l] EXCEPT !.health = "live"] \in LoopState
            /\ Bounded([loop[l] EXCEPT !.health = "live"], arrived)
        BY <1>0, <2>1, BoundedStates DEF LoopState
      <4>2. Failed(loop[l]) \in LoopState /\ Bounded(Failed(loop[l]), arrived)
        BY <1>0, <4>1, BoundedStates, StateType DEF Failed, Place, Holding
      <4> QED
        BY <2>5, <3>12, <4>2 DEF LoopFailure, Fail, ReceiveFails, AcknowledgeFails, Fails
    <3> QED
      BY <1>1, <3>1, <3>2, <3>3, <3>4, <3>5, <3>6, <3>7, <3>8, <3>9, <3>10, <3>11, <3>12
         DEF LoopStep
  <2> QED
    BY <1>0, <2>2, <2>6 DEF IInv, NumbersInv
<1>2. CASE UNCHANGED <<loop, arrived, push>>
  BY <1>2 DEF IInv, NumbersInv
<1>3. ASSUME UNCHANGED arrived, push' = push \/ push' = NoPush,
             \A k \in Loops : loop'[k] \in {loop[k], Aborted(loop[k]), Stopped(loop[k]), Ended}
                             \/ \E token \in Tokens : loop'[k] = Fresh(token)
      PROVE  NumbersInv'
  <2>1. \A k \in Loops : Bounded(loop'[k], arrived')
    BY <1>0, <1>3, BoundedStates
  <2> QED
    BY <1>3, <2>1 DEF IInv, NumbersInv, NoPush
<1>4. ASSUME NEW r \in Routes, RouteStep(r)
      PROVE  NumbersInv'
  <2>1. UNCHANGED <<arrived, push>>
    BY <1>4 DEF RouteStep, Reconcile, Reconnect, StartAgain, telegram
  <2>2. \/ StopPolling \/ UNCHANGED loop \/ \E token \in Tokens : StartPolling(token)
    BY <1>4 DEF RouteStep, Reconcile, Reconnect, StartAgain, ReconcilePolling, IInv, TypeOK,
                ConsumerInv
  <2> QED
    BY <1>3, <2>1, <2>2 DEF StopPolling, StartPolling
<1>5. CASE Configure \/ AskReconnect \/ PushCaptured \/ TurnEnds \/ Restart \/ WriteRelay
           \/ \E id \in 1..(LastUpdate + 1) : OtherBot(id)
  <2>1. UNCHANGED <<loop, arrived>>
    BY <1>5 DEF Configure, AskReconnect, PushCaptured, TurnEnds, Restart, OtherBot, WriteRelay,
                supervisor, telegram
  <2>2. push' = push \/ (push.at # "idle" /\ push'.update = push.update)
    BY <1>5 DEF Configure, AskReconnect, PushCaptured, TurnEnds, Restart, OtherBot, WriteRelay,
                IInv, TypeOK
  <2> QED
    BY <2>1, <2>2 DEF IInv, NumbersInv
<1>6. CASE Push
  <2>1. UNCHANGED <<loop, arrived>>
    BY <1>6 DEF Push, supervisor
  <2>2. push' = push \/ push' = [at |-> "capture", update |-> confirmed + 1]
    BY <1>6 DEF Push
  <2>3. push' # push => confirmed + 1 \in GoldenPath /\ confirmed + 1 <= arrived
    BY <1>0, <1>6 DEF Push, Pushes
  <2> QED
    BY <1>0, <2>1, <2>2, <2>3 DEF IInv, NumbersInv
<1>7. CASE PushAnswered \/ PushFails \/ PushUnwritten \/ BeginReset \/ Reset \/ Crash
  <2>1. UNCHANGED arrived /\ (push' = push \/ push' = NoPush)
    BY <1>7 DEF PushAnswered, PushFails, PushUnwritten, BeginReset, Reset, Crash, telegram
  <2>2. UNCHANGED loop \/ StopPolling \/ loop' = [l \in Loops |-> Ended]
    BY <1>7 DEF PushAnswered, PushFails, PushUnwritten, BeginReset, Reset, Crash, supervisor
  <2> QED
    BY <1>3, <2>1, <2>2 DEF StopPolling
<1>8. CASE Arrive
  <2>1. arrived' = arrived + 1 /\ UNCHANGED <<loop, push>>
    BY <1>8 DEF Arrive, supervisor
  <2>2. \A l \in Loops : loop[l].offset \in Nat /\ loop[l].cur \in Nat /\ loop[l].last \in Nat
    BY <1>0 DEF LoopState
  <2>3. \A l \in Loops : Bounded(loop[l], arrived + 1)
    BY <1>0, <2>2 DEF Bounded
  <2>4. push.update \in Nat
    BY DEF IInv, TypeOK
  <2> QED
    BY <1>0, <2>1, <2>3, <2>4 DEF IInv, NumbersInv
<1> QED
  BY <1>1, <1>2, <1>4, <1>5, <1>6, <1>7, <1>8 DEF Next, WebhookStep, vars, telegram, supervisor

\* A step of a loop leaves the other loops alone, an aborted loop aborted, and a live
\* one live, with its token, and shown so.
LEMMA LoopStaysInItsRole ==
  ASSUME TypeOK, ConsumerInv, NEW l \in Loops, LoopStep(l) \/ LoopFailure(l)
  PROVE  /\ \A k \in Loops : k # l => loop'[k] = loop[k]
         /\ loop[l].at # "none"
         /\ \/ loop'[l] = Ended /\ loop[l].aborted
            \/ /\ loop'[l].at # "none" /\ loop'[l].token = loop[l].token
               /\ loop'[l].aborted = loop[l].aborted
               /\ loop[l].health = "live" => loop'[l].health = "live"
<1>0. loop \in [Loops -> LoopState] /\ loop[l] \in LoopState
  BY DEF TypeOK
<1> DEFINE Same(new) == /\ new.at # "none" /\ new.token = loop[l].token
                        /\ new.aborted = loop[l].aborted
                        /\ loop[l].health = "live" => new.health = "live"
           Goal(new) == (new = Ended /\ loop[l].aborted) \/ Same(new)
<1>1. /\ loop[l].at # "none"
      /\ \/ \E place \in Place \ {"none"} : At(l, place)
         \/ Past(l)
         \/ \E state \in {loop[l], [loop[l] EXCEPT !.health = "live"]} : Continues(l, state)
         \/ Answer(l) \/ Context(l) \/ Fails(l)
  BY DEF LoopStep, Ask, NextChat, Dispatch, NextGoldenPath, StartCapture, Capture, Acknowledge,
         EndBatch, Wake, Answer, Context, LoopFailure, Fail, ReceiveFails, AcknowledgeFails, Takes,
         Ignore, Place
<1>2. ASSUME NEW place \in Place \ {"none"}, At(l, place)
      PROVE  Goal(loop'[l]) /\ \A k \in Loops : k # l => loop'[k] = loop[k]
  <2>1. loop'[l] = [loop[l] EXCEPT !.at = place] /\ \A k \in Loops : k # l => loop'[k] = loop[k]
    BY <1>0, <1>2 DEF At
  <2> QED
    BY <1>0, <2>1 DEF LoopState
<1>3. ASSUME Past(l)
      PROVE  Goal(loop'[l]) /\ \A k \in Loops : k # l => loop'[k] = loop[k]
  <2>1. /\ loop'[l] = [loop[l] EXCEPT !.at = "batch", !.offset = loop[l].cur + 1,
                                      !.cur = loop[l].cur + 1]
        /\ \A k \in Loops : k # l => loop'[k] = loop[k]
    BY <1>0, <1>3 DEF Past
  <2> QED
    BY <1>0, <2>1 DEF LoopState
<1>4. ASSUME NEW state \in {loop[l], [loop[l] EXCEPT !.health = "live"]},
             NEW place \in Place \ {"none"},
             loop' = [loop EXCEPT ![l] = IF state.aborted THEN Ended ELSE Between(state, place)]
      PROVE  Goal(loop'[l]) /\ \A k \in Loops : k # l => loop'[k] = loop[k]
  <2>1. /\ loop'[l] = IF state.aborted THEN Ended ELSE Between(state, place)
        /\ \A k \in Loops : k # l => loop'[k] = loop[k]
    BY <1>0, <1>4
  <2>2. /\ state.aborted = loop[l].aborted /\ state.token = loop[l].token
        /\ loop[l].health = "live" => state.health = "live"
        /\ state \in LoopState
    BY <1>0 DEF LoopState
  <2>3. Same(Between(state, place))
    BY <1>4, <2>2 DEF Between, LoopState
  <2>4. CASE state.aborted
    BY <2>1, <2>2, <2>4
  <2>5. CASE ~state.aborted
    BY <2>1, <2>3, <2>5
  <2> QED
    BY <2>4, <2>5
<1>5. ASSUME Answer(l)
      PROVE  Goal(loop'[l]) /\ \A k \in Loops : k # l => loop'[k] = loop[k]
  <2>1. /\ loop'[l] = [loop[l] EXCEPT !.at = "context", !.cur = confirmed + 1, !.last = arrived]
        /\ \A k \in Loops : k # l => loop'[k] = loop[k]
    BY <1>0, <1>5 DEF Answer
  <2> QED
    BY <1>0, <2>1 DEF LoopState
<1>6. ASSUME Context(l)
      PROVE  Goal(loop'[l]) /\ \A k \in Loops : k # l => loop'[k] = loop[k]
  <2> DEFINE state == [loop[l] EXCEPT !.bound = setting # Inactive]
             next == IF state.cur > state.last THEN Between([state EXCEPT !.health = "live"], "pause")
                     ELSE [state EXCEPT !.at = "batch"]
  <2>1. loop'[l] = next /\ \A k \in Loops : k # l => loop'[k] = loop[k]
    BY <1>0, <1>6 DEF Context
  <2>2. Same(Between([state EXCEPT !.health = "live"], "pause"))
    BY <1>0 DEF Between, LoopState
  <2>3. Same([state EXCEPT !.at = "batch"])
    BY <1>0 DEF LoopState
  <2> QED
    BY <2>1, <2>2, <2>3
<1>7. ASSUME Fails(l)
      PROVE  Goal(loop'[l]) /\ \A k \in Loops : k # l => loop'[k] = loop[k]
  <2> DEFINE state == [loop[l] EXCEPT !.health = "live"]
  <2>1. state.aborted = loop[l].aborted
    BY <1>0 DEF LoopState
  <2>2. Failed(loop[l]) = IF state.aborted THEN Ended ELSE Between(state, "backoff")
    BY <2>1 DEF Failed
  <2>3. loop' = [loop EXCEPT ![l] = IF state.aborted THEN Ended ELSE Between(state, "backoff")]
    BY <1>7, <2>2 DEF Fails
  <2> QED
    BY <1>4, <2>3 DEF Place
<1>8. ASSUME NEW state \in {loop[l], [loop[l] EXCEPT !.health = "live"]}, Continues(l, state)
      PROVE  Goal(loop'[l]) /\ \A k \in Loops : k # l => loop'[k] = loop[k]
  <2>1. "poll" \in Place \ {"none"}
    BY DEF Place
  <2>2. loop' = [loop EXCEPT ![l] = IF state.aborted THEN Ended ELSE Between(state, "poll")]
    BY <1>8 DEF Continues
  <2> QED
    BY <1>4, <2>1, <2>2
<1> QED
  BY <1>1, <1>2, <1>3, <1>5, <1>6, <1>7, <1>8

\* The registered consumer stays the only live loop, and what the owner set.
LEMMA ConsumerStep ==
  ASSUME IInv, [Next]_vars
  PROVE  ConsumerInv'
<1>0. /\ loop \in [Loops -> LoopState] /\ current \in Loops \cup {NoLoop} /\ NoLoop \notin Loops
      /\ route \in [Routes -> RouteState] /\ setting \in Tokens \cup Unpolled
      /\ Tokens \cap Unpolled = {}
  BY PollingAssumption DEF IInv, TypeOK, RouteState, Unpolled
<1>1. /\ \A k \in Loops : Live(k) => k = current /\ loop[k].health = "live"
      /\ \A k \in Loops : loop[k].at = "none" => loop[k].health = "stopped"
      /\ \A q \in Routes : route[q].at \in {"reconnect", "sleep"} => route[q].token \in Tokens
      /\ PolledAsConfigured
  BY DEF IInv, ConsumerInv, OneConsumer
<1> DEFINE LoopsFine == /\ \A k \in Loops : Live(k)' => k = current' /\ loop'[k].health = "live"
                        /\ \A k \in Loops : loop'[k].at = "none" => loop'[k].health = "stopped"
           RoutesFine == \A q \in Routes :
             route'[q].at \in {"reconnect", "sleep"} => route'[q].token \in Tokens
<1>2. ASSUME LoopsFine, RoutesFine, PolledAsConfigured'
      PROVE  ConsumerInv'
  BY <1>2 DEF ConsumerInv, OneConsumer
<1>3. Ended.at = "none" /\ Ended.health = "stopped" /\ Idle.at = "idle"
  BY DEF Ended, Fresh, Idle
<1>4. \A token \in Tokens : /\ Fresh(token).at # "none" /\ Fresh(token).health = "live"
                            /\ ~Fresh(token).aborted /\ Fresh(token).token = token
  BY DEF Fresh
<1>5. \A state \in LoopState :
        /\ Aborted(state).at = "none" => Aborted(state).health = "stopped" \/ state.at = "none"
        /\ Aborted(state).at # "none" => Aborted(state).aborted
        /\ Stopped(state).at # "none" => Stopped(state).aborted
        /\ Stopped(state).health = "stopped"
  <2>1. ASSUME NEW state \in LoopState
        PROVE  /\ Aborted(state).at = "none" => Aborted(state).health = "stopped"
                                                \/ state.at = "none"
               /\ Aborted(state).at # "none" => Aborted(state).aborted
    BY <1>3 DEF Aborted, LoopState
  <2>2. ASSUME NEW state \in LoopState
        PROVE  /\ Stopped(state).at # "none" => Stopped(state).aborted
               /\ Stopped(state).health = "stopped"
    <3>1. Aborted(state) \in LoopState
      BY AbortedType
    <3>2. /\ Stopped(state).at = Aborted(state).at /\ Stopped(state).health = "stopped"
          /\ Stopped(state).aborted = Aborted(state).aborted
      BY <3>1 DEF Stopped, LoopState
    <3> QED
      BY <2>1, <3>2
  <2> QED
    BY <2>1, <2>2
<1>6. ASSUME StopPolling, UNCHANGED current \/ current' = NoLoop
      PROVE  LoopsFine /\ \A k \in Loops : ~Live(k)'
  <2>1. \A k \in Loops : loop'[k] = IF k = current THEN Stopped(loop[k]) ELSE loop[k]
    BY <1>6 DEF StopPolling
  <2>2. \A k \in Loops : ~Live(k)'
    BY <1>0, <1>1, <1>5, <2>1 DEF Live
  <2>3. \A k \in Loops : loop'[k].at = "none" => loop'[k].health = "stopped"
    BY <1>0, <1>1, <1>5, <2>1
  <2> QED
    BY <2>2, <2>3
<1>7. ASSUME NEW token \in Tokens, StartPolling(token)
      PROVE  /\ LoopsFine /\ current' \in Loops /\ Live(current)' /\ loop'[current'].token = token
  <2>1. /\ current' \in Loops /\ current' # current
        /\ \A k \in Loops : loop'[k] = IF k = current' THEN Fresh(token)
                                       ELSE IF k = current /\ loop[k].health # "stopped"
                                       THEN Aborted(loop[k]) ELSE loop[k]
    BY <1>7 DEF StartPolling, Free
  <2>2. \A k \in Loops : k # current' => ~Live(k)'
    BY <1>0, <1>1, <1>5, <2>1 DEF Live
  <2>3. \A k \in Loops : loop'[k].at = "none" => loop'[k].health = "stopped"
    BY <1>0, <1>1, <1>4, <1>5, <2>1
  <2>4. /\ Live(current)' /\ loop'[current'].token = token /\ loop'[current'].health = "live"
    BY <1>4, <2>1 DEF Live
  <2> QED
    BY <2>1, <2>2, <2>3, <2>4
<1>8. ASSUME UNCHANGED <<loop, current>>
      PROVE  LoopsFine
  BY <1>1, <1>8 DEF Live
<1>9. ASSUME \/ ~up' \/ reset' \/ lapse' # {} \/ \E r \in Routes : route'[r] # Idle
      PROVE  PolledAsConfigured'
  BY <1>9 DEF PolledAsConfigured
<1>10. ASSUME UNCHANGED <<up, setting, loop, current, lapse, route, reset>>
       PROVE  ConsumerInv'
  BY <1>10 DEF IInv, ConsumerInv, OneConsumer, PolledAsConfigured, Live
<1>11. ASSUME NEW request \in RouteState, request.at # "idle", Opens(request)
       PROVE  /\ \E r \in Routes : route'[r] # Idle
              /\ request.at \in {"reconnect", "sleep"} /\ request.token \in Tokens => RoutesFine
              /\ request.at \notin {"reconnect", "sleep"} => RoutesFine
  <2>1. PICK r \in Routes : route' = [route EXCEPT ![r] = request]
    BY <1>11 DEF Opens
  <2> QED
    BY <1>0, <1>1, <1>3, <1>11, <2>1
<1>12. Reconciling \in RouteState /\ Reconciling.at = "reconcile"
  BY DEF Reconciling, RouteState
<1>13. ASSUME NEW l \in Loops, LoopStep(l) \/ LoopFailure(l)
       PROVE  ConsumerInv'
  <2>1. UNCHANGED <<up, setting, current, lapse, route, reset>>
    BY <1>13 DEF LoopStep, Ask, Answer, Context, NextChat, Dispatch, NextGoldenPath, StartCapture,
             Capture, Acknowledge, EndBatch, Wake, LoopFailure, Fail, ReceiveFails,
             AcknowledgeFails, aside
  <2>2. /\ \A k \in Loops : k # l => loop'[k] = loop[k]
        /\ loop[l].at # "none"
        /\ \/ loop'[l] = Ended /\ loop[l].aborted
           \/ /\ loop'[l].at # "none" /\ loop'[l].token = loop[l].token
              /\ loop'[l].aborted = loop[l].aborted
              /\ loop[l].health = "live" => loop'[l].health = "live"
    BY <1>13, LoopStaysInItsRole DEF IInv
  <2>3. \A k \in Loops : Live(k)' <=> Live(k)
    BY <1>3, <2>2 DEF Live
  <2>4. LoopsFine
    BY <1>1, <1>3, <2>1, <2>2, <2>3 DEF Live
  <2>5. \A k \in Loops : Live(k) => loop'[k].token = loop[k].token
    BY <2>2 DEF Live
  <2>6. PolledAsConfigured'
    BY <1>0, <1>1, <2>1, <2>3, <2>5 DEF PolledAsConfigured
  <2> QED
    BY <1>1, <1>2, <2>1, <2>4, <2>6
<1>14. ASSUME NEW r \in Routes, Reconcile(r)
       PROVE  ConsumerInv'
  <2>1. route' = [route EXCEPT ![r] = Idle] /\ UNCHANGED <<up, setting, reset>>
    BY <1>14 DEF Reconcile
  <2>2. RoutesFine
    BY <1>0, <1>1, <1>3, <2>1
  <2>3. CASE setting \in Unpolled
    <3>1. StopPolling /\ UNCHANGED current
      BY <1>14, <2>3 DEF Reconcile, ReconcilePolling
    <3>2. LoopsFine /\ \A k \in Loops : ~Live(k)'
      BY <1>6, <3>1
    <3>3. PolledAsConfigured'
      BY <2>1, <2>3, <3>2 DEF PolledAsConfigured
    <3> QED
      BY <1>2, <2>2, <3>2, <3>3
  <2>4. CASE setting \notin Unpolled /\ Starts
    <3>1. StartPolling(setting) /\ setting \in Tokens
      BY <1>0, <1>14, <2>4 DEF Reconcile, ReconcilePolling
    <3>2. /\ LoopsFine /\ current' \in Loops /\ Live(current)' /\ loop'[current'].token = setting
      BY <1>7, <3>1
    <3>3. PolledAsConfigured'
      BY <1>0, <2>1, <2>4, <3>2 DEF PolledAsConfigured
    <3> QED
      BY <1>2, <2>2, <3>2, <3>3
  <2>5. CASE setting \notin Unpolled /\ ~Starts
    <3>1. UNCHANGED <<loop, current>> /\ lapse' = IF loop[current].aborted THEN {"window"} ELSE {}
      BY <1>14, <2>5 DEF Reconcile, ReconcilePolling
    <3>2. current \in Loops /\ loop[current].health # "stopped" /\ loop[current].token = setting
      BY <1>0, <2>5 DEF Starts, Shown
    <3>3. lapse' = {} => Live(current)
      BY <1>1, <3>1, <3>2 DEF Live
    <3>4. PolledAsConfigured'
      BY <1>0, <2>1, <2>5, <3>1, <3>2, <3>3 DEF PolledAsConfigured, Live
    <3> QED
      BY <1>2, <1>8, <2>2, <3>1, <3>4
  <2> QED
    BY <2>3, <2>4, <2>5
<1>15. ASSUME NEW r \in Routes, Reconnect(r)
       PROVE  ConsumerInv'
  <2>1. /\ route[r].at = "reconnect" /\ route' = [route EXCEPT ![r].at = "sleep"]
        /\ StopPolling /\ UNCHANGED current
    BY <1>15 DEF Reconnect
  <2>2. route'[r].at = "sleep" /\ route'[r].token = route[r].token
        /\ \A q \in Routes : q # r => route'[q] = route[q]
    BY <1>0, <2>1 DEF RouteState
  <2>3. RoutesFine /\ route'[r] # Idle
    BY <1>1, <1>3, <2>1, <2>2
  <2> QED
    BY <1>2, <1>6, <1>9, <2>1, <2>3
<1>16. ASSUME NEW r \in Routes, StartAgain(r)
       PROVE  ConsumerInv'
  <2>1. /\ route[r].at = "sleep" /\ route' = [route EXCEPT ![r] = Idle]
        /\ StartPolling(route[r].token) /\ UNCHANGED setting
        /\ lapse' = {} => route[r].token = setting
    BY <1>16 DEF StartAgain
  <2>2. route[r].token \in Tokens
    BY <1>1, <2>1
  <2>3. /\ LoopsFine /\ current' \in Loops /\ Live(current)'
        /\ loop'[current'].token = route[r].token
    BY <1>7, <2>1, <2>2
  <2>4. RoutesFine
    BY <1>0, <1>1, <1>3, <2>1
  <2>5. PolledAsConfigured'
    BY <1>0, <2>1, <2>2, <2>3 DEF PolledAsConfigured
  <2> QED
    BY <1>2, <2>3, <2>4, <2>5
<1>17. CASE Configure
  <2>1. Opens(Reconciling) /\ UNCHANGED <<loop, current>>
    BY <1>17 DEF Configure, supervisor
  <2> QED
    BY <1>2, <1>8, <1>9, <1>11, <1>12, <2>1
<1>18. CASE AskReconnect
  <2> DEFINE request == [at |-> "reconnect", token |-> setting]
  <2>1. Opens(request) /\ UNCHANGED <<loop, current>> /\ setting \in Tokens
    BY <1>18 DEF AskReconnect, supervisor
  <2>2. request \in RouteState /\ request.at # "idle" /\ request.token \in Tokens
    BY <2>1 DEF RouteState
  <2>3. RoutesFine /\ \E r \in Routes : route'[r] # Idle
    BY <1>11, <2>1, <2>2
  <2> QED
    BY <1>2, <1>8, <1>9, <2>1, <2>3
<1>19. CASE BeginReset
  <2>1. StopPolling /\ UNCHANGED <<current, route>> /\ reset'
    BY <1>19 DEF BeginReset
  <2> QED
    BY <1>1, <1>2, <1>6, <1>9, <2>1
<1>20. CASE Reset
  <2>1. Opens(Reconciling)
    BY <1>20 DEF Reset
  <2>2. UNCHANGED <<loop, current>> \/ (StopPolling /\ current' = NoLoop)
    BY <1>20 DEF Reset
  <2>3. LoopsFine
    BY <1>6, <1>8, <2>2
  <2> QED
    BY <1>2, <1>9, <1>11, <1>12, <2>1, <2>3
<1>21. CASE Crash
  <2>1. /\ ~up' /\ loop' = [l \in Loops |-> Ended] /\ route' = [r \in Routes |-> Idle]
    BY <1>21 DEF Crash
  <2>2. LoopsFine /\ RoutesFine
    BY <1>3, <2>1 DEF Live
  <2> QED
    BY <1>2, <1>9, <2>1, <2>2
<1>22. CASE Restart
  <2>1. Opens(Reconciling) /\ UNCHANGED <<loop, current>>
    BY <1>22 DEF Restart, supervisor
  <2> QED
    BY <1>2, <1>8, <1>9, <1>11, <1>12, <2>1
<1>23. CASE WebhookStep \/ PushFails \/ PushUnwritten \/ TurnEnds \/ Arrive \/ WriteRelay
            \/ (\E id \in 1..(LastUpdate + 1) : OtherBot(id))
  BY <1>10, <1>23 DEF WebhookStep, Push, PushCaptured, PushAnswered, PushFails, PushUnwritten,
     TurnEnds, Arrive, OtherBot, WriteRelay, supervisor
<1> QED
  BY <1>10, <1>13, <1>14, <1>15, <1>16, <1>17, <1>18, <1>19, <1>20, <1>21, <1>22, <1>23
     DEF Next, RouteStep, vars, supervisor

\* A loop that waits for a slot keeps waiting until it dispatches or the process dies.
LEMMA HeldStays ==
  ASSUME IInv, [Next]_vars, NEW k \in Loops, loop[k].at = "chatSlot"
  PROVE  Dispatch(k) \/ Crash \/ (loop'[k].at = "chatSlot" /\ loop'[k].cur = loop[k].cur)
<1>0. /\ loop \in [Loops -> LoopState] /\ loop[k] \in LoopState
  BY DEF IInv, TypeOK
<1>1. Aborted(loop[k]).at = "chatSlot" /\ Aborted(loop[k]).cur = loop[k].cur
      /\ Aborted(loop[k]) \in LoopState
  BY <1>0, AbortedType DEF Aborted, LoopState
<1>2. Stopped(loop[k]).at = "chatSlot" /\ Stopped(loop[k]).cur = loop[k].cur
  BY <1>1 DEF Stopped, LoopState
<1>3. CASE \E l \in Loops : LoopStep(l) \/ LoopFailure(l)
  <2>1. PICK l \in Loops : LoopStep(l) \/ LoopFailure(l)
    BY <1>3
  <2>2. CASE l # k
    <3>1. loop'[k] = loop[k]
      BY <2>1, <2>2, LoopStaysInItsRole DEF IInv
    <3> QED
      BY <3>1
  <2>3. CASE l = k
    BY <2>1, <2>3 DEF LoopStep, Ask, Answer, Context, NextChat, NextGoldenPath, StartCapture,
       Capture, Acknowledge, EndBatch, Wake, LoopFailure, Fail, ReceiveFails, AcknowledgeFails, Takes
  <2> QED
    BY <2>2, <2>3
<1>4. CASE \E r \in Routes : RouteStep(r)
  <2>1. \/ StopPolling \/ UNCHANGED loop \/ \E token : StartPolling(token)
    BY <1>4 DEF RouteStep, Reconcile, Reconnect, StartAgain, ReconcilePolling
  <2>2. loop'[k] = loop[k] \/ loop'[k] = Aborted(loop[k]) \/ loop'[k] = Stopped(loop[k])
    BY <2>1 DEF StopPolling, StartPolling, Free
  <2> QED
    BY <1>1, <1>2, <2>2
<1>5. CASE BeginReset \/ Reset
  <2>1. StopPolling \/ UNCHANGED loop
    BY <1>5 DEF BeginReset, Reset
  <2>2. loop'[k] = loop[k] \/ loop'[k] = Stopped(loop[k])
    BY <2>1 DEF StopPolling
  <2> QED
    BY <1>2, <2>2
<1>6. CASE UNCHANGED loop
  BY <1>6
<1>7. CASE \/ Configure \/ AskReconnect \/ WebhookStep \/ PushFails \/ PushUnwritten
           \/ TurnEnds \/ Arrive \/ WriteRelay
           \/ (\E id \in 1..(LastUpdate + 1) : OtherBot(id)) \/ Restart
  <2>1. UNCHANGED loop
    BY <1>7 DEF Configure, AskReconnect, WebhookStep, Push, PushCaptured, PushAnswered, PushFails,
       PushUnwritten, TurnEnds, Arrive, OtherBot, WriteRelay, Restart, supervisor
  <2> QED
    BY <2>1
<1> QED
  BY <1>3, <1>4, <1>5, <1>6, <1>7 DEF Next, vars, supervisor

\* Only an update of a chat is dropped: one that waited for a slot, or whose write failed.
LEMMA LostStep ==
  ASSUME IInv, [Next]_vars
  PROVE  LostInv'
<1>1. LostInv /\ \A l \in Loops : loop[l].at = "chatSlot" => loop[l].cur \notin GoldenPath
  BY DEF IInv, NumbersInv, Bounded, Holding
<1>2. \/ UNCHANGED lost
      \/ \E l \in Loops : ReceiveFails(l)
      \/ PushUnwritten /\ ReceiveUnwritten(confirmed + 1) /\ confirmed + 1 \notin GoldenPath
      \/ Crash
  BY DEF Next, LoopStep, Ask, Answer, Context, NextChat, Dispatch, NextGoldenPath, StartCapture,
     Capture, Acknowledge, EndBatch, Wake, LoopFailure, Fail, AcknowledgeFails, RouteStep, Reconcile,
     Reconnect, StartAgain, Configure, AskReconnect, WebhookStep, Push, PushCaptured, PushAnswered,
     PushFails, PushUnwritten, TurnEnds, Arrive, OtherBot, WriteRelay, Restart, BeginReset, Reset,
     vars, handled
<1>3. CASE \E l \in Loops : ReceiveFails(l)
  BY <1>1, <1>3 DEF ReceiveFails, ReceiveUnwritten, LostInv
<1>4. CASE ReceiveUnwritten(confirmed + 1) /\ confirmed + 1 \notin GoldenPath
  BY <1>1, <1>4 DEF ReceiveUnwritten, LostInv
<1>5. CASE Crash
  BY <1>1, <1>5 DEF Crash, LostInv
<1> QED
  BY <1>1, <1>2, <1>3, <1>4, <1>5 DEF LostInv

\* What has been handled stays handled, or is excused or lost from then on.
LEMMA HandledGrows ==
  ASSUME IInv, [Next]_vars, NEW u \in Updates, Handled(u)
  PROVE  Handled(u)'
<1>0. dispatched \in [Updates -> Nat] /\ loop \in [Loops -> LoopState]
  BY DEF IInv, TypeOK
<1>1. excused \subseteq excused' /\ taken \subseteq taken' /\ lost \subseteq lost'
  BY DEF Next, LoopStep, Ask, Answer, Context, NextChat, Dispatch, NextGoldenPath, StartCapture,
     Capture, Acknowledge, EndBatch, Wake, LoopFailure, Fail, ReceiveFails, AcknowledgeFails,
     ReceiveUnwritten, Ignore, RouteStep, Reconcile, Reconnect, StartAgain, Configure, AskReconnect,
     WebhookStep, Push, PushCaptured, PushAnswered, PushFails, PushUnwritten, TurnEnds, Arrive,
     OtherBot, WriteRelay, Restart, BeginReset, Reset, Crash, vars, handled
<1>2. captured \subseteq captured' \cup excused'
  BY DEF Next, LoopStep, Ask, Answer, Context, NextChat, Dispatch, NextGoldenPath, StartCapture,
     Capture, Acknowledge, EndBatch, Wake, LoopFailure, Fail, ReceiveFails, AcknowledgeFails,
     ReceiveUnwritten, Ignore, RouteStep, Reconcile, Reconnect, StartAgain, Configure, AskReconnect,
     WebhookStep, Push, PushCaptured, PushAnswered, PushFails, PushUnwritten, TurnEnds, Arrive,
     OtherBot, WriteRelay, Restart, BeginReset, Reset, Crash, vars, handled
<1>3. \/ UNCHANGED dispatched
      \/ \E l \in Loops : Dispatch(l)
      \/ Push /\ dispatched' = [dispatched EXCEPT ![confirmed + 1] = @ + 1]
  BY DEF Next, LoopStep, Ask, Answer, Context, NextChat, NextGoldenPath, StartCapture,
     Capture, Acknowledge, EndBatch, Wake, LoopFailure, Fail, ReceiveFails, AcknowledgeFails,
     ReceiveUnwritten, Ignore, RouteStep, Reconcile, Reconnect, StartAgain, Configure, AskReconnect,
     WebhookStep, Push, PushCaptured, PushAnswered, PushFails, PushUnwritten, TurnEnds, Arrive,
     OtherBot, WriteRelay, Restart, BeginReset, Reset, Crash, vars, handled
<1>4. dispatched[u] > 0 => dispatched'[u] > 0
  <2>1. \/ UNCHANGED dispatched
        \/ \E v : dispatched' = [dispatched EXCEPT ![v] = @ + 1]
    BY <1>3 DEF Dispatch
  <2> QED
    BY <1>0, <2>1
<1>5. ASSUME u \notin GoldenPath, Held(u)
      PROVE  u \in lost' \/ dispatched'[u] > 0 \/ Held(u)'
  <2>1. PICK k \in Loops : loop[k].at = "chatSlot" /\ loop[k].cur = u
    BY <1>5 DEF Held
  <2>2. CASE Dispatch(k)
    <3>1. dispatched' = [dispatched EXCEPT ![u] = @ + 1]
      BY <2>1, <2>2 DEF Dispatch
    <3> QED
      BY <1>0, <3>1
  <2>3. CASE Crash
    BY <2>1, <2>3 DEF Crash
  <2>4. CASE loop'[k].at = "chatSlot" /\ loop'[k].cur = loop[k].cur
    BY <2>1, <2>4 DEF Held
  <2> QED
    BY <2>1, <2>2, <2>3, <2>4, HeldStays
<1> QED
  BY <1>1, <1>2, <1>4, <1>5 DEF Handled

\* Whatever is remembered, confirmed or left behind has been handled.
LEMMA HandledStep ==
  ASSUME IInv, [Next]_vars
  PROVE  HandledInv'
<1>0. /\ loop \in [Loops -> LoopState] /\ \A l \in Loops : Bounded(loop[l], arrived)
      /\ LastUpdate \in Nat /\ arrived \in Nat /\ arrived <= LastUpdate
      /\ confirmed \in Nat /\ confirmed <= arrived
      /\ dispatched \in [Updates -> Nat] /\ push.update \in Nat
  BY PollingAssumption DEF IInv, TypeOK, NumbersInv
<1>1. /\ \A u \in Updates : Recalled(u) \/ u <= confirmed => Handled(u)
      /\ \A l \in Loops : Behind(l)
      /\ push.at # "idle" => \A u \in Updates : u < push.update => Handled(u)
      /\ push.at = "captured" => Handled(push.update)
      /\ push.at # "idle" => push.update \in Updates /\ push.update \in GoldenPath
  BY <1>0 DEF IInv, HandledInv, NumbersInv, Updates
<1>2. \A u \in Updates : Handled(u) => Handled(u)'
  BY HandledGrows
<1>3. ASSUME Keeps
      PROVE  \A u \in Updates : Recalled(u)' => Handled(u)'
  BY <1>1, <1>2, <1>3, MemoryKept DEF IInv
<1>4. ASSUME NEW v \in Numbers, Adds(v), v \in Updates => Handled(v)'
      PROVE  \A u \in Updates : Recalled(u)' => Handled(u)'
  BY <1>1, <1>2, <1>4, MemoryAdds DEF IInv
<1>5. ASSUME UNCHANGED confirmed
      PROVE  \A u \in Updates : u <= confirmed' => Handled(u)'
  BY <1>1, <1>2, <1>5
<1>6. ASSUME push' = push \/ push' = NoPush
      PROVE  /\ push'.at # "idle" => \A u \in Updates : u < push'.update => Handled(u)'
             /\ push'.at = "captured" => Handled(push.update)'
  <2>1. push'.at # "idle" => push' = push
    BY <1>6 DEF NoPush
  <2>2. \A u \in Updates : push.at = "captured" /\ u = push.update => Handled(u)'
    BY <1>1, <1>2
  <2> QED
    BY <1>1, <1>2, <2>1, <2>2
<1>7. ASSUME NEW k \in Loops, loop'[k] = loop[k]
      PROVE  Behind(k)'
  <2>1. \A u \in Updates : u < loop'[k].offset \/ (loop'[k].at # "none" /\ u < loop'[k].cur)
                          => Handled(u)'
    BY <1>1, <1>2, <1>7 DEF Behind
  <2>2. loop'[k].at = "captured" => Handled(loop[k].cur)'
    <3>1. loop[k].at = "captured" => loop[k].cur \in Updates
      BY <1>0 DEF Bounded, Holding, LoopState, Updates
    <3>2. loop[k].at = "captured" => Handled(loop[k].cur)
      BY <1>1 DEF Behind
    <3> QED
      BY <1>2, <1>7, <3>1, <3>2
  <2> QED
    BY <2>1, <2>2 DEF Behind
<1>8. ASSUME NEW k \in Loops,
             loop'[k].offset = loop[k].offset, loop'[k].cur \in Nat, loop[k].at # "none",
             loop'[k].cur <= loop[k].cur \/ loop'[k].cur <= confirmed + 1,
             loop'[k].at = "captured" => loop'[k] = loop[k] \/ loop'[k].cur \in captured'
      PROVE  Behind(k)'
  <2>0. loop[k].cur \in Nat /\ loop[k].offset \in Nat
    BY <1>0 DEF LoopState
  <2>1. \A u \in Updates : u < loop'[k].offset \/ (loop'[k].at # "none" /\ u < loop'[k].cur)
                          => Handled(u)'
    <3>1. ASSUME NEW u \in Updates, u < loop'[k].offset \/ u < loop'[k].cur
          PROVE  u < loop[k].offset \/ u < loop[k].cur \/ u <= confirmed
      BY <1>0, <1>8, <2>0, <3>1 DEF Updates
    <3> QED
      BY <1>1, <1>2, <1>8, <3>1 DEF Behind
  <2>2. CASE loop'[k] = loop[k]
    BY <1>7, <2>2
  <2>3. CASE loop'[k] # loop[k]
    <3>1. loop'[k].at = "captured" => loop'[k].cur \in captured'
      BY <1>8, <2>3
    <3>2. captured' \subseteq GoldenPath
      BY TypeStep DEF TypeOK
    <3> QED
      BY <2>1, <3>1, <3>2 DEF Behind, Handled
  <2> QED
    BY <2>2, <2>3
<1>9. ASSUME NEW k \in Loops, loop'[k].offset = 0, loop'[k].cur = 0, loop'[k].at # "captured"
      PROVE  Behind(k)'
  <2>1. \A u \in Updates : ~(u < 0)
    BY DEF Updates
  <2> QED
    BY <1>9, <2>1 DEF Behind
<1>20. ASSUME NEW k \in Loops, loop'[k] = Ended \/ \E token \in Tokens : loop'[k] = Fresh(token)
       PROVE  Behind(k)'
  <2>1. loop'[k].offset = 0 /\ loop'[k].cur = 0 /\ loop'[k].at # "captured"
    <3>1. /\ Ended.offset = 0 /\ Ended.cur = 0 /\ Ended.at = "none"
          /\ \A token \in Tokens : /\ Fresh(token).offset = 0 /\ Fresh(token).cur = 0
                                  /\ Fresh(token).at = "poll"
      BY DEF Ended, Fresh
    <3> QED
      BY <1>20, <3>1
  <2> QED
    BY <1>9, <2>1
<1>10. ASSUME NEW k \in Loops, loop'[k] = Aborted(loop[k]) \/ loop'[k] = Stopped(loop[k])
       PROVE  Behind(k)'
  <2>1. CASE loop[k].at \in {"none", "poll", "asked", "backoff"}
    <3>1. loop'[k] = Ended \/ loop'[k] = [Ended EXCEPT !.health = "stopped"]
      BY <1>10, <2>1 DEF Aborted, Stopped
    <3>2. loop'[k].offset = 0 /\ loop'[k].cur = 0 /\ loop'[k].at # "captured"
      BY <3>1 DEF Ended, Fresh
    <3> QED
      BY <1>9, <3>2
  <2>2. CASE loop[k].at \notin {"none", "poll", "asked", "backoff"}
    <3>1. /\ loop'[k].at = loop[k].at /\ loop'[k].cur = loop[k].cur
          /\ loop'[k].offset = loop[k].offset
      BY <1>0, <1>10, <2>2 DEF Aborted, Stopped, LoopState
    <3>2. loop[k].at = "captured" => loop[k].cur \in Updates
      BY <1>0 DEF Bounded, Holding, LoopState, Updates
    <3> QED
      BY <1>1, <1>2, <3>1, <3>2 DEF Behind
  <2> QED
    BY <2>1, <2>2
<1>11. ASSUME NEW l \in Loops, LoopStep(l) \/ LoopFailure(l)
       PROVE  HandledInv'
  <2>0. loop[l] \in LoopState /\ Bounded(loop[l], arrived) /\ loop[l].cur \in Nat
        /\ loop[l].last \in Nat /\ loop[l].offset \in Nat
    BY <1>0 DEF LoopState
  <2>1. UNCHANGED push
    BY <1>11 DEF LoopStep, Ask, Answer, Context, NextChat, Dispatch, NextGoldenPath, StartCapture,
             Capture, Acknowledge, EndBatch, Wake, LoopFailure, Fail, ReceiveFails,
             AcknowledgeFails, aside
  <2>2. loop[l].at # "none" /\ \A k \in Loops : k # l => loop'[k] = loop[k]
    BY <1>11, LoopStaysInItsRole DEF IInv
  <2>3. ASSUME Behind(l)', \A u \in Updates : Recalled(u)' => Handled(u)',
               \A u \in Updates : u <= confirmed' => Handled(u)'
        PROVE  HandledInv'
    BY <1>6, <1>7, <2>1, <2>2, <2>3 DEF HandledInv
  <2>4. loop[l].at \in Holding => loop[l].cur \in Updates /\ loop[l].cur \in Numbers
    BY <1>0, <2>0 DEF Bounded, Updates, Numbers
  <2>5. ASSUME Past(l), loop[l].cur \in Updates,
               \A u \in Updates : u = loop[l].cur => Handled(u)'
        PROVE  Behind(l)'
    <3>1. loop'[l] = [loop[l] EXCEPT !.at = "batch", !.offset = loop[l].cur + 1,
                                    !.cur = loop[l].cur + 1]
      BY <1>0, <2>5 DEF Past
    <3>2. /\ loop'[l].at = "batch" /\ loop'[l].offset = loop[l].cur + 1
          /\ loop'[l].cur = loop[l].cur + 1
      BY <2>0, <3>1 DEF LoopState
    <3>3. ASSUME NEW u \in Updates, u < loop[l].cur + 1
          PROVE  Handled(u)'
      <4>1. u < loop[l].cur \/ u = loop[l].cur
        BY <2>0, <3>3 DEF Updates
      <4> QED
        BY <1>1, <1>2, <2>2, <2>5, <4>1 DEF Behind
    <3> QED
      BY <3>2, <3>3 DEF Behind
  <2>6. ASSUME NEW place \in Place, At(l, place), place # "captured" \/ loop[l].cur \in captured'
        PROVE  Behind(l)'
    <3>1. loop'[l] = [loop[l] EXCEPT !.at = place]
      BY <1>0, <2>6 DEF At
    <3>2. loop'[l].at = place /\ loop'[l].cur = loop[l].cur /\ loop'[l].offset = loop[l].offset
      BY <2>0, <3>1 DEF LoopState
    <3> QED
      BY <1>8, <2>0, <2>2, <2>6, <3>2
  <2>7. ASSUME NEW state \in LoopState, state.offset = loop[l].offset, NEW place \in Place,
               place # "captured", loop'[l] = Ended \/ loop'[l] = Between(state, place)
        PROVE  Behind(l)'
    <3>1. CASE loop'[l] = Ended
      BY <1>20, <3>1
    <3>2. CASE loop'[l] = Between(state, place)
      <4>1. loop'[l].at = place /\ loop'[l].cur = 0 /\ loop'[l].offset = loop[l].offset
        BY <2>7, <3>2 DEF Between, LoopState
      <4> QED
        BY <1>8, <2>0, <2>2, <2>7, <4>1
    <3> QED
      BY <2>7, <3>1, <3>2
  <2>8. [loop[l] EXCEPT !.health = "live"] \in LoopState
        /\ [loop[l] EXCEPT !.health = "live"].offset = loop[l].offset
    BY <2>0 DEF LoopState
  <2>9. ASSUME Ignore(l, loop[l].cur), loop[l].cur \in Updates, Ignores(l, loop[l].cur)
        PROVE  Behind(l)' /\ \A u \in Updates : Recalled(u)' => Handled(u)'
    <3>1. \A u \in Updates : u = loop[l].cur => Handled(u)'
      <4>1. CASE Known(loop[l].cur)
        BY <1>1, <1>2, <2>9, <4>1 DEF Recalled
      <4>2. CASE ~Known(loop[l].cur)
        BY <2>9, <4>2 DEF Ignore, Handled
      <4> QED
        BY <4>1, <4>2
    <3>2. Keeps
      BY <2>9 DEF Ignore, Keeps
    <3> QED
      BY <1>3, <2>5, <2>9, <3>1, <3>2 DEF Ignore
  <2>10. CASE Ask(l)
    <3>1. ASSUME NEW u \in Updates, u <= confirmed'
          PROVE  Handled(u)'
      <4>1. u <= confirmed \/ u < loop[l].offset
        BY <1>0, <2>0, <2>10, <3>1 DEF Ask, Confirms, Updates
      <4> QED
        BY <1>1, <1>2, <4>1 DEF Behind
    <3>2. Keeps /\ At(l, "asked")
      BY <2>10 DEF Ask, Keeps
    <3> QED
      BY <1>3, <2>3, <2>6, <3>1, <3>2 DEF Place
  <2>11. CASE Answer(l)
    <3>1. loop'[l] = [loop[l] EXCEPT !.at = "context", !.cur = confirmed + 1, !.last = arrived]
      BY <1>0, <2>11 DEF Answer
    <3>2. /\ loop'[l].at = "context" /\ loop'[l].cur = confirmed + 1
          /\ loop'[l].offset = loop[l].offset
      BY <2>0, <3>1 DEF LoopState
    <3>3. Keeps /\ UNCHANGED confirmed
      BY <2>11 DEF Answer, Keeps, telegram
    <3>4. confirmed + 1 \in Nat /\ confirmed + 1 <= confirmed + 1
      BY <1>0
    <3>5. Behind(l)'
      BY <1>8, <2>2, <3>2, <3>4
    <3> QED
      BY <1>3, <1>5, <2>3, <3>3, <3>5
  <2>12. CASE Context(l)
    <3> DEFINE state == [loop[l] EXCEPT !.bound = setting # Inactive]
    <3>1. loop'[l] = IF state.cur > state.last THEN Between([state EXCEPT !.health = "live"], "pause")
                     ELSE [state EXCEPT !.at = "batch"]
      BY <1>0, <2>12 DEF Context
    <3>2. Keeps /\ UNCHANGED confirmed
      BY <2>12 DEF Context, Keeps, telegram
    <3>3. CASE loop'[l] = Between([state EXCEPT !.health = "live"], "pause")
      <4>1. [state EXCEPT !.health = "live"] \in LoopState
            /\ [state EXCEPT !.health = "live"].offset = loop[l].offset
        BY <2>0 DEF LoopState
      <4>2. Behind(l)'
        BY <2>7, <3>3, <4>1 DEF Place
      <4> QED
        BY <1>3, <1>5, <2>3, <3>2, <4>2
    <3>4. CASE loop'[l] = [state EXCEPT !.at = "batch"]
      <4>1. /\ loop'[l].at = "batch" /\ loop'[l].cur = loop[l].cur
            /\ loop'[l].offset = loop[l].offset
        BY <2>0, <3>4 DEF LoopState
      <4>2. Behind(l)'
        BY <1>8, <2>0, <2>2, <4>1
      <4> QED
        BY <1>3, <1>5, <2>3, <3>2, <4>2
    <3> QED
      BY <3>1, <3>3, <3>4
  <2>13. CASE NextChat(l)
    <3>1. loop[l].cur \in Updates /\ loop[l].cur \in Numbers /\ loop[l].cur \notin GoldenPath
      BY <1>0, <2>0, <2>13 DEF NextChat, Takes, Bounded, Holding, Updates, Numbers
    <3>2. UNCHANGED confirmed
      BY <2>13 DEF NextChat, telegram
    <3>3. CASE Ignores(l, loop[l].cur)
      BY <1>5, <2>3, <2>9, <2>13, <3>1, <3>2, <3>3 DEF NextChat
    <3>4. CASE ~Ignores(l, loop[l].cur)
      <4>1. Adds(loop[l].cur) /\ At(l, "chatSlot")
        BY <2>13, <3>4 DEF NextChat, Receive, Adds
      <4>2. loop'[l].at = "chatSlot" /\ loop'[l].cur = loop[l].cur
        BY <1>0, <2>0, <4>1 DEF At, LoopState
      <4>3. \A u \in Updates : u = loop[l].cur => Handled(u)'
        BY <3>1, <4>2 DEF Handled, Held
      <4>4. Behind(l)'
        BY <2>6, <4>1 DEF Place
      <4> QED
        BY <1>4, <1>5, <2>3, <3>1, <3>2, <4>1, <4>3, <4>4
    <3> QED
      BY <3>3, <3>4
  <2>14. CASE Dispatch(l)
    <3>1. Keeps /\ UNCHANGED confirmed /\ Past(l) /\ loop[l].cur \in Updates
          /\ loop[l].cur \notin GoldenPath
      BY <2>0, <2>4, <2>14 DEF Dispatch, Keeps, telegram, Bounded, Holding
    <3>2. dispatched'[loop[l].cur] > 0
      BY <1>0, <2>14, <3>1 DEF Dispatch
    <3>3. \A u \in Updates : u = loop[l].cur => Handled(u)'
      BY <3>1, <3>2 DEF Handled
    <3> QED
      BY <1>3, <1>5, <2>3, <2>5, <3>1, <3>3
  <2>15. CASE NextGoldenPath(l)
    <3>1. Keeps /\ UNCHANGED confirmed /\ At(l, "goldenSlot")
      BY <2>15 DEF NextGoldenPath, Keeps, telegram
    <3>2. Behind(l)'
      BY <2>6, <3>1 DEF Place
    <3> QED
      BY <1>3, <1>5, <2>3, <3>1, <3>2
  <2>16. CASE StartCapture(l)
    <3>1. loop[l].cur \in Updates /\ UNCHANGED confirmed
      BY <2>4, <2>16 DEF StartCapture, telegram, Holding
    <3>2. CASE Ignores(l, loop[l].cur)
      BY <1>5, <2>3, <2>9, <2>16, <3>1, <3>2 DEF StartCapture
    <3>3. CASE ~Ignores(l, loop[l].cur)
      <4>1. At(l, "capture") /\ Keeps
        BY <2>16, <3>3 DEF StartCapture, Keeps
      <4>2. Behind(l)'
        BY <2>6, <4>1 DEF Place
      <4> QED
        BY <1>3, <1>5, <2>3, <3>1, <4>1, <4>2
    <3> QED
      BY <3>2, <3>3
  <2>17. CASE Capture(l)
    <3>1. Keeps /\ UNCHANGED confirmed /\ At(l, "captured") /\ loop[l].cur \in captured'
      BY <2>17 DEF Capture, Keeps, telegram
    <3>2. Behind(l)'
      BY <2>6, <3>1 DEF Place
    <3> QED
      BY <1>3, <1>5, <2>3, <3>1, <3>2
  <2>18. CASE Acknowledge(l)
    <3>1. /\ loop[l].at = "captured" /\ loop[l].cur \in Updates /\ loop[l].cur \in Numbers
          /\ UNCHANGED confirmed /\ Past(l) /\ Adds(loop[l].cur)
      BY <2>4, <2>18 DEF Acknowledge, Adds, telegram, Holding
    <3>2. \A u \in Updates : u = loop[l].cur => Handled(u)'
      BY <1>1, <1>2, <3>1 DEF Behind
    <3> QED
      BY <1>4, <1>5, <2>3, <2>5, <3>1, <3>2
  <2>19. CASE EndBatch(l)
    <3>1. /\ Continues(l, [loop[l] EXCEPT !.health = "live"])
          /\ Keeps /\ UNCHANGED confirmed
      BY <2>19 DEF EndBatch, Keeps, telegram
    <3>2. loop'[l] = Ended \/ loop'[l] = Between([loop[l] EXCEPT !.health = "live"], "poll")
      BY <1>0, <3>1 DEF Continues
    <3>3. Behind(l)'
      BY <2>7, <2>8, <3>2 DEF Place
    <3> QED
      BY <1>3, <1>5, <2>3, <3>1, <3>3
  <2>20. CASE Wake(l)
    <3>1. Continues(l, loop[l]) /\ Keeps /\ UNCHANGED confirmed
      BY <2>20 DEF Wake, Keeps, telegram
    <3>2. loop'[l] = Ended \/ loop'[l] = Between(loop[l], "poll")
      BY <1>0, <3>1 DEF Continues
    <3>3. Behind(l)'
      BY <2>0, <2>7, <3>2 DEF Place
    <3> QED
      BY <1>3, <1>5, <2>3, <3>1, <3>3
  <2>21. CASE LoopFailure(l)
    <3>1. loop' = [loop EXCEPT ![l] = Failed(loop[l])] /\ UNCHANGED confirmed
      BY <2>21 DEF LoopFailure, Fail, ReceiveFails, AcknowledgeFails, Fails, telegram
    <3>2. loop'[l] = Ended \/ loop'[l] = Between([loop[l] EXCEPT !.health = "live"], "backoff")
      BY <1>0, <3>1 DEF Failed
    <3>3. Behind(l)'
      BY <2>7, <2>8, <3>2 DEF Place
    <3>4. CASE Fail(l)
      <4>1. Keeps
        BY <3>4 DEF Fail, Keeps
      <4> QED
        BY <1>3, <1>5, <2>3, <3>1, <3>3, <4>1
    <3>5. CASE ReceiveFails(l)
      <4>1. loop[l].cur \in Numbers /\ Adds(loop[l].cur) /\ loop[l].cur \in lost'
        BY <1>0, <2>0, <3>5 DEF ReceiveFails, ReceiveUnwritten, Takes, Adds, Bounded, Holding, Numbers
      <4>2. \A u \in Updates : Recalled(u)' => Handled(u)'
        <5>1. \A u \in Updates : u = loop[l].cur => Handled(u)'
          BY <4>1 DEF Handled
        <5> QED
          BY <1>1, <1>2, <4>1, <5>1, MemoryAdds DEF IInv
      <4> QED
        BY <1>5, <2>3, <3>1, <3>3, <4>2
    <3>6. CASE AcknowledgeFails(l)
      <4>1. /\ loop[l].at = "captured" /\ loop[l].cur \in Updates /\ loop[l].cur \in Numbers
            /\ Adds(loop[l].cur)
        BY <2>4, <3>6 DEF AcknowledgeFails, Adds, Holding
      <4>2. \A u \in Updates : u = loop[l].cur => Handled(u)'
        BY <1>1, <1>2, <4>1 DEF Behind
      <4> QED
        BY <1>4, <1>5, <2>3, <3>1, <3>3, <4>1, <4>2
    <3> QED
      BY <2>21, <3>4, <3>5, <3>6 DEF LoopFailure
  <2> QED
    BY <1>11, <2>10, <2>11, <2>12, <2>13, <2>14, <2>15, <2>16, <2>17, <2>18, <2>19, <2>20, <2>21
       DEF LoopStep
<1>12. ASSUME UNCHANGED confirmed, push' = push \/ push' = NoPush,
              \A u \in Updates : Recalled(u)' => Handled(u)',
              \/ UNCHANGED loop \/ StopPolling \/ (\E token \in Tokens : StartPolling(token))
              \/ loop' = [l \in Loops |-> Ended]
       PROVE  HandledInv'
  <2>1. \A k \in Loops : loop'[k] \in {loop[k], Aborted(loop[k]), Stopped(loop[k]), Ended}
                         \/ \E token \in Tokens : loop'[k] = Fresh(token)
    BY <1>12 DEF StopPolling, StartPolling
  <2>2. \A k \in Loops : Behind(k)'
    BY <1>7, <1>20, <1>10, <2>1
  <2> QED
    BY <1>5, <1>6, <1>12, <2>2 DEF HandledInv
<1>13. ASSUME NEW r \in Routes, RouteStep(r)
       PROVE  HandledInv'
  <2>1. Keeps /\ UNCHANGED <<confirmed, push>>
    BY <1>13 DEF RouteStep, Reconcile, Reconnect, StartAgain, telegram, Keeps
  <2>2. \/ StopPolling \/ UNCHANGED loop \/ \E token \in Tokens : StartPolling(token)
    BY <1>13 DEF RouteStep, Reconcile, Reconnect, StartAgain, ReconcilePolling, IInv, TypeOK,
                 ConsumerInv
  <2> QED
    BY <1>3, <1>12, <2>1, <2>2
<1>14. CASE \/ Configure \/ AskReconnect \/ PushFails \/ TurnEnds \/ BeginReset
            \/ Restart \/ Arrive \/ WriteRelay \/ UNCHANGED vars
  <2>1. /\ Keeps /\ UNCHANGED confirmed /\ (push' = push \/ push' = NoPush)
        /\ UNCHANGED loop \/ StopPolling
    BY <1>14 DEF Configure, AskReconnect, PushFails, TurnEnds, BeginReset, Restart, Arrive,
       WriteRelay, vars, telegram, Keeps, supervisor
  <2> QED
    BY <1>3, <1>12, <2>1
<1>21. CASE Crash
  <2>1. /\ processed' = stored /\ UNCHANGED <<stored, confirmed>> /\ push' = NoPush
        /\ loop' = [l \in Loops |-> Ended]
    BY <1>21 DEF Crash, telegram
  <2>2. \A u \in Updates : Recalled(u)' => Recalled(u)
    BY <2>1 DEF Recalled, Known, Stored
  <2> QED
    BY <1>1, <1>2, <1>12, <2>1, <2>2
<1>22. CASE PushUnwritten
  <2>1. UNCHANGED <<loop, confirmed>> /\ (push' = push \/ push' = NoPush)
    BY <1>22 DEF PushUnwritten, supervisor, telegram
  <2>2. CASE ReceiveUnwritten(confirmed + 1) /\ Pushes
    <3>1. confirmed + 1 \in Numbers /\ Adds(confirmed + 1) /\ confirmed + 1 \in lost'
      BY <1>0, <2>2 DEF ReceiveUnwritten, Pushes, Adds, Numbers
    <3>2. \A u \in Updates : Recalled(u)' => Handled(u)'
      <4>1. \A u \in Updates : u = confirmed + 1 => Handled(u)'
        BY <3>1 DEF Handled
      <4> QED
        BY <1>1, <1>2, <3>1, <4>1, MemoryAdds DEF IInv
    <3> QED
      BY <1>12, <2>1, <3>2
  <2>3. CASE push.at = "captured" /\ Memorize(push.update) /\ UNCHANGED stored
    <3>1. push.update \in Updates /\ push.update \in Numbers /\ Adds(push.update)
      BY <1>0, <1>1, <2>3 DEF Updates, Numbers, Adds
    <3>2. \A u \in Updates : u = push.update => Handled(u)'
      BY <1>1, <1>2, <2>3
    <3>3. \A u \in Updates : Recalled(u)' => Handled(u)'
      BY <1>1, <1>2, <3>1, <3>2, MemoryAdds DEF IInv
    <3> QED
      BY <1>12, <2>1, <3>3
  <2> QED
    BY <1>22, <2>2, <2>3 DEF PushUnwritten
<1>15. CASE Reset
  <2>1. /\ UNCHANGED <<confirmed, push>>
        /\ Keeps \/ (processed' = <<>> /\ stored' = <<>>)
        /\ UNCHANGED loop \/ StopPolling
    BY <1>15 DEF Reset, telegram, Keeps
  <2>2. processed' = <<>> /\ stored' = <<>> => \A u \in Updates : ~Recalled(u)'
    BY DEF Recalled, Known, Stored, Range
  <2> QED
    BY <1>3, <1>12, <2>1, <2>2
<1>16. CASE Push
  <2> DEFINE u == confirmed + 1
  <2>1. u \in Updates /\ u \in Numbers /\ u \in Nat /\ \A v \in Updates : v < u <=> v <= confirmed
    BY <1>0, <1>16 DEF Push, Pushes, Updates, Numbers
  <2>2. \A k \in Loops : Behind(k)'
    BY <1>7, <1>16 DEF Push, supervisor
  <2>3. CASE Known(u) /\ Record /\ confirmed' = u /\ UNCHANGED push
    <3>1. \A v \in Updates : v <= u => Handled(v)'
      <4>1. \A v \in Updates : v <= u => v < u \/ v = u
        BY <2>1 DEF Updates
      <4> QED
        BY <1>1, <1>2, <2>1, <2>3, <4>1 DEF Recalled
    <3>2. Keeps
      BY <2>3 DEF Keeps
    <3> QED
      BY <1>3, <1>6, <2>2, <2>3, <3>1, <3>2 DEF HandledInv
  <2>4. CASE push' = [at |-> "capture", update |-> u] /\ Record /\ UNCHANGED confirmed
    <3>1. \A v \in Updates : v < u => Handled(v)'
      BY <1>1, <1>2, <2>1
    <3>2. Keeps
      BY <2>4 DEF Keeps
    <3> QED
      BY <1>3, <1>5, <2>2, <2>4, <3>1, <3>2 DEF HandledInv
  <2>5. CASE /\ Receive(u) /\ confirmed' = u /\ UNCHANGED push /\ u \notin GoldenPath
             /\ dispatched' = [dispatched EXCEPT ![u] = @ + 1]
    <3>1. dispatched'[u] > 0
      BY <1>0, <2>1, <2>5
    <3>2. \A v \in Updates : v = u => Handled(v)'
      BY <2>1, <2>5, <3>1 DEF Handled
    <3>3. \A v \in Updates : v <= u => Handled(v)'
      <4>1. \A v \in Updates : v <= u => v < u \/ v = u
        BY <2>1 DEF Updates
      <4> QED
        BY <1>1, <1>2, <2>1, <3>2, <4>1
    <3> QED
      <4>1. \A v \in Updates : Recalled(v)' => Handled(v)'
        BY <1>4, <2>1, <2>5, <3>2 DEF Receive, Adds
      <4> QED
        BY <1>6, <2>2, <2>5, <3>3, <4>1 DEF HandledInv
  <2> QED
    BY <1>16, <2>3, <2>4, <2>5 DEF Push
<1>17. CASE PushCaptured
  <2>1. /\ push.at = "capture" /\ push' = [push EXCEPT !.at = "captured"]
        /\ push.update \in captured' /\ Keeps /\ UNCHANGED <<loop, confirmed>>
    BY <1>17 DEF PushCaptured, supervisor, telegram, Keeps
  <2>2. push'.update = push.update
    BY <2>1 DEF IInv, TypeOK
  <2>3. Handled(push.update)'
    BY <1>1, <2>1, <2>2 DEF Handled
  <2> QED
    BY <1>1, <1>2, <1>3, <1>5, <1>7, <2>1, <2>2, <2>3 DEF HandledInv
<1>18. CASE PushAnswered
  <2>1. /\ push.at = "captured" /\ Adds(push.update) /\ push' = NoPush /\ UNCHANGED loop
        /\ confirmed' = IF push.update > confirmed THEN push.update ELSE confirmed
    BY <1>18 DEF PushAnswered, Adds, supervisor
  <2>2. push.update \in Updates /\ push.update \in Numbers
    BY <1>0, <1>1, <2>1 DEF Updates, Numbers
  <2>3. \A u \in Updates : u <= confirmed' => Handled(u)'
    <3>1. ASSUME NEW u \in Updates, u <= confirmed'
          PROVE  u <= confirmed \/ u < push.update \/ u = push.update
      BY <1>0, <2>1, <3>1 DEF Updates
    <3> QED
      BY <1>1, <1>2, <2>1, <3>1
  <2>4. \A u \in Updates : u = push.update => Handled(u)'
    BY <1>1, <1>2, <2>1
  <2>5. \A u \in Updates : Recalled(u)' => Handled(u)'
    BY <1>4, <2>1, <2>2, <2>4
  <2> QED
    BY <1>6, <1>7, <2>1, <2>3, <2>5 DEF HandledInv
<1>19. ASSUME NEW id \in 1..(LastUpdate + 1), OtherBot(id)
       PROVE  HandledInv'
  <2>1. /\ Adds(id) /\ taken' = taken \cup ({id} \cap Updates)
        /\ UNCHANGED <<loop, confirmed, push>>
    BY <1>19 DEF OtherBot, Adds, supervisor, telegram
  <2>2. id \in Updates => Handled(id)'
    BY <2>1 DEF Handled
  <2>3. \A u \in Updates : Recalled(u)' => Handled(u)'
    BY <1>4, <2>1, <2>2 DEF Numbers
  <2> QED
    BY <1>12, <2>1, <2>3
<1> QED
  BY <1>11, <1>13, <1>14, <1>15, <1>16, <1>17, <1>18, <1>19, <1>21, <1>22 DEF Next, WebhookStep

\* The supervisor puts no loop before a slot.
LEMMA StillWaits ==
  ASSUME IInv, NEW k \in Loops, loop'[k].at = "chatSlot",
         \/ UNCHANGED loop \/ StopPolling \/ (\E token : StartPolling(token))
         \/ loop' = [l \in Loops |-> Ended]
  PROVE  loop[k].at = "chatSlot" /\ loop'[k].cur = loop[k].cur
<1>0. /\ loop \in [Loops -> LoopState] /\ loop[k] \in LoopState
  BY DEF IInv, TypeOK
<1>1. Ended.at # "chatSlot" /\ \A token : Fresh(token).at # "chatSlot"
  BY DEF Ended, Fresh
<1>2. ASSUME Aborted(loop[k]).at = "chatSlot"
      PROVE  Aborted(loop[k]).cur = loop[k].cur /\ loop[k].at = "chatSlot"
  BY <1>0, <1>1, <1>2 DEF Aborted, LoopState
<1>3. ASSUME Stopped(loop[k]).at = "chatSlot"
      PROVE  Stopped(loop[k]).cur = loop[k].cur /\ loop[k].at = "chatSlot"
  <2>1. Aborted(loop[k]) \in LoopState
    BY <1>0, AbortedType
  <2>2. Stopped(loop[k]).cur = Aborted(loop[k]).cur /\ Stopped(loop[k]).at = Aborted(loop[k]).at
    BY <2>1 DEF Stopped, LoopState
  <2> QED
    BY <1>2, <1>3, <2>2
<1>4. \/ loop'[k] \in {loop[k], Aborted(loop[k]), Stopped(loop[k]), Ended}
      \/ \E token : loop'[k] = Fresh(token)
  BY DEF StopPolling, StartPolling
<1> QED
  BY <1>1, <1>2, <1>3, <1>4

\* A loop waits for a slot only with the update it waited with before, or received.
LEMMA WaitingBefore ==
  ASSUME IInv, [Next]_vars, NEW k \in Loops, loop'[k].at = "chatSlot"
  PROVE  NextChat(k) \/ (loop[k].at = "chatSlot" /\ loop'[k].cur = loop[k].cur)
<1>0. /\ loop \in [Loops -> LoopState] /\ loop[k] \in LoopState
  BY DEF IInv, TypeOK
<1>1. Ended.at # "chatSlot" /\ \A token : Fresh(token).at # "chatSlot"
  BY DEF Ended, Fresh
<1>2. CASE \E l \in Loops : LoopStep(l) \/ LoopFailure(l)
  <2>1. PICK l \in Loops : LoopStep(l) \/ LoopFailure(l)
    BY <1>2
  <2>2. CASE l # k
    <3>1. loop'[k] = loop[k]
      BY <2>1, <2>2, LoopStaysInItsRole DEF IInv
    <3> QED
      BY <3>1
  <2>3. CASE l = k
    <3>1. ASSUME NEW place \in Place \ {"chatSlot"}, At(k, place)
          PROVE  FALSE
      <4>1. loop'[k] = [loop[k] EXCEPT !.at = place]
        BY <1>0, <3>1 DEF At
      <4> QED
        BY <1>0, <4>1 DEF LoopState
    <3>2. ASSUME Past(k)
          PROVE  FALSE
      <4>1. loop'[k] = [loop[k] EXCEPT !.at = "batch", !.offset = loop[k].cur + 1,
                                      !.cur = loop[k].cur + 1]
        BY <1>0, <3>2 DEF Past
      <4> QED
        BY <1>0, <4>1 DEF LoopState
    <3>3. ASSUME NEW state \in LoopState, NEW place \in Place \ {"chatSlot"},
                 loop'[k] = Ended \/ loop'[k] = Between(state, place)
          PROVE  FALSE
      BY <1>1, <3>3 DEF Between, LoopState
    <3>4. [loop[k] EXCEPT !.health = "live"] \in LoopState
      BY <1>0 DEF LoopState
    <3>5. ~Answer(k)
      <4>1. ASSUME Answer(k) PROVE FALSE
        <5>1. loop'[k] = [loop[k] EXCEPT !.at = "context", !.cur = confirmed + 1, !.last = arrived]
          BY <1>0, <4>1 DEF Answer
        <5> QED
          BY <1>0, <5>1 DEF LoopState
      <4> QED
        BY <4>1
    <3>6. ~Context(k)
      <4>1. ASSUME Context(k) PROVE FALSE
        <5> DEFINE state == [loop[k] EXCEPT !.bound = setting # Inactive]
        <5>1. loop'[k] = Between([state EXCEPT !.health = "live"], "pause")
              \/ loop'[k] = [state EXCEPT !.at = "batch"]
          BY <1>0, <4>1 DEF Context
        <5>2. [state EXCEPT !.at = "batch"].at = "batch"
          BY <1>0 DEF LoopState
        <5>3. [state EXCEPT !.health = "live"] \in LoopState
          BY <1>0 DEF LoopState
        <5> QED
          BY <3>3, <5>1, <5>2, <5>3 DEF Place
      <4> QED
        BY <4>1
    <3>7. ~EndBatch(k) /\ ~Wake(k) /\ ~LoopFailure(k)
      <4>1. ASSUME EndBatch(k) \/ Wake(k) \/ LoopFailure(k)
            PROVE  \E state \in LoopState, place \in {"poll", "backoff"} :
                     loop'[k] = Ended \/ loop'[k] = Between(state, place)
        BY <1>0, <3>4, <4>1 DEF EndBatch, Wake, LoopFailure, Fail, ReceiveFails, AcknowledgeFails,
             Fails, Failed, Continues
      <4> QED
        BY <3>3, <4>1 DEF Place
    <3> QED
      BY <2>1, <2>3, <3>1, <3>2, <3>5, <3>6, <3>7 DEF LoopStep, Ask, Dispatch, NextGoldenPath,
         StartCapture, Ignore, Capture, Acknowledge, Place
  <2> QED
    BY <2>2, <2>3
<1>3. CASE \E r \in Routes : RouteStep(r)
  <2>1. \/ StopPolling \/ UNCHANGED loop \/ \E token : StartPolling(token)
    BY <1>3 DEF RouteStep, Reconcile, Reconnect, StartAgain, ReconcilePolling
  <2> QED
    BY <2>1, StillWaits
<1>4. CASE \/ Configure \/ AskReconnect \/ WebhookStep \/ PushFails \/ PushUnwritten
           \/ TurnEnds \/ Arrive \/ WriteRelay
           \/ (\E id \in 1..(LastUpdate + 1) : OtherBot(id)) \/ Restart \/ Crash
           \/ BeginReset \/ Reset \/ UNCHANGED vars
  <2>1. UNCHANGED loop \/ StopPolling \/ loop' = [l \in Loops |-> Ended]
    BY <1>4 DEF Configure, AskReconnect, WebhookStep, Push, PushCaptured, PushAnswered, PushFails,
       PushUnwritten, TurnEnds, Arrive, OtherBot, WriteRelay, Restart, Crash, BeginReset, Reset, vars,
       supervisor
  <2> QED
    BY <2>1, StillWaits
<1> QED
  BY <1>2, <1>3, <1>4 DEF Next

\* Dispatches stay within what the memory counted.
LEMMA OnceStep ==
  ASSUME IInv, [Next]_vars
  PROVE  OnceInv'
<1>0. /\ dispatched \in [Updates -> Nat] /\ forgets \in [Updates -> Nat]
      /\ loop \in [Loops -> LoopState] /\ TypeOK
  BY DEF IInv, TypeOK
<1>1. SUFFICES ASSUME NEW v \in Updates \ GoldenPath
               PROVE  dispatched'[v] + Cardinality(Waiting(v)') <= Remembered(v)'
  BY DEF OnceInv
<1>2. dispatched[v] + Cardinality(Waiting(v)) <= Remembered(v)
  BY DEF IInv, OnceInv
<1>3. \A S \in SUBSET Loops : IsFiniteSet(S) /\ Cardinality(S) \in Nat
  BY PollingAssumption, FS_Subset, FS_CardinalityType
<1>4. Waiting(v) \in SUBSET Loops /\ Waiting(v)' \in SUBSET Loops
  BY DEF Waiting
<1>5. /\ Cardinality(Waiting(v)) \in Nat /\ Cardinality(Waiting(v)') \in Nat
      /\ dispatched[v] \in Nat /\ Remembered(v) \in Nat
  BY <1>0, <1>3, <1>4 DEF Remembered
<1>6. Remembered(v)' \in Nat
  <2>1. forgets'[v] \in Nat
    BY TypeStep DEF TypeOK
  <2> QED
    BY <2>1 DEF Remembered
<1>7. ASSUME Waiting(v)' \subseteq Waiting(v)
      PROVE  Cardinality(Waiting(v)') <= Cardinality(Waiting(v))
  BY <1>3, <1>4, <1>7, FS_Subset
<1>8. ASSUME \A k \in Loops : ~NextChat(k)
      PROVE  Waiting(v)' \subseteq Waiting(v)
  BY <1>8, WaitingBefore DEF Waiting
<1>9. ASSUME Waiting(v)' \subseteq Waiting(v), dispatched'[v] = dispatched[v],
             Remembered(v) <= Remembered(v)'
      PROVE  dispatched'[v] + Cardinality(Waiting(v)') <= Remembered(v)'
  BY <1>2, <1>5, <1>6, <1>7, <1>9
<1>10. ASSUME Keeps
       PROVE  Remembered(v) <= Remembered(v)'
  BY <1>0, <1>10, MemoryKept
<1>11. CASE \E l \in Loops : NextChat(l)
  <2>1. PICK l \in Loops : NextChat(l)
    BY <1>11
  <2>2. \A k \in Loops : k # l => loop'[k] = loop[k]
    BY <2>1, LoopStaysInItsRole DEF IInv, LoopStep
  <2>3. dispatched' = dispatched /\ Waiting(v)' \subseteq Waiting(v) \cup {l}
    BY <2>1, <2>2 DEF NextChat, Waiting
  <2>4. CASE Ignores(l, loop[l].cur)
    <3>1. Keeps /\ Past(l)
      BY <2>1, <2>4 DEF NextChat, Ignore, Keeps
    <3>2. loop'[l].at = "batch"
      BY <1>0, <3>1 DEF Past, LoopState
    <3>3. Waiting(v)' \subseteq Waiting(v)
      BY <2>2, <3>2 DEF Waiting
    <3> QED
      BY <1>5, <1>9, <1>10, <2>3, <3>1, <3>3
  <2>5. CASE ~Ignores(l, loop[l].cur)
    <3>1. /\ Memorize(loop[l].cur) /\ Persist /\ Adds(loop[l].cur)
          /\ At(l, "chatSlot") /\ ~Known(loop[l].cur)
      BY <2>1, <2>5 DEF NextChat, Receive, Adds, Ignores
    <3>2. loop'[l].cur = loop[l].cur
      BY <1>0, <3>1 DEF At, LoopState
    <3>3. loop[l].cur \in Numbers
      <4>1. /\ loop[l].cur \in 0..(LastUpdate + 1) /\ loop[l].cur > 0
        BY <1>0, <2>1 DEF NextChat, Takes, LoopState, IInv, NumbersInv, Bounded
      <4> QED
        BY <4>1, PollingAssumption DEF Numbers
    <3>4. CASE v = loop[l].cur
      <4>1. Remembered(v) + 1 <= Remembered(v)'
        BY <1>0, <3>1, <3>3, <3>4, MemoryAdds
      <4>2. Cardinality(Waiting(v)') <= Cardinality(Waiting(v)) + 1
        <5>1. IsFiniteSet(Waiting(v)) /\ IsFiniteSet(Waiting(v) \cup {l})
          BY <1>3, <1>4
        <5>2. Cardinality(Waiting(v) \cup {l}) <= Cardinality(Waiting(v)) + 1
          BY <1>5, <5>1, FS_AddElement
        <5>3. Cardinality(Waiting(v)') <= Cardinality(Waiting(v) \cup {l})
          BY <2>3, <5>1, FS_Subset
        <5>4. Cardinality(Waiting(v) \cup {l}) \in Nat
          BY <5>1, FS_CardinalityType
        <5> QED
          BY <1>5, <5>2, <5>3, <5>4
      <4> QED
        BY <1>2, <1>5, <1>6, <2>3, <4>1, <4>2
    <3>5. CASE v # loop[l].cur
      <4>1. Waiting(v)' \subseteq Waiting(v)
        BY <2>2, <3>2, <3>5 DEF Waiting
      <4>2. Remembered(v) <= Remembered(v)'
        BY <1>0, <3>1, <3>3, MemoryAdds
      <4> QED
        BY <1>9, <2>3, <4>1, <4>2
    <3> QED
      BY <3>4, <3>5
  <2> QED
    BY <2>4, <2>5
<1>12. CASE \E l \in Loops : Dispatch(l)
  <2>1. PICK l \in Loops : Dispatch(l)
    BY <1>12
  <2>2. \A k \in Loops : k # l => loop'[k] = loop[k]
    BY <2>1, LoopStaysInItsRole DEF IInv, LoopStep
  <2>3. Past(l) /\ Keeps /\ loop[l].at = "chatSlot"
        /\ dispatched' = [dispatched EXCEPT ![loop[l].cur] = @ + 1]
    BY <2>1 DEF Dispatch, Keeps
  <2>4. loop'[l].at = "batch"
    BY <1>0, <2>3 DEF Past, LoopState
  <2>5. Waiting(v)' \subseteq Waiting(v) \ {l}
    BY <2>2, <2>4 DEF Waiting
  <2>6. CASE v = loop[l].cur
    <3>1. l \in Waiting(v) /\ dispatched'[v] = dispatched[v] + 1
      BY <1>0, <2>3, <2>6 DEF Waiting
    <3>2. IsFiniteSet(Waiting(v)) /\ IsFiniteSet(Waiting(v) \ {l})
      BY <1>3, <1>4
    <3>3. Cardinality(Waiting(v) \ {l}) = Cardinality(Waiting(v)) - 1
      BY <3>1, <3>2, FS_RemoveElement
    <3>4. Cardinality(Waiting(v)') <= Cardinality(Waiting(v) \ {l})
      BY <2>5, <3>2, FS_Subset
    <3>5. Remembered(v) <= Remembered(v)'
      BY <1>10, <2>3
    <3> QED
      BY <1>2, <1>5, <1>6, <3>1, <3>3, <3>4, <3>5
  <2>7. CASE v # loop[l].cur
    <3>1. dispatched'[v] = dispatched[v] /\ Waiting(v)' \subseteq Waiting(v)
      BY <1>0, <2>3, <2>5, <2>7
    <3> QED
      BY <1>5, <1>9, <1>10, <2>3, <3>1
  <2> QED
    BY <2>6, <2>7
<1>13. CASE Push
  <2> DEFINE u == confirmed + 1
  <2>1. u \in Numbers
    <3>1. confirmed \in 0..arrived /\ arrived \in 0..LastUpdate /\ LastUpdate \in Nat
      BY PollingAssumption DEF IInv, TypeOK
    <3> QED
      BY <1>13, <3>1 DEF Push, Pushes, Numbers
  <2>2. Waiting(v)' \subseteq Waiting(v)
    BY <1>13 DEF Push, supervisor, Waiting
  <2>3. CASE Record /\ UNCHANGED dispatched
    BY <1>5, <1>9, <1>10, <2>2, <2>3 DEF Keeps
  <2>4. CASE /\ Memorize(u) /\ Persist /\ ~Known(u)
             /\ dispatched' = [dispatched EXCEPT ![u] = @ + 1]
    <3>0. Adds(u)
      BY <2>4 DEF Adds
    <3>1. CASE v = u
      <4>1. Remembered(v) + 1 <= Remembered(v)'
        BY <1>0, <2>1, <2>4, <3>0, <3>1, MemoryAdds
      <4>2. dispatched'[v] = dispatched[v] + 1
        BY <1>0, <2>4, <3>1
      <4> QED
        BY <1>2, <1>5, <1>6, <1>7, <2>2, <4>1, <4>2
    <3>2. CASE v # u
      <4>1. Remembered(v) <= Remembered(v)' /\ dispatched'[v] = dispatched[v]
        BY <1>0, <2>1, <2>4, <3>0, <3>2, MemoryAdds
      <4> QED
        BY <1>9, <2>2, <4>1
    <3> QED
      BY <3>1, <3>2
  <2> QED
    BY <1>13, <2>3, <2>4 DEF Push, Receive
<1>14. CASE \/ (\E l \in Loops : Acknowledge(l) \/ ReceiveFails(l) \/ AcknowledgeFails(l))
            \/ PushAnswered \/ PushUnwritten
            \/ (\E id \in 1..(LastUpdate + 1) : OtherBot(id))
  <2>1. dispatched' = dispatched
    BY <1>14 DEF Acknowledge, ReceiveFails, AcknowledgeFails, PushAnswered, PushUnwritten, OtherBot,
       handled
  <2>4. Waiting(v)' \subseteq Waiting(v)
    <3>1. ASSUME NEW l \in Loops, Acknowledge(l) \/ ReceiveFails(l) \/ AcknowledgeFails(l)
          PROVE  Waiting(v)' \subseteq Waiting(v)
      <4>1. \A k \in Loops : k # l => loop'[k] = loop[k]
        BY <3>1, LoopStaysInItsRole DEF IInv, LoopStep, LoopFailure
      <4>2. loop'[l].at # "chatSlot"
        <5>1. CASE Acknowledge(l)
          BY <1>0, <5>1 DEF Acknowledge, Past, LoopState
        <5>2. CASE ReceiveFails(l) \/ AcknowledgeFails(l)
          <6>1. loop'[l] = Failed(loop[l])
            BY <1>0, <5>2 DEF ReceiveFails, AcknowledgeFails, Fails
          <6>2. [loop[l] EXCEPT !.health = "live"] \in LoopState
            BY <1>0 DEF LoopState
          <6> QED
            BY <6>1, <6>2 DEF Failed, Ended, Fresh, Between, LoopState
        <5> QED
          BY <3>1, <5>1, <5>2
      <4> QED
        BY <4>1, <4>2 DEF Waiting
    <3>2. CASE UNCHANGED loop
      BY <3>2 DEF Waiting
    <3> QED
      BY <1>14, <3>1, <3>2 DEF PushAnswered, PushUnwritten, OtherBot, supervisor
  <2>2. \E id \in Numbers : Adds(id)
    <3>1. ASSUME NEW l \in Loops, Acknowledge(l) \/ ReceiveFails(l) \/ AcknowledgeFails(l)
          PROVE  loop[l].cur \in Numbers /\ Adds(loop[l].cur)
      <4>1. /\ loop[l].cur \in 0..(LastUpdate + 1) /\ loop[l].cur > 0
        BY <1>0, <3>1 DEF Acknowledge, ReceiveFails, AcknowledgeFails, Takes, LoopState, IInv,
           NumbersInv, Bounded, Holding
      <4>2. Adds(loop[l].cur)
        BY <3>1 DEF Acknowledge, ReceiveFails, ReceiveUnwritten, AcknowledgeFails, Adds
      <4> QED
        BY <4>1, <4>2, PollingAssumption DEF Numbers
    <3>2. push.at # "idle" => push.update \in Numbers
      BY PollingAssumption DEF IInv, TypeOK, NumbersInv, Numbers
    <3>3. CASE PushAnswered
      BY <3>2, <3>3 DEF PushAnswered, Adds
    <3>4. CASE PushUnwritten
      <4>1. Pushes => confirmed + 1 \in Numbers
        <5>1. confirmed \in 0..arrived /\ arrived \in 0..LastUpdate /\ LastUpdate \in Nat
          BY PollingAssumption DEF IInv, TypeOK
        <5> QED
          BY <5>1 DEF Pushes, Numbers
      <4> QED
        BY <3>2, <3>4, <4>1 DEF PushUnwritten, ReceiveUnwritten, Adds
    <3>5. ASSUME NEW id \in 1..(LastUpdate + 1), OtherBot(id)
          PROVE  id \in Numbers /\ Adds(id)
      BY <3>5 DEF OtherBot, Adds, Numbers
    <3> QED
      BY <1>14, <3>1, <3>3, <3>4, <3>5
  <2>3. Remembered(v) <= Remembered(v)'
    BY <1>0, <2>2, MemoryAdds
  <2> QED
    BY <1>9, <2>1, <2>3, <2>4
<1>15. CASE Reset
  <2>1. dispatched' = dispatched /\ \A k \in Loops : ~NextChat(k)
    BY <1>15 DEF Reset, NextChat, aside
  <2>2. CASE UNCHANGED memory
    BY <1>5, <1>8, <1>9, <1>10, <2>1, <2>2 DEF Keeps
  <2>3. CASE /\ processed' = <<>>
             /\ forgets' = [u \in Updates |-> IF Known(u) THEN forgets[u] + 1 ELSE forgets[u]]
    <3>1. ~Known(v)'
      BY <2>3 DEF Known, Range
    <3>2. Remembered(v) <= Remembered(v)'
      BY <1>0, <2>3, <3>1 DEF Remembered
    <3> QED
      BY <1>5, <1>8, <1>9, <2>1, <3>2
  <2> QED
    BY <1>15, <2>2, <2>3 DEF Reset, memory
<1>16. CASE Crash
  <2>1. /\ processed' = stored /\ UNCHANGED <<stored, forgets, dispatched>>
        /\ loop' = [l \in Loops |-> Ended]
    BY <1>16 DEF Crash
  <2>2. Waiting(v)' \subseteq Waiting(v)
    BY <2>1 DEF Waiting, Ended, Fresh
  <2>3. Known(v) /\ Stored(v) => Known(v)' /\ Stored(v)'
    BY <2>1 DEF Known, Stored
  <2>4. Remembered(v) <= Remembered(v)'
    BY <1>0, <2>1, <2>3 DEF Remembered
  <2> QED
    BY <1>9, <2>1, <2>2, <2>4
<1>18. ASSUME NEW l \in Loops, LoopStep(l) \/ Fail(l), ~NextChat(l), ~Dispatch(l), ~Acknowledge(l)
       PROVE  /\ Keeps /\ UNCHANGED dispatched
              /\ loop'[l].at = "chatSlot" => loop[l].at = "chatSlot"
  BY <1>18, WaitingBefore DEF LoopStep, Ask, Answer, Context, NextGoldenPath, StartCapture, Ignore,
     Capture, EndBatch, Wake, Fail, Keeps, handled
<1>19. ASSUME NEW l \in Loops, LoopStep(l) \/ Fail(l), ~NextChat(l), ~Dispatch(l), ~Acknowledge(l)
       PROVE  dispatched'[v] + Cardinality(Waiting(v)') <= Remembered(v)'
  <2>1. Waiting(v)' \subseteq Waiting(v)
    <3>1. \A k \in Loops : k # l => loop'[k] = loop[k]
      BY <1>19, LoopStaysInItsRole DEF IInv, LoopFailure
    <3>2. loop'[l].at = "chatSlot" => loop[l].at = "chatSlot" /\ loop'[l].cur = loop[l].cur
      BY <1>19, WaitingBefore
    <3> QED
      BY <3>1, <3>2 DEF Waiting
  <2> QED
    BY <1>9, <1>10, <1>18, <1>19, <2>1
<1>20. CASE \/ (\E r \in Routes : RouteStep(r)) \/ Configure \/ AskReconnect \/ PushCaptured
            \/ PushFails \/ TurnEnds \/ BeginReset \/ Arrive \/ WriteRelay \/ Restart
            \/ UNCHANGED vars
  <2>1. Keeps /\ UNCHANGED dispatched
    BY <1>20 DEF RouteStep, Reconcile, Reconnect, StartAgain, Configure, AskReconnect, PushCaptured,
       PushFails, TurnEnds, BeginReset, Arrive, WriteRelay, Restart, vars, handled, Keeps
  <2>2. Waiting(v)' \subseteq Waiting(v)
    <3>1. ASSUME NEW k \in Loops, loop'[k].at = "chatSlot"
          PROVE  loop[k].at = "chatSlot" /\ loop'[k].cur = loop[k].cur
      <4>1. UNCHANGED loop \/ StopPolling \/ \E token : StartPolling(token)
        BY <1>20 DEF RouteStep, Reconcile, Reconnect, StartAgain, ReconcilePolling, Configure,
           AskReconnect, PushCaptured, PushFails, TurnEnds, BeginReset, Arrive, WriteRelay,
           Restart, vars, supervisor
      <4> QED
        BY <3>1, <4>1, StillWaits
    <3> QED
      BY <3>1 DEF Waiting
  <2> QED
    BY <1>9, <1>10, <2>1, <2>2
<1> QED
  BY <1>11, <1>12, <1>13, <1>14, <1>15, <1>16, <1>19, <1>20 DEF Next, LoopFailure, WebhookStep,
     LoopStep

-----------------------------------------------------------------------------
(***************************************************************************)
(* The theorems.                                                           *)
(***************************************************************************)

\* The first state, before the process starts, satisfies the invariant.
LEMMA InitIInv == Init => IInv
<1> SUFFICES ASSUME Init
             PROVE  IInv
  OBVIOUS
<1>0. /\ \A l \in Loops : loop[l] = Ended
      /\ \A r \in Routes : route[r] = Idle
      /\ processed = <<>> /\ stored = <<>> /\ confirmed = 0 /\ arrived = 0 /\ push = NoPush /\ up = FALSE
  BY DEF Init
<1>1. /\ Ended.at = "none" /\ Ended.health = "stopped" /\ Ended.offset = 0 /\ Ended.cur = 0
      /\ Ended.last = 0 /\ Idle.at = "idle" /\ NoPush.at = "idle"
  BY DEF Ended, Fresh, Idle, NoPush
<1>2. TypeOK
  <2>1. loop \in [Loops -> LoopState]
    BY StateType DEF Init
  <2>2. route \in [Routes -> RouteState]
    BY DEF Init, Idle, RouteState
  <2>3. push \in [at : {"idle", "capture", "captured"}, update : 0..LastUpdate]
    BY PollingAssumption DEF Init, NoPush
  <2>4. /\ processed \in Seq(1..(LastUpdate + 1)) /\ Len(processed) <= Kept
        /\ stored \in Seq(1..(LastUpdate + 1)) /\ Len(stored) <= Kept
    BY <1>0, PollingAssumption
  <2>5. forgets \in [Updates -> Nat] /\ dispatched \in [Updates -> Nat] /\ turns \in Nat
    BY DEF Init
  <2>6. arrived \in 0..LastUpdate /\ confirmed \in 0..arrived
    BY <1>0, PollingAssumption
  <2>7. changes \in 0..MaxChanges /\ mishaps \in 0..MaxMishaps
    BY PollingAssumption DEF Init
  <2>8. setting \in Tokens \cup Unpolled
    BY PollingAssumption DEF Init, Unpolled
  <2>9. up \in BOOLEAN /\ reset \in BOOLEAN
    BY DEF Init
  <2>10. captured \subseteq GoldenPath /\ excused \subseteq Updates
         /\ taken \subseteq Updates /\ lost \subseteq Updates
         /\ lapse \subseteq {"window", "stale"} /\ current \in Loops \cup {NoLoop}
    BY DEF Init
  <2> QED
    BY <2>1, <2>2, <2>3, <2>4, <2>5, <2>6, <2>7, <2>8, <2>9, <2>10 DEF TypeOK, RouteState
<1>3. NumbersInv
  <2>1. Bounded(Ended, 0)
    BY BoundedStates
  <2> QED
    BY <1>0, <1>1, <2>1 DEF NumbersInv
<1>4. ConsumerInv
  BY <1>0, <1>1 DEF ConsumerInv, OneConsumer, Live, PolledAsConfigured
<1>5. HandledInv
  <2>1. \A u \in Updates : ~(u <= 0) /\ ~(u < 0)
    BY DEF Updates
  <2>2. \A u \in Updates : ~Recalled(u)
    BY <1>0 DEF Recalled, Known, Stored, Range
  <2> QED
    BY <1>0, <1>1, <2>1, <2>2 DEF HandledInv, Behind
<1>6. OnceInv
  <2>1. ASSUME NEW u \in Updates \ GoldenPath
        PROVE  dispatched[u] + Cardinality(Waiting(u)) <= Remembered(u)
    <3>1. Waiting(u) = {}
      BY <1>0, <1>1 DEF Waiting
    <3>2. Cardinality(Waiting(u)) = 0
      BY <3>1, FS_EmptySet
    <3>3. dispatched[u] = 0 /\ forgets[u] = 0
      BY DEF Init
    <3> QED
      BY <3>2, <3>3 DEF Remembered
  <2> QED
    BY <2>1 DEF OnceInv
<1>7. LostInv
  BY DEF Init, LostInv
<1> QED
  BY <1>2, <1>3, <1>4, <1>5, <1>6, <1>7 DEF IInv

\* The invariant is inductive.
LEMMA Inductive == Spec => []IInv
<1>1. IInv /\ [Next]_vars => IInv'
  BY TypeStep, NumbersStep, ConsumerStep, HandledStep, LostStep, OnceStep DEF IInv
<1> QED
  BY InitIInv, <1>1, PTL DEF Spec

\* Every variable has its type: no offset, batch or confirmation runs past the updates
\* that exist, and the memory never outgrows its bound.
THEOREM TypeCorrect == Spec => []TypeOK
<1>1. IInv => TypeOK
  BY DEF IInv
<1> QED
  BY Inductive, <1>1, PTL

\* What Telegram will not send again is captured, dispatched or waits for a slot, but
\* for what came to an inactive binding, a wipe, another bot's number, and, of the
\* updates of chats only, a death before the slot and a write that failed.
THEOREM AcknowledgedHandled == Spec => []AcknowledgedIsHandled
<1>1. IInv => AcknowledgedIsHandled
  <2>1. SUFFICES ASSUME IInv
                 PROVE  /\ \A u \in 1..confirmed : Carried(u) \/ u \in excused \cup taken \cup lost
                        /\ lost \cap GoldenPath = {}
    BY DEF AcknowledgedIsHandled
  <2>2. confirmed \in 0..arrived /\ arrived \in 0..LastUpdate /\ LastUpdate \in Nat
    BY <2>1, PollingAssumption DEF IInv, TypeOK
  <2>3. ASSUME NEW u \in 1..confirmed
        PROVE  Carried(u) \/ u \in excused \cup taken \cup lost
    <3>1. u \in Updates /\ u <= confirmed
      BY <2>2, <2>3 DEF Updates
    <3>2. Handled(u)
      BY <2>1, <3>1 DEF IInv, HandledInv
    <3> QED
      BY <3>2 DEF Handled, Held, Carried
  <2> QED
    BY <2>1, <2>3 DEF IInv, LostInv
<1> QED
  BY Inductive, <1>1, PTL

\* No ordinary update is dispatched more often than the memory lost it, and once.
THEOREM OnceDispatched == Spec => []DispatchedOnce
<1>1. IInv => DispatchedOnce
  <2>1. SUFFICES ASSUME IInv, NEW u \in Updates \ GoldenPath
                 PROVE  dispatched[u] <= 1 + forgets[u]
    BY DEF DispatchedOnce
  <2>2. IsFiniteSet(Waiting(u))
    BY PollingAssumption, FS_Subset DEF Waiting
  <2>3. Cardinality(Waiting(u)) \in Nat
    BY <2>2, FS_CardinalityType
  <2>4. dispatched[u] \in Nat /\ forgets[u] \in Nat
    BY <2>1 DEF IInv, TypeOK
  <2>5. dispatched[u] + Cardinality(Waiting(u)) <= forgets[u] + (IF Known(u) /\ Stored(u) THEN 1 ELSE 0)
    BY <2>1 DEF IInv, OnceInv, Remembered
  <2> QED
    BY <2>3, <2>4, <2>5
<1> QED
  BY Inductive, <1>1, PTL

\* However loops overlap, only the registered one is not aborted.
THEOREM OnlyConsumer == Spec => []OneConsumer
<1>1. IInv => OneConsumer
  BY DEF IInv, ConsumerInv
<1> QED
  BY Inductive, <1>1, PTL

\* At rest the binding is polled as the owner set it, the two windows excepted.
THEOREM PolledAsSet == Spec => []PolledAsConfigured
<1>1. IInv => PolledAsConfigured
  BY DEF IInv, ConsumerInv
<1> QED
  BY Inductive, <1>1, PTL
=============================================================================
