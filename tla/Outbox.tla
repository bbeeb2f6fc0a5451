------------------------------- MODULE Outbox -------------------------------
(***************************************************************************)
(* The durable delivery outbox of the work golden path                     *)
(* (createTransportWorkOutbox), its file-backed store, the Telegram sender *)
(* under it and a restart of the server over it.                           *)
(*                                                                         *)
(* A pass is one caller that works through keys and waits for each:        *)
(* flush and retry take one key, flushWorkItem the unsettled rows of one   *)
(* item, recoverPending (the startup pass) every pending row.  Node runs a *)
(* pass without interruption from one awaited send to the next, so nothing *)
(* but a pass or the death of the process happens while a pass can move    *)
(* (Quiet).  A write of the store replaces the whole file.                 *)
(***************************************************************************)
EXTENDS Naturals, FiniteSetsExt

CONSTANTS
  Keys,        \* idempotency keys, one per logical message
  Items,       \* work items
  Item,        \* Item[k]: the work item of the key
  Purpose,     \* Purpose[k]: "progress", "decision" (the priority ones) or "ack" (the rest)
  Callers,     \* concurrent flush, retry and flushWorkItem calls (bound)
  Startup,     \* the pass recoverPending makes
  NoKey,       \* the pass is not waiting
  MaxSends,    \* bound: attempts of one key that may reach the chat, allowed or misread
  MaxFaults,   \* bound: failed writes of the file
  MaxCrashes   \* bound: deaths of the process

ASSUME OutboxAssumption ==
  /\ Item \in [Keys -> Items]
  /\ Purpose \in [Keys -> {"progress", "decision", "ack"}]
  /\ Startup \notin Callers
  /\ NoKey \notin Keys
  /\ MaxSends \in Nat /\ MaxFaults \in Nat /\ MaxCrashes \in Nat

VARIABLES
  up,          \* the process is running
  rows,        \* the outbox's map of rows, and the store's: they agree
  disk,        \* persisted: the rows in the state file
  sequence,    \* sequenceByWorkItem
  flight,      \* inFlight: what became of the key's request so far
  pass,        \* the keys each pass has left
  waits,       \* the key whose send each pass awaits
  recovered,   \* recoverPending has been called since the start
  stray,       \* requests nobody waits for that may still arrive
  chat,        \* messages that reached the chat
  allowed,     \* history: attempts the promise allows: the enqueue's and the owner's
  misread,     \* history: receipts that called an unproved send a failure
  older,       \* history: the keys whose rows were created before the key's row
  retired,     \* keys of items that a data reset deleted: ids are not reused
  faults, crashes

vars == <<up, rows, disk, sequence, flight, pass, waits, recovered, stray, chat,
          allowed, misread, older, retired, faults, crashes>>

senderVars == <<up, sequence, recovered, older, retired, crashes>>

-----------------------------------------------------------------------------
State == {"pending", "sending", "sent", "failed", "ambiguous"}
Row == [state : State \cup {"none"}, seq : Nat]
NoRow == [state |-> "none", seq |-> 0]
Passes == Callers \cup {Startup}

TypeOK ==
  /\ up \in BOOLEAN /\ recovered \in BOOLEAN
  /\ rows \in [Keys -> Row] /\ disk \in [Keys -> Row]
  /\ sequence \in [Items -> Nat]
  /\ flight \in [Keys -> {"no", "asked", "taken"}]
  /\ pass \in [Passes -> SUBSET Keys]
  /\ waits \in [Passes -> Keys \cup {NoKey}]
  /\ stray \in [Keys -> Nat] /\ chat \in [Keys -> Nat] /\ allowed \in [Keys -> Nat]
  /\ misread \in [Keys -> Nat]
  /\ older \in [Keys -> SUBSET Keys]
  /\ retired \subseteq Keys
  /\ faults \in Nat /\ crashes \in Nat

Init ==
  /\ up = TRUE /\ recovered = TRUE
  /\ rows = [k \in Keys |-> NoRow] /\ disk = [k \in Keys |-> NoRow]
  /\ sequence = [i \in Items |-> 0]
  /\ flight = [k \in Keys |-> "no"]
  /\ pass = [p \in Passes |-> {}] /\ waits = [p \in Passes |-> NoKey]
  /\ stray = [k \in Keys |-> 0] /\ chat = [k \in Keys |-> 0]
  /\ allowed = [k \in Keys |-> 0] /\ misread = [k \in Keys |-> 0]
  /\ older = [k \in Keys |-> {}]
  /\ retired = {}
  /\ faults = 0 /\ crashes = 0

-----------------------------------------------------------------------------
(***************************************************************************)
(* Rows and the file.                                                      *)
(***************************************************************************)
HasRow(k) == rows[k].state # "none"
ItemRows(i) == {k \in Keys : HasRow(k) /\ Item[k] = i}
WithState(row, state) == [row EXCEPT !.state = state]

\* put: the row is in memory whatever becomes of the file; a failed write throws.
Put(k, row) == rows' = [rows EXCEPT ![k] = row]
Written == disk' = rows' /\ UNCHANGED faults
NotWritten == faults < MaxFaults /\ faults' = faults + 1 /\ UNCHANGED disk

\* Mutant of IsSettled: only a receipt settles a row.
IsSettledBySentOnly(state) == state = "sent"

\* isTerminalState
IsSettled(state) == state \in {"sent", "ambiguous"}

\* A progress row is stale behind any later progress, decision or result row.
IsStaleRoutine(k) ==
  /\ Purpose[k] = "progress"
  /\ \E j \in ItemRows(Item[k]) : rows[j].seq > rows[k].seq /\ Purpose[j] # "ack"

\* Mutants of RecoveredRow: the error code in the wrong field, the send forgotten.
RecoveredRowMislabelled(row) ==
  IF row.state = "sending" THEN WithState(row, "interrupted_send") ELSE row
RecoveredRowResent(row) ==
  IF row.state = "sending" THEN WithState(row, "pending") ELSE row

\* Recovery of one row from the file: an interrupted send stays uncertain.
RecoveredRow(row) == IF row.state = "sending" THEN WithState(row, "ambiguous") ELSE row

\* Mutant of HighestSequence: the numbers start again with the process.
HighestSequenceForgotten(rs, i) == 0

HighestSequence(rs, i) == Max({0} \cup {rs[k].seq : k \in {j \in Keys : Item[j] = i}})

-----------------------------------------------------------------------------
(***************************************************************************)
(* Passes.                                                                 *)
(***************************************************************************)
Idle(p) == pass[p] = {}
Moving(p) == pass[p] # {} /\ waits[p] = NoKey
Quiet == up /\ \A p \in Passes : ~Moving(p)

\* The rows a pass takes on, in the state they have when it starts.
UnsettledRows(rs, i) ==
  {k \in Keys : Item[k] = i /\ rs[k].state # "none" /\ ~IsSettled(rs[k].state)}
\* Mutant of PendingRows: the startup pass looks for the failed rows.
FailedRows == {k \in Keys : rows[k].state = "failed"}

PendingRows == {k \in Keys : rows[k].state = "pending"}

Starts(p, todo) == pass' = [pass EXCEPT ![p] = todo] /\ UNCHANGED waits

\* Rows of one item go in sequence order.
NextKey(p, k) ==
  /\ k \in pass[p]
  /\ \A j \in pass[p] : Item[j] = Item[k] => rows[k].seq <= rows[j].seq

GoesOn(p, k) == pass' = [pass EXCEPT ![p] = @ \ {k}] /\ UNCHANGED waits
Throws(p) == pass' = [pass EXCEPT ![p] = {}] /\ UNCHANGED waits
Awaits(p, k) == waits' = [waits EXCEPT ![p] = k] /\ UNCHANGED pass

\* Every pass that awaits the key hears of its end; a rejection ends the pass.
Resume(k, rejected) ==
  /\ pass' = [p \in Passes |->
                IF waits[p] # k THEN pass[p] ELSE IF rejected THEN {} ELSE pass[p] \ {k}]
  /\ waits' = [p \in Passes |-> IF waits[p] = k THEN NoKey ELSE waits[p]]

-----------------------------------------------------------------------------
(***************************************************************************)
(* The callers: enqueueAndFlush, the owner's retry, the startup pass.      *)
(***************************************************************************)
\* What enqueueAndFlush does with its key: one flush, or the item's pass.
Flushes(p, k) ==
  \/ Starts(p, {k})
  \/ Starts(p, UnsettledRows(rows', Item[k]))

NewRow(k) == [state |-> "pending", seq |-> sequence[Item[k]] + 1]

Enqueue(p, k) ==
  /\ Quiet /\ Idle(p)
  /\ ~HasRow(k) /\ k \notin retired
  /\ sequence' = [sequence EXCEPT ![Item[k]] = @ + 1]
  /\ Put(k, NewRow(k))
  /\ \/ Written /\ Flushes(p, k)
     \/ NotWritten /\ UNCHANGED <<pass, waits>>
  /\ older' = [j \in Keys |->
                IF j = k THEN {i \in Keys \ {k} : allowed[i] > 0} ELSE older[j] \ {k}]
  /\ allowed' = [allowed EXCEPT ![k] = IF @ = 0 THEN 1 ELSE @]
  /\ UNCHANGED <<up, flight, recovered, stray, chat, misread, retired, crashes>>

\* The same callback again: enqueue returns the stored row untouched.
EnqueueAgain(p, k) ==
  /\ Quiet /\ Idle(p)
  /\ HasRow(k)
  /\ UNCHANGED <<rows, disk, faults>>
  /\ Flushes(p, k)
  /\ UNCHANGED <<senderVars, flight, stray, chat, allowed, misread>>

\* retry: the owner may let an uncertain message through once more.
Retry(p, k) ==
  /\ Quiet /\ Idle(p)
  /\ HasRow(k) /\ flight[k] = "no" /\ rows[k].state # "sent"
  /\ allowed' = [allowed EXCEPT ![k] = IF rows[k].state = "ambiguous" THEN @ + 1 ELSE @]
  /\ allowed'[k] + misread[k] <= MaxSends
  /\ Put(k, WithState(rows[k], "pending"))
  /\ \/ Written /\ Starts(p, {k})
     \/ NotWritten /\ UNCHANGED <<pass, waits>>
  /\ UNCHANGED <<senderVars, flight, stray, chat, misread>>

RecoverPending ==
  /\ Quiet /\ ~recovered
  /\ recovered' = TRUE
  /\ Starts(Startup, PendingRows)
  /\ UNCHANGED <<up, rows, disk, sequence, flight, stray, chat, allowed, misread, older, retired,
                 faults, crashes>>

-----------------------------------------------------------------------------
(***************************************************************************)
(* flushOne and flushRow, by a moving pass.                                *)
(***************************************************************************)
\* A send of the key is in flight: its promise is shared.
JoinFlight(p, k) ==
  /\ flight[k] # "no"
  /\ Awaits(p, k)
  /\ UNCHANGED <<rows, disk, flight, faults>>

AlreadySettled(p, k) ==
  /\ flight[k] = "no" /\ IsSettled(rows[k].state)
  /\ GoesOn(p, k)
  /\ UNCHANGED <<rows, disk, flight, faults>>

SuppressStale(p, k) ==
  /\ flight[k] = "no" /\ ~IsSettled(rows[k].state) /\ IsStaleRoutine(k)
  /\ Put(k, WithState(rows[k], "failed"))
  /\ \/ Written /\ GoesOn(p, k)
     \/ NotWritten /\ Throws(p)
  /\ UNCHANGED flight

\* Mutant of Send: the file hears of the send only with the answer.
SendUnrecorded(p, k) ==
  /\ flight[k] = "no" /\ ~IsSettled(rows[k].state) /\ ~IsStaleRoutine(k)
  /\ Put(k, WithState(rows[k], "sending"))
  /\ flight' = [flight EXCEPT ![k] = "asked"] /\ Awaits(p, k)
  /\ UNCHANGED <<disk, faults>>

\* The row says "sending" in the file before the sender is called.
Send(p, k) ==
  /\ flight[k] = "no" /\ ~IsSettled(rows[k].state) /\ ~IsStaleRoutine(k)
  /\ Put(k, WithState(rows[k], "sending"))
  /\ \/ Written /\ flight' = [flight EXCEPT ![k] = "asked"] /\ Awaits(p, k)
     \/ NotWritten /\ UNCHANGED flight /\ Throws(p)

FlushOne(p) ==
  /\ up /\ Moving(p)
  /\ \E k \in Keys :
       /\ NextKey(p, k)
       /\ HasRow(k)      \* an unknown key would be rejected: no pass holds one
       /\ JoinFlight(p, k) \/ AlreadySettled(p, k) \/ SuppressStale(p, k) \/ Send(p, k)
  /\ UNCHANGED <<senderVars, stray, chat, allowed, misread>>

-----------------------------------------------------------------------------
(***************************************************************************)
(* The chat and the sender's answer.                                       *)
(***************************************************************************)
\* Telegram takes the message.
Take(k) ==
  /\ flight[k] = "asked"
  /\ flight' = [flight EXCEPT ![k] = "taken"]
  /\ chat' = [chat EXCEPT ![k] = @ + 1]
  /\ UNCHANGED <<senderVars, rows, disk, pass, waits, stray, allowed, misread, faults>>

\* A late arrival; a stray request that is lost is one Telegram never takes.
TakeStray(k) ==
  /\ stray[k] > 0
  /\ stray' = [stray EXCEPT ![k] = @ - 1]
  /\ chat' = [chat EXCEPT ![k] = @ + 1]
  /\ UNCHANGED <<senderVars, rows, disk, flight, pass, waits, allowed, misread, faults>>

\* The end of flushRow: the row is written, the promise leaves inFlight.
Settle(k, state) ==
  /\ Quiet
  /\ Put(k, WithState(rows[k], state))
  /\ flight' = [flight EXCEPT ![k] = "no"]
  /\ \/ Written /\ Resume(k, FALSE)
     \/ NotWritten /\ Resume(k, TRUE)
  /\ UNCHANGED <<senderVars, chat>>

\* The request nobody waits for any more, when Telegram has not taken it yet.
Orphaned(k) == stray' = [stray EXCEPT ![k] = IF flight[k] = "asked" THEN @ + 1 ELSE @]

SentReceipt(k) ==
  /\ flight[k] = "taken"
  /\ Settle(k, "sent")
  /\ UNCHANGED <<stray, allowed, misread>>

\* A refusal Telegram reported, or no binding to send through.
RefusedReceipt(k) ==
  /\ flight[k] = "asked"
  /\ Settle(k, "failed")
  /\ UNCHANGED <<stray, allowed, misread>>

\* A lost connection or an unreadable answer: the relay returns a receipt with
\* a reason, which classifyDeliveryReceipt takes for a definite failure.
UnprovedReceipt(k) ==
  /\ flight[k] # "no" /\ allowed[k] + misread[k] < MaxSends
  /\ Settle(k, "failed")
  /\ Orphaned(k)
  /\ misread' = [misread EXCEPT ![k] = @ + 1]
  /\ UNCHANGED allowed

\* The relay itself threw.
SenderThrew(k) ==
  /\ flight[k] # "no"
  /\ Settle(k, "ambiguous")
  /\ Orphaned(k)
  /\ UNCHANGED <<allowed, misread>>

-----------------------------------------------------------------------------
(***************************************************************************)
(* The file, the process and the data reset.                               *)
(***************************************************************************)
\* A change of the action tokens writes the rows with them.
WriteTokens ==
  /\ Quiet /\ disk # rows
  /\ disk' = rows
  /\ UNCHANGED <<senderVars, rows, flight, pass, waits, stray, chat, allowed, misread, faults>>

Crash ==
  /\ up /\ crashes < MaxCrashes
  /\ crashes' = crashes + 1
  /\ up' = FALSE /\ recovered' = FALSE
  /\ rows' = [k \in Keys |-> NoRow]
  /\ sequence' = [i \in Items |-> 0]
  /\ flight' = [k \in Keys |-> "no"]
  /\ pass' = [p \in Passes |-> {}] /\ waits' = [p \in Passes |-> NoKey]
  /\ stray' = [k \in Keys |-> IF flight[k] = "asked" THEN stray[k] + 1 ELSE stray[k]]
  /\ UNCHANGED <<disk, chat, allowed, misread, older, retired, faults>>

Restart ==
  /\ ~up
  /\ up' = TRUE
  /\ rows' = [k \in Keys |-> RecoveredRow(disk[k])]
  /\ disk' = rows'
  /\ sequence' = [i \in Items |-> HighestSequence(disk, i)]
  /\ UNCHANGED <<flight, pass, waits, recovered, stray, chat, allowed, misread, older, retired,
                 faults, crashes>>

\* isIdle lets it through, clearForReset forgets the rows; the file is deleted.
ResetData ==
  /\ Quiet /\ recovered
  /\ \A k \in Keys : flight[k] = "no"
  /\ \E k \in Keys : HasRow(k)
  /\ rows' = [k \in Keys |-> NoRow] /\ disk' = [k \in Keys |-> NoRow]
  /\ sequence' = [i \in Items |-> 0]
  /\ retired' = retired \cup {k \in Keys : HasRow(k)}
  /\ UNCHANGED <<up, flight, pass, waits, recovered, stray, chat, allowed, misread, older, faults,
                 crashes>>

-----------------------------------------------------------------------------
Answer(k) == SentReceipt(k) \/ RefusedReceipt(k) \/ UnprovedReceipt(k) \/ SenderThrew(k)

Next ==
  \/ \E p \in Callers, k \in Keys : Enqueue(p, k) \/ EnqueueAgain(p, k) \/ Retry(p, k)
  \/ RecoverPending
  \/ \E p \in Passes : FlushOne(p)
  \/ \E k \in Keys : Take(k) \/ TakeStray(k)
  \/ \E k \in Keys : Answer(k)
  \/ WriteTokens \/ Crash \/ Restart \/ ResetData

Spec == Init /\ [][Next]_vars

\* A pass that can move moves; each send ends one way or another, and the event
\* loop turns to its end and to the startup pass between other callers' passes;
\* the server is started again.
Fairness ==
  /\ \A p \in Passes : WF_vars(FlushOne(p))
  /\ \A k \in Keys : SF_vars(Answer(k))
  /\ WF_vars(Restart) /\ SF_vars(RecoverPending)

FairSpec == Spec /\ Fairness

-----------------------------------------------------------------------------
(***************************************************************************)
(* Properties.                                                             *)
(***************************************************************************)
\* A request that may be on the wire has left its trace in the file: whatever
\* moment the process dies at, the row found there is not one that the startup
\* pass or any other sends on its own (outbox.ts:124).
InterruptedSendIsKnown ==
  \A k \in Keys : flight[k] # "no" => RecoveredRow(disk[k]).state = "ambiguous"

\* The delivery promise as the outbox states it (outbox.ts:10): over duplicate
\* callbacks, retries and restarts, a key reaches the chat once, and once more for
\* each time the owner retries it while it is uncertain.  The code does not keep it:
\* a receipt that could not prove non-delivery is recorded as a definite failure
\* (UnprovedReceipt), and the next callback of the key sends the message again.
Delivery == INSTANCE DeliveryPromise
ImplementsPromise == Delivery!PromiseSpec

\* Such receipts are the only way to a second message: counted with what the promise
\* allows, they bound what reaches the chat, over duplicate callbacks, passes that
\* meet on a key, failed writes, late arrivals and restarts (outbox.ts:124, :270).
Counted == INSTANCE DeliveryPromise WITH allowed <- [k \in Keys |-> allowed[k] + misread[k]]
DuplicatesAreMisread == Counted!PromiseSpec

\* A row the outbox has marked ambiguous is not sent by any pass, nor changed by a
\* restart: it stays until the owner retries it or deletes all data (outbox.ts:234).
\* It speaks of those rows only: a send whose failure was not proved and whose row
\* says failed is sent again (ImplementsPromise).
AmbiguityAwaitsOwner ==
  [][\A k \in Keys :
       rows[k].state = "ambiguous" /\ rows'[k] # rows[k] =>
         \/ \E p \in Callers : Retry(p, k)
         \/ ResetData
         \/ Crash /\ RecoveredRow(disk[k]).state = "ambiguous"]_vars

\* A progress message is not sent once a progress, decision or result message of
\* its item was created after it, through restarts that compute the sequence
\* numbers anew and passes that started before (outbox.ts:13, FR-33).
LateProgressIsDropped ==
  [][\A j, k \in Keys :
       /\ flight[k] = "no" /\ flight'[k] = "asked"
       /\ Purpose[k] = "progress"
       /\ Item[j] = Item[k] /\ HasRow(j) /\ Purpose[j] # "ack"
       => k \notin older[j]]_vars

\* An enqueued message comes to an end - sent, refused, dropped or uncertain -
\* unless a write of the file failed on the way or the data were deleted: a
\* process that dies between the row's two writes leaves a row the startup pass
\* sends (outbox.ts:341).
EnqueuedMessageSettles ==
  \A k \in Keys :
    rows[k].state \in {"pending", "sending"} /\ faults = 0
      ~> rows[k].state \in {"sent", "failed", "ambiguous"} \/ k \in retired \/ faults > 0
=============================================================================
