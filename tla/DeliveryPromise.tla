-------------------------- MODULE DeliveryPromise --------------------------
(***************************************************************************)
(* What the delivery outbox promises of each message key, with the rows,   *)
(* the file, the passes and the restarts left out: a key reaches the chat  *)
(* at most once for the promise made by its enqueue, and once more for     *)
(* each time another attempt was allowed.                                  *)
(*                                                                         *)
(* Outbox is held against this module twice: with the owner's retries as   *)
(* the only renewals, which it fails, and with the receipts it misreads    *)
(* counted among them, which it implements.                                *)
(***************************************************************************)
EXTENDS Naturals

CONSTANT Keys            \* idempotency keys of messages

VARIABLES allowed,       \* attempts that may reach the chat, by key
          chat           \* messages that reached the chat, by key

promiseVars == <<allowed, chat>>

PromiseInit ==
  /\ allowed = [k \in Keys |-> 0]
  /\ chat = [k \in Keys |-> 0]

-----------------------------------------------------------------------------
\* A new key is enqueued.
Promise(k) ==
  /\ allowed[k] = 0
  /\ allowed' = [allowed EXCEPT ![k] = 1]
  /\ UNCHANGED chat

\* Another attempt is let through although an earlier one may have arrived.
Renew(k) ==
  /\ allowed[k] > 0
  /\ allowed' = [allowed EXCEPT ![k] = @ + 1]
  /\ UNCHANGED chat

\* The message arrives.
Arrive(k) ==
  /\ chat[k] < allowed[k]
  /\ chat' = [chat EXCEPT ![k] = @ + 1]
  /\ UNCHANGED allowed

PromiseNext == \E k \in Keys : Promise(k) \/ Renew(k) \/ Arrive(k)

PromiseSpec == PromiseInit /\ [][PromiseNext]_promiseVars
=============================================================================
