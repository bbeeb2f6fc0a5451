--------------------------- MODULE Outbox_proofs ---------------------------
(***************************************************************************)
(* Outbox for every set of keys and of callers, every number of failed     *)
(* writes and of deaths of the process.                                    *)
(***************************************************************************)
EXTENDS Outbox, WellFoundedInduction, TLAPS

-----------------------------------------------------------------------------
(***************************************************************************)
(* Types.  The restart takes the highest sequence number found in the      *)
(* file, which exists because some number bounds them all.                 *)
(***************************************************************************)
SequencesBounded ==
  \E bound \in Nat : \A k \in Keys : rows[k].seq <= bound /\ disk[k].seq <= bound

TypeInv == TypeOK /\ SequencesBounded

\* A bounded non-empty set of natural numbers has a greatest element.
LEMMA GreatestNatural ==
  ASSUME NEW S \in SUBSET Nat, S # {}, NEW bound \in Nat, \A n \in S : n <= bound
  PROVE  Max(S) \in S /\ \A n \in S : Max(S) >= n
<1> DEFINE Distances == {bound - n : n \in S}
           Less == OpToRel(<, Nat)
<1>1. Distances \subseteq Nat
  OBVIOUS
<1>2. Distances # {}
  OBVIOUS
<1>3. PICK least \in Distances : \A d \in Distances : ~ (<<d, least>> \in Less)
  <2> HIDE DEF Distances, Less
  <2>1. IsWellFoundedOn(Less, Nat)
    BY NatLessThanWellFounded DEF Less
  <2> QED
    BY <1>1, <1>2, <2>1, WFMin
<1>4. \A d \in Distances : least <= d
  <2> HIDE DEF Distances
  <2> TAKE d \in Distances
  <2>1. least \in Nat /\ d \in Nat
    BY <1>1, <1>3
  <2>2. ~ (d < least)
    <3>1. <<d, least>> \notin {ss \in Nat \X Nat : ss[1] < ss[2]}
      BY <1>3 DEF OpToRel
    <3> QED
      BY <2>1, <3>1
  <2> QED
    BY <2>1, <2>2
<1>5. PICK n \in S : least = bound - n
  BY <1>3
<1>6. \A m \in S : n >= m
  <2> TAKE m \in S
  <2>1. bound - n <= bound - m
    BY <1>4, <1>5
  <2> QED
    BY <2>1
<1> QED
  BY <1>6 DEF Max

LEMMA HighestSequenceType ==
  ASSUME TypeInv, NEW i \in Items
  PROVE  /\ HighestSequence(disk, i) \in Nat
         /\ \A k \in Keys : Item[k] = i => disk[k].seq <= HighestSequence(disk, i)
<1> DEFINE S == {0} \cup {disk[k].seq : k \in {j \in Keys : Item[j] = i}}
<1>1. PICK bound \in Nat : \A k \in Keys : disk[k].seq <= bound
  BY DEF TypeInv, SequencesBounded
<1>2. S \in SUBSET Nat /\ S # {}
  BY DEF TypeInv, TypeOK, Row
<1>3. \A n \in S : n <= bound
  BY <1>1
<1>4. Max(S) \in S /\ \A n \in S : Max(S) >= n
  BY <1>2, <1>3, GreatestNatural
<1>5. HighestSequence(disk, i) = Max(S)
  BY DEF HighestSequence
<1> HIDE DEF S
<1>6. Max(S) \in Nat
  BY <1>2, <1>4
<1>7. \A k \in Keys : Item[k] = i => disk[k].seq \in S
  BY DEF S
<1> QED
  BY <1>2, <1>4, <1>5, <1>6, <1>7

LEMMA FaultsType ==
  ASSUME TypeInv, Written \/ NotWritten
  PROVE  faults' \in Nat /\ (disk' = rows' \/ disk' = disk)
BY OutboxAssumption DEF TypeInv, TypeOK, Written, NotWritten

LEMMA RowType ==
  ASSUME NEW row \in Row, NEW state \in State
  PROVE  WithState(row, state) \in Row /\ WithState(row, state).seq = row.seq
         /\ WithState(row, state).state = state
BY DEF WithState, Row, State

\* One row is put, and the file keeps its rows or takes those in memory.
LEMMA PutType ==
  ASSUME TypeInv, NEW k \in Keys, NEW row \in Row, Put(k, row),
         disk' = rows' \/ disk' = disk
  PROVE  /\ rows' \in [Keys -> Row] /\ disk' \in [Keys -> Row]
         /\ SequencesBounded'
<1>1. rows' \in [Keys -> Row] /\ disk' \in [Keys -> Row]
  BY DEF Put, TypeInv, TypeOK
<1>2. PICK bound \in Nat : \A j \in Keys : rows[j].seq <= bound /\ disk[j].seq <= bound
  BY DEF TypeInv, SequencesBounded
<1>3. bound + row.seq \in Nat /\ row.seq \in Nat
  BY DEF Row
<1>4. \A j \in Keys : rows[j].seq \in Nat /\ disk[j].seq \in Nat
  BY DEF TypeInv, TypeOK, Row
<1>5. \A j \in Keys : rows'[j].seq <= bound + row.seq
  BY <1>2, <1>3, <1>4 DEF Put, TypeInv, TypeOK
<1>6. \A j \in Keys : disk'[j].seq <= bound + row.seq
  BY <1>2, <1>3, <1>4, <1>5
<1> QED
  BY <1>1, <1>3, <1>5, <1>6 DEF SequencesBounded

\* The bookkeeping of passes keeps its type.
LEMMA PassType ==
  ASSUME TypeInv, NEW p \in Passes, NEW k \in Keys,
         \/ \E todo \in SUBSET Keys : Starts(p, todo)
         \/ Throws(p)
         \/ GoesOn(p, k)
         \/ Awaits(p, k)
         \/ Resume(k, TRUE)
         \/ Resume(k, FALSE)
         \/ UNCHANGED <<pass, waits>>
  PROVE  pass' \in [Passes -> SUBSET Keys] /\ waits' \in [Passes -> Keys \cup {NoKey}]
BY DEF TypeInv, TypeOK, Starts, Throws, GoesOn, Awaits, Resume

LEMMA FlushesType ==
  ASSUME TypeInv, NEW p \in Passes, NEW k \in Keys, Flushes(p, k)
  PROVE  pass' \in [Passes -> SUBSET Keys] /\ waits' \in [Passes -> Keys \cup {NoKey}]
<1>1. {k} \in SUBSET Keys /\ UnsettledRows(rows', Item[k]) \in SUBSET Keys
  BY DEF UnsettledRows
<1> QED
  BY <1>1, PassType DEF Flushes

LEMMA SettleType ==
  ASSUME TypeInv, NEW k \in Keys, NEW state \in State, Settle(k, state),
         stray' \in [Keys -> Nat], allowed' \in [Keys -> Nat], misread' \in [Keys -> Nat]
  PROVE  TypeInv'
<1>1. WithState(rows[k], state) \in Row
  BY RowType DEF TypeInv, TypeOK
<1>2. disk' = rows' \/ disk' = disk
  BY DEF Settle, Written, NotWritten
<1>3. /\ rows' \in [Keys -> Row] /\ disk' \in [Keys -> Row]
      /\ SequencesBounded'
  BY <1>1, <1>2, PutType DEF Settle
<1>4. Startup \in Passes
  BY DEF Passes
<1>5. pass' \in [Passes -> SUBSET Keys] /\ waits' \in [Passes -> Keys \cup {NoKey}]
  BY <1>4, PassType DEF Settle
<1>6. flight' \in [Keys -> {"no", "asked", "taken"}]
  BY DEF Settle, TypeInv, TypeOK
<1>7. faults' \in Nat
  BY FaultsType DEF Settle
<1> QED
  BY <1>3, <1>5, <1>6, <1>7 DEF Settle, senderVars, TypeInv, TypeOK

LEMMA TypeInvariant == Spec => []TypeInv
<1>1. Init => TypeInv
  <2> SUFFICES ASSUME Init PROVE TypeInv
    OBVIOUS
  <2>1. TypeOK
    BY DEF Init, TypeOK, NoRow, Row
  <2>2. SequencesBounded
    <3>1. \A k \in Keys : rows[k].seq <= 0 /\ disk[k].seq <= 0
      BY DEF Init, NoRow
    <3> QED
      BY <3>1 DEF SequencesBounded
  <2> QED
    BY <2>1, <2>2 DEF TypeInv
<1>2. TypeInv /\ [Next]_vars => TypeInv'
  <2> SUFFICES ASSUME TypeInv, [Next]_vars PROVE TypeInv'
    OBVIOUS
  <2> USE DEF senderVars
  <2>a. "pending" \in State /\ "sending" \in State /\ "sent" \in State
        /\ "failed" \in State /\ "ambiguous" \in State
    BY DEF State
  <2>b. \A k \in Keys : rows[k] \in Row /\ disk[k] \in Row
    BY DEF TypeInv, TypeOK
  <2>c. \A p \in Callers : p \in Passes
    BY DEF Passes
  <2>d. Startup \in Passes
    BY DEF Passes
  <2>1. ASSUME NEW p \in Callers, NEW k \in Keys, Enqueue(p, k) PROVE TypeInv'
    <3>1. NewRow(k) \in Row
      BY OutboxAssumption DEF NewRow, Row, State, TypeInv, TypeOK
    <3>2. faults' \in Nat /\ (disk' = rows' \/ disk' = disk)
      BY <2>1, FaultsType DEF Enqueue
    <3>3. /\ rows' \in [Keys -> Row] /\ disk' \in [Keys -> Row]
          /\ SequencesBounded'
      BY <2>1, <3>1, <3>2, PutType DEF Enqueue
    <3>4. pass' \in [Passes -> SUBSET Keys] /\ waits' \in [Passes -> Keys \cup {NoKey}]
      <4>1. CASE Flushes(p, k)
        BY <4>1, <2>c, FlushesType
      <4>2. CASE UNCHANGED <<pass, waits>>
        BY <4>2 DEF TypeInv, TypeOK
      <4> QED
        BY <2>1, <4>1, <4>2 DEF Enqueue
    <3>5. sequence' \in [Items -> Nat]
      <4>1. sequence' = [sequence EXCEPT ![Item[k]] = @ + 1] /\ Item[k] \in Items
        BY <2>1, OutboxAssumption DEF Enqueue
      <4>2. sequence \in [Items -> Nat]
        BY DEF TypeInv, TypeOK
      <4> QED
        BY <4>1, <4>2
    <3>7. allowed' \in [Keys -> Nat]
      <4>1. allowed' = [allowed EXCEPT ![k] = IF @ = 0 THEN 1 ELSE @]
        BY <2>1 DEF Enqueue
      <4> QED
        BY <4>1 DEF TypeInv, TypeOK
    <3>6. older' \in [Keys -> SUBSET Keys]
      BY <2>1 DEF Enqueue, TypeInv, TypeOK
    <3> QED
      BY <2>1, <3>2, <3>3, <3>4, <3>5, <3>6, <3>7 DEF Enqueue, TypeInv, TypeOK
  <2>2. ASSUME NEW p \in Callers, NEW k \in Keys, EnqueueAgain(p, k) PROVE TypeInv'
    <3>1. pass' \in [Passes -> SUBSET Keys] /\ waits' \in [Passes -> Keys \cup {NoKey}]
      BY <2>2, <2>c, FlushesType DEF EnqueueAgain
    <3> QED
      BY <2>2, <3>1 DEF EnqueueAgain, TypeInv, TypeOK, SequencesBounded
  <2>3. ASSUME NEW p \in Callers, NEW k \in Keys, Retry(p, k) PROVE TypeInv'
    <3>1. WithState(rows[k], "pending") \in Row
      BY <2>a, <2>b, RowType
    <3>2. faults' \in Nat /\ (disk' = rows' \/ disk' = disk)
      BY <2>3, FaultsType DEF Retry
    <3>3. /\ rows' \in [Keys -> Row] /\ disk' \in [Keys -> Row]
          /\ SequencesBounded'
      BY <2>3, <3>1, <3>2, PutType DEF Retry
    <3>4. pass' \in [Passes -> SUBSET Keys] /\ waits' \in [Passes -> Keys \cup {NoKey}]
      <4>1. {k} \in SUBSET Keys
        OBVIOUS
      <4> QED
        BY <2>3, <2>c, <4>1, PassType DEF Retry
    <3>5. allowed' \in [Keys -> Nat]
      BY <2>3 DEF Retry, TypeInv, TypeOK
    <3> QED
      BY <2>3, <3>2, <3>3, <3>4, <3>5 DEF Retry, TypeInv, TypeOK
  <2>4. ASSUME RecoverPending PROVE TypeInv'
    <3>1. PendingRows \in SUBSET Keys
      BY DEF PendingRows
    <3>2. pass' \in [Passes -> SUBSET Keys] /\ waits' \in [Passes -> Keys \cup {NoKey}]
      BY <2>4, <3>1, <2>d DEF RecoverPending, Starts, TypeInv, TypeOK
    <3> QED
      BY <2>4, <3>2 DEF RecoverPending, TypeInv, TypeOK, SequencesBounded
  <2>5. ASSUME NEW p \in Passes, FlushOne(p) PROVE TypeInv'
    <3>1. PICK k \in Keys : JoinFlight(p, k) \/ AlreadySettled(p, k)
                            \/ SuppressStale(p, k) \/ Send(p, k)
      BY <2>5 DEF FlushOne
    <3>2. pass' \in [Passes -> SUBSET Keys] /\ waits' \in [Passes -> Keys \cup {NoKey}]
      BY <3>1, PassType DEF JoinFlight, AlreadySettled, SuppressStale, Send
    <3>3. UNCHANGED <<senderVars, stray, chat, allowed, misread>>
      BY <2>5 DEF FlushOne
    <3>4. CASE JoinFlight(p, k) \/ AlreadySettled(p, k)
      BY <3>2, <3>3, <3>4 DEF JoinFlight, AlreadySettled, TypeInv, TypeOK, SequencesBounded
    <3>5. CASE SuppressStale(p, k) \/ Send(p, k)
      <4>1. faults' \in Nat /\ (disk' = rows' \/ disk' = disk)
        BY <3>5, FaultsType DEF SuppressStale, Send
      <4>2. WithState(rows[k], "failed") \in Row /\ WithState(rows[k], "sending") \in Row
        BY <2>a, <2>b, RowType
      <4>3. /\ rows' \in [Keys -> Row] /\ disk' \in [Keys -> Row]
            /\ SequencesBounded'
        BY <3>5, <4>1, <4>2, PutType DEF SuppressStale, Send
      <4>4. flight' \in [Keys -> {"no", "asked", "taken"}]
        BY <3>5 DEF SuppressStale, Send, TypeInv, TypeOK
      <4> QED
        BY <3>2, <3>3, <4>1, <4>3, <4>4 DEF TypeInv, TypeOK
    <3> QED
      BY <3>1, <3>4, <3>5
  <2>6. ASSUME NEW k \in Keys, Take(k) \/ TakeStray(k) PROVE TypeInv'
    <3>1. chat' \in [Keys -> Nat]
      BY <2>6 DEF Take, TakeStray, TypeInv, TypeOK
    <3>2. stray' \in [Keys -> Nat]
      BY <2>6 DEF Take, TakeStray, TypeInv, TypeOK
    <3>3. flight' \in [Keys -> {"no", "asked", "taken"}]
      BY <2>6 DEF Take, TakeStray, TypeInv, TypeOK
    <3>4. UNCHANGED <<senderVars, rows, disk, pass, waits, allowed, misread, faults>>
      BY <2>6 DEF Take, TakeStray
    <3> QED
      BY <3>1, <3>2, <3>3, <3>4 DEF TypeInv, TypeOK, SequencesBounded
  <2>7. ASSUME NEW k \in Keys, Answer(k) PROVE TypeInv'
    <3>1. stray' \in [Keys -> Nat]
      BY <2>7 DEF Answer, SentReceipt, RefusedReceipt, UnprovedReceipt, SenderThrew,
         Orphaned, TypeInv, TypeOK
    <3>2. allowed' \in [Keys -> Nat]
      BY <2>7 DEF Answer, SentReceipt, RefusedReceipt, UnprovedReceipt, SenderThrew,
         TypeInv, TypeOK
    <3>4. misread' \in [Keys -> Nat]
      BY <2>7 DEF Answer, SentReceipt, RefusedReceipt, UnprovedReceipt, SenderThrew,
         TypeInv, TypeOK
    <3>3. Settle(k, "sent") \/ Settle(k, "failed") \/ Settle(k, "ambiguous")
      BY <2>7 DEF Answer, SentReceipt, RefusedReceipt, UnprovedReceipt, SenderThrew
    <3> QED
      BY <2>a, <3>1, <3>2, <3>3, <3>4, SettleType
  <2>8. CASE WriteTokens
    BY <2>8 DEF WriteTokens, TypeInv, TypeOK, SequencesBounded
  <2>9. CASE Crash
    <3>1. SequencesBounded'
      <4>1. PICK bound \in Nat : \A k \in Keys : disk[k].seq <= bound
        BY DEF TypeInv, SequencesBounded
      <4>2. \A k \in Keys : rows'[k].seq <= bound /\ disk'[k].seq <= bound
        BY <2>9, <4>1 DEF Crash, NoRow
      <4> QED
        BY <4>2 DEF SequencesBounded
    <3>2. rows' \in [Keys -> Row]
      BY <2>9 DEF Crash, NoRow, Row
    <3>3. stray' \in [Keys -> Nat]
      BY <2>9 DEF Crash, TypeInv, TypeOK
    <3>4. crashes' \in Nat
      BY <2>9 DEF Crash, TypeInv, TypeOK
    <3>5. sequence' \in [Items -> Nat] /\ flight' \in [Keys -> {"no", "asked", "taken"}]
      BY <2>9 DEF Crash
    <3>6. pass' \in [Passes -> SUBSET Keys] /\ waits' \in [Passes -> Keys \cup {NoKey}]
      BY <2>9 DEF Crash
    <3> QED
      BY <2>9, <3>1, <3>2, <3>3, <3>4, <3>5, <3>6 DEF Crash, TypeInv, TypeOK
  <2>10. CASE Restart
    <3>1. \A k \in Keys : RecoveredRow(disk[k]) \in Row
                          /\ RecoveredRow(disk[k]).seq = disk[k].seq
      BY <2>a, <2>b, RowType DEF RecoveredRow
    <3>2. rows' \in [Keys -> Row] /\ disk' \in [Keys -> Row]
      BY <2>10, <3>1 DEF Restart
    <3>3. SequencesBounded'
      <4>1. PICK bound \in Nat : \A k \in Keys : disk[k].seq <= bound
        BY DEF TypeInv, SequencesBounded
      <4>2. \A k \in Keys : rows'[k].seq <= bound /\ disk'[k].seq <= bound
        BY <2>10, <3>1, <4>1 DEF Restart
      <4> QED
        BY <4>2 DEF SequencesBounded
    <3>4. sequence' \in [Items -> Nat]
      BY <2>10, HighestSequenceType DEF Restart
    <3> QED
      BY <2>10, <3>2, <3>3, <3>4 DEF Restart, TypeInv, TypeOK
  <2>11. CASE ResetData
    <3>1. SequencesBounded'
      <4>1. \A k \in Keys : rows'[k].seq <= 0 /\ disk'[k].seq <= 0
        BY <2>11 DEF ResetData, NoRow
      <4> QED
        BY <4>1 DEF SequencesBounded
    <3> QED
      BY <2>11, <3>1 DEF ResetData, NoRow, Row, TypeInv, TypeOK
  <2>12. CASE UNCHANGED vars
    BY <2>12 DEF vars, TypeInv, TypeOK, SequencesBounded
  <2> QED
    BY <2>1, <2>2, <2>3, <2>4, <2>5, <2>6, <2>7, <2>8, <2>9, <2>10, <2>11, <2>12 DEF Next
<1> QED
  BY <1>1, <1>2, PTL DEF Spec

\* No pass, answer, death or recovery writes a state the code does not know.
THEOREM TypeCorrect == Spec => []TypeOK
<1>1. TypeInv => TypeOK
  BY DEF TypeInv
<1> QED
  BY <1>1, TypeInvariant, PTL

-----------------------------------------------------------------------------
(***************************************************************************)
(* The promise.  A row that some pass may still send - in memory, or in    *)
(* the file once the process dies - has an attempt to spare: what arrived  *)
(* and what may yet arrive unasked stays below what was allowed or misread *)
(* (Granted).                                                              *)
(***************************************************************************)
Asked(k) == IF flight[k] = "asked" THEN 1 ELSE 0
Granted(k) == allowed[k] + misread[k]
Spare(k) == chat[k] + stray[k] < Granted(k)

MayBeSent(state, k) ==
  \/ state = "pending" \/ state = "failed"
  \/ state = "none" /\ k \notin retired /\ allowed[k] > 0

KeyInv(k) ==
  /\ flight[k] # "no" => up /\ rows[k].state = "sending" /\ disk[k].state = "sending"
  /\ chat[k] + stray[k] + Asked(k) <= Granted(k)
  /\ up /\ flight[k] = "no" /\ (MayBeSent(rows[k].state, k) \/ rows[k].state = "sending")
       => Spare(k)
  /\ MayBeSent(disk[k].state, k) => Spare(k)
  /\ allowed[k] = 0 => rows[k].state = "none" /\ disk[k].state = "none" /\ misread[k] = 0

PromiseInv == \A k \in Keys : KeyInv(k)

LEMMA NumbersType ==
  ASSUME TypeInv, NEW k \in Keys
  PROVE  /\ chat[k] \in Nat /\ stray[k] \in Nat /\ allowed[k] \in Nat
         /\ misread[k] \in Nat
         /\ flight[k] \in {"no", "asked", "taken"}
         /\ rows[k] \in Row /\ disk[k] \in Row
BY DEF TypeInv, TypeOK

\* A key the step does not touch, whose row in the file is kept or refreshed.
LEMMA UntouchedKey ==
  ASSUME TypeInv, NEW j \in Keys, KeyInv(j), up, up' = up, retired' = retired,
         rows'[j] = rows[j], flight'[j] = flight[j], chat'[j] = chat[j],
         stray'[j] = stray[j], allowed'[j] = allowed[j], misread'[j] = misread[j],
         disk'[j] = rows[j] \/ disk'[j] = disk[j]
  PROVE  KeyInv(j)'
BY NumbersType DEF KeyInv, Asked, Spare, Granted, MayBeSent

\* A step that puts one row need only be looked at for that row's key.
LEMMA OnePut ==
  ASSUME TypeInv, PromiseInv, NEW k \in Keys, NEW row \in Row, Put(k, row),
         disk' = rows' \/ disk' = disk,
         up, up' = up, retired' = retired,
         \A j \in Keys \ {k} : /\ flight'[j] = flight[j] /\ chat'[j] = chat[j]
                              /\ stray'[j] = stray[j] /\ allowed'[j] = allowed[j]
                              /\ misread'[j] = misread[j],
         KeyInv(k)'
  PROVE  PromiseInv'
<1> SUFFICES ASSUME NEW j \in Keys, j # k PROVE KeyInv(j)'
  BY DEF PromiseInv
<1>1. rows'[j] = rows[j] /\ (disk'[j] = rows[j] \/ disk'[j] = disk[j])
  BY DEF Put, TypeInv, TypeOK
<1> QED
  BY <1>1, UntouchedKey DEF PromiseInv

\* A step that puts no row and changes the numbers of one key.
LEMMA OneKey ==
  ASSUME TypeInv, PromiseInv, NEW k \in Keys,
         UNCHANGED <<up, rows, disk, allowed, misread, retired>>,
         \A j \in Keys \ {k} : /\ flight'[j] = flight[j] /\ chat'[j] = chat[j]
                              /\ stray'[j] = stray[j],
         KeyInv(k)'
  PROVE  PromiseInv'
<1> SUFFICES ASSUME NEW j \in Keys, j # k PROVE KeyInv(j)'
  BY DEF PromiseInv
<1> QED
  BY NumbersType DEF PromiseInv, KeyInv, Asked, Spare, Granted, MayBeSent

-----------------------------------------------------------------------------
(***************************************************************************)
(* Each step keeps the promise.                                            *)
(***************************************************************************)
LEMMA EnqueueKeeps ==
  ASSUME TypeInv, PromiseInv, NEW p \in Callers, NEW k \in Keys, Enqueue(p, k)
  PROVE  PromiseInv'
<1>1. NewRow(k) \in Row /\ NewRow(k).state = "pending"
  BY OutboxAssumption DEF NewRow, Row, State, TypeInv, TypeOK
<1>2. disk' = rows' \/ disk' = disk
  BY FaultsType DEF Enqueue
<1>3. rows'[k] = NewRow(k) /\ rows[k].state = "none"
  BY DEF Enqueue, Put, HasRow, TypeInv, TypeOK
<1>4. allowed' = [allowed EXCEPT ![k] = IF @ = 0 THEN 1 ELSE @]
  BY DEF Enqueue
<1>5. /\ allowed'[k] = IF allowed[k] = 0 THEN 1 ELSE allowed[k]
      /\ \A j \in Keys \ {k} : allowed'[j] = allowed[j]
  BY <1>4 DEF TypeInv, TypeOK
<1>6. UNCHANGED <<up, flight, stray, chat, misread, retired>> /\ up /\ k \notin retired
  BY DEF Enqueue, Quiet
<1>7. KeyInv(k)'
  <2>1. chat[k] + stray[k] < allowed'[k] + misread[k] /\ flight[k] = "no"
    BY <1>3, <1>5, <1>6, NumbersType DEF PromiseInv, KeyInv, Asked, Spare, Granted, MayBeSent
  <2> QED
    BY <1>1, <1>2, <1>3, <1>5, <1>6, <2>1, NumbersType
       DEF KeyInv, Asked, Spare, Granted, MayBeSent
<1> QED
  BY <1>1, <1>2, <1>5, <1>6, <1>7, OnePut DEF Enqueue

LEMMA RetryKeeps ==
  ASSUME TypeInv, PromiseInv, NEW p \in Callers, NEW k \in Keys, Retry(p, k)
  PROVE  PromiseInv'
<1>1. /\ WithState(rows[k], "pending") \in Row
      /\ WithState(rows[k], "pending").state = "pending"
  BY NumbersType, RowType DEF State
<1>2. disk' = rows' \/ disk' = disk
  BY FaultsType DEF Retry
<1>3. rows'[k] = WithState(rows[k], "pending")
  BY DEF Retry, Put, TypeInv, TypeOK
<1>4. /\ allowed'[k] = IF rows[k].state = "ambiguous" THEN allowed[k] + 1 ELSE allowed[k]
      /\ \A j \in Keys \ {k} : allowed'[j] = allowed[j]
  BY DEF Retry, TypeInv, TypeOK
<1>5. UNCHANGED <<up, flight, stray, chat, misread, retired>> /\ up
  BY DEF Retry, Quiet, senderVars
<1>6. /\ flight[k] = "no" /\ rows[k].state # "sent" /\ rows[k].state # "none"
      /\ rows[k].state \in State \cup {"none"}
  BY NumbersType DEF Retry, HasRow, Row
<1>7. KeyInv(k)'
  <2>1. chat[k] + stray[k] < allowed'[k] + misread[k] /\ allowed'[k] \in Nat
    BY <1>4, <1>6, NumbersType, <1>5
       DEF PromiseInv, KeyInv, Asked, Spare, Granted, MayBeSent, State
  <2>2. MayBeSent(disk[k].state, k) => chat[k] + stray[k] < allowed'[k] + misread[k]
    BY <2>1
  <2>3. chat'[k] + stray'[k] < Granted(k)' /\ Asked(k)' = 0
    BY <1>5, <1>6, <2>1 DEF Granted, Asked
  <2>4. allowed'[k] > 0
    BY <1>4, <1>6, NumbersType DEF PromiseInv, KeyInv
  <2> QED
    BY <1>1, <1>3, <1>5, <1>6, <2>1, <2>3, <2>4, NumbersType DEF KeyInv, Spare, Granted
<1> QED
  BY <1>1, <1>2, <1>4, <1>5, <1>7, OnePut DEF Retry

LEMMA FlushKeeps ==
  ASSUME TypeInv, PromiseInv, NEW p \in Passes, FlushOne(p)
  PROVE  PromiseInv'
<1>1. PICK k \in Keys : /\ HasRow(k)
                        /\ \/ JoinFlight(p, k) \/ AlreadySettled(p, k)
                           \/ SuppressStale(p, k) \/ Send(p, k)
  BY DEF FlushOne
<1>2. UNCHANGED <<up, stray, chat, allowed, misread, retired>> /\ up
  BY DEF FlushOne, senderVars
<1>3. CASE JoinFlight(p, k) \/ AlreadySettled(p, k)
  BY <1>2, <1>3 DEF JoinFlight, AlreadySettled, PromiseInv, KeyInv, Asked, Spare, Granted, MayBeSent
<1>4. CASE SuppressStale(p, k) \/ Send(p, k)
  <2>1. PICK state \in {"failed", "sending"} : Put(k, WithState(rows[k], state))
    BY <1>4 DEF SuppressStale, Send
  <2>2. WithState(rows[k], state) \in Row /\ WithState(rows[k], state).state = state
    BY NumbersType, RowType DEF State
  <2>3. rows'[k].state = state /\ (disk' = rows' \/ disk' = disk)
    BY <1>4, <2>1, <2>2, FaultsType DEF SuppressStale, Send, Put, TypeInv, TypeOK
  <2>4. flight[k] = "no" /\ Spare(k)
    BY <1>1, <1>2, <1>4, NumbersType
       DEF SuppressStale, Send, IsSettled, HasRow, PromiseInv, KeyInv, MayBeSent, Row, State
  <2>5. /\ flight'[k] = "no" \/ (flight'[k] = "asked" /\ state = "sending" /\ disk' = rows')
        /\ \A j \in Keys \ {k} : flight'[j] = flight[j]
    <3>1. CASE SuppressStale(p, k)
      BY <3>1, <2>4 DEF SuppressStale
    <3>2. CASE Send(p, k) /\ UNCHANGED flight
      BY <3>2, <2>4
    <3>3. CASE Send(p, k) /\ Written /\ flight' = [flight EXCEPT ![k] = "asked"]
      <4>1. Put(k, WithState(rows[k], "sending"))
        BY <3>3 DEF Send
      <4>2. rows'[k].state = "sending"
        BY <4>1, NumbersType, RowType DEF Put, State, TypeInv, TypeOK
      <4> QED
        BY <3>3, <2>3, <4>2 DEF Written, TypeInv, TypeOK
    <3> QED
      BY <1>4, <3>1, <3>2, <3>3 DEF Send
  <2>6. KeyInv(k)'
    BY <1>2, <2>3, <2>4, <2>5, NumbersType DEF PromiseInv, KeyInv, Asked, Spare, Granted, MayBeSent
  <2> QED
    BY <1>2, <2>1, <2>2, <2>3, <2>5, <2>6, OnePut
<1> QED
  BY <1>1, <1>3, <1>4

\* The message arrives, or a request nobody waits for does.
LEMMA ChatKeeps ==
  ASSUME TypeInv, PromiseInv, NEW k \in Keys, Take(k) \/ TakeStray(k)
  PROVE  PromiseInv'
<1>1. /\ UNCHANGED <<up, rows, disk, allowed, misread, retired>>
      /\ \A j \in Keys \ {k} : /\ flight'[j] = flight[j] /\ chat'[j] = chat[j]
                              /\ stray'[j] = stray[j]
  BY DEF Take, TakeStray, senderVars, TypeInv, TypeOK
<1>2. \/ /\ flight[k] = "asked" /\ flight'[k] = "taken"
         /\ chat'[k] = chat[k] + 1 /\ stray'[k] = stray[k]
      \/ /\ stray[k] > 0 /\ flight'[k] = flight[k] /\ stray'[k] = stray[k] - 1
         /\ chat'[k] = chat[k] + 1
  BY DEF Take, TakeStray, TypeInv, TypeOK
<1>3. KeyInv(k)'
  BY <1>1, <1>2, NumbersType DEF PromiseInv, KeyInv, Asked, Spare, Granted, MayBeSent
<1> QED
  BY <1>1, <1>3, OneKey

LEMMA AnswerKeeps ==
  ASSUME TypeInv, PromiseInv, NEW k \in Keys, Answer(k)
  PROVE  PromiseInv'
<1>1. PICK state \in {"sent", "failed", "ambiguous"} : Settle(k, state)
  BY DEF Answer, SentReceipt, RefusedReceipt, UnprovedReceipt, SenderThrew
<1>2. WithState(rows[k], state) \in Row /\ WithState(rows[k], state).state = state
  BY NumbersType, RowType DEF State
<1>3. rows'[k].state = state /\ (disk' = rows' \/ disk' = disk)
  BY <1>1, <1>2, FaultsType DEF Settle, Put, TypeInv, TypeOK
<1>4. /\ flight'[k] = "no" /\ UNCHANGED <<up, chat, retired>> /\ up
      /\ \A j \in Keys \ {k} : flight'[j] = flight[j]
  BY <1>1 DEF Settle, Quiet, senderVars, TypeInv, TypeOK
<1>5. \A j \in Keys \ {k} : stray'[j] = stray[j] /\ allowed'[j] = allowed[j]
                               /\ misread'[j] = misread[j]
  BY DEF Answer, SentReceipt, RefusedReceipt, UnprovedReceipt, SenderThrew, Orphaned,
     TypeInv, TypeOK
<1>6. flight[k] # "no"
  BY DEF Answer, SentReceipt, RefusedReceipt, UnprovedReceipt, SenderThrew
<1>7. /\ chat[k] + stray'[k] <= allowed'[k] + misread'[k]
      /\ state = "failed" => chat[k] + stray'[k] < allowed'[k] + misread'[k]
      /\ stray'[k] \in Nat /\ allowed'[k] \in Nat /\ misread'[k] \in Nat /\ allowed'[k] > 0
  <2>1. allowed[k] > 0
    BY <1>6, NumbersType DEF PromiseInv, KeyInv
  <2>2. CASE SentReceipt(k)
    <3>1. state = "sent"
      BY <2>2, <1>3, NumbersType, RowType DEF SentReceipt, Settle, Put, State, TypeInv, TypeOK
    <3> QED
      BY <2>1, <2>2, <3>1, NumbersType DEF SentReceipt, PromiseInv, KeyInv, Asked, Granted
  <2>3. CASE RefusedReceipt(k)
    BY <2>1, <2>3, NumbersType DEF RefusedReceipt, PromiseInv, KeyInv, Asked, Granted
  <2>4. CASE UnprovedReceipt(k)
    BY <2>1, <2>4, NumbersType
       DEF UnprovedReceipt, Orphaned, PromiseInv, KeyInv, Asked, Granted, TypeInv, TypeOK
  <2>5. CASE SenderThrew(k)
    <3>1. state = "ambiguous"
      BY <2>5, <1>3, NumbersType, RowType DEF SenderThrew, Settle, Put, State, TypeInv, TypeOK
    <3>2. /\ stray'[k] = IF flight[k] = "asked" THEN stray[k] + 1 ELSE stray[k]
          /\ allowed'[k] = allowed[k] /\ misread'[k] = misread[k]
      BY <2>5 DEF SenderThrew, Orphaned, TypeInv, TypeOK
    <3> QED
      BY <2>1, <3>1, <3>2, NumbersType DEF PromiseInv, KeyInv, Asked, Granted
  <2> QED
    BY <2>2, <2>3, <2>4, <2>5 DEF Answer
<1>8. disk'[k].state \in {state, "sending"}
  BY <1>3, <1>6 DEF PromiseInv, KeyInv
<1>9. KeyInv(k)'
  BY <1>3, <1>4, <1>7, <1>8, NumbersType DEF KeyInv, Asked, Spare, Granted, MayBeSent
<1> QED
  BY <1>1, <1>2, <1>3, <1>4, <1>5, <1>9, OnePut DEF Settle

\* The steps of the whole process.
LEMMA ProcessKeeps ==
  ASSUME TypeInv, PromiseInv,
         WriteTokens \/ Crash \/ Restart \/ ResetData
  PROVE  PromiseInv'
<1> SUFFICES ASSUME NEW k \in Keys PROVE KeyInv(k)'
  BY DEF PromiseInv
<1>0. KeyInv(k)
  BY DEF PromiseInv
<1>1. CASE WriteTokens
  BY <1>0, <1>1, NumbersType DEF WriteTokens, Quiet, senderVars, KeyInv, Asked, Spare, Granted, MayBeSent
<1>2. CASE Crash
  <2>1. /\ up' = FALSE /\ rows'[k] = NoRow /\ flight'[k] = "no"
        /\ UNCHANGED <<disk, chat, allowed, misread, retired>>
        /\ stray'[k] = IF flight[k] = "asked" THEN stray[k] + 1 ELSE stray[k]
    BY <1>2 DEF Crash
  <2> QED
    BY <1>0, <2>1, NumbersType DEF NoRow, KeyInv, Asked, Spare, Granted, MayBeSent
<1>3. CASE Restart
  <2>1. /\ rows'[k] = RecoveredRow(disk[k]) /\ disk'[k] = RecoveredRow(disk[k])
        /\ UNCHANGED <<flight, stray, chat, allowed, misread, retired>> /\ ~up
    BY <1>3 DEF Restart
  <2>2. RecoveredRow(disk[k]).state
          = IF disk[k].state = "sending" THEN "ambiguous" ELSE disk[k].state
    BY NumbersType, RowType DEF RecoveredRow, State
  <2> QED
    BY <1>0, <2>1, <2>2, NumbersType DEF KeyInv, Asked, Spare, Granted, MayBeSent
<1>4. CASE ResetData
  <2>1. /\ rows'[k] = NoRow /\ disk'[k] = NoRow /\ up
        /\ UNCHANGED <<up, flight, stray, chat, allowed, misread>> /\ flight[k] = "no"
        /\ k \notin retired' => k \notin retired /\ rows[k].state = "none"
    BY <1>4 DEF ResetData, Quiet, HasRow
  <2> QED
    BY <1>0, <2>1, NumbersType DEF NoRow, KeyInv, Asked, Spare, Granted, MayBeSent
<1> QED
  BY <1>1, <1>2, <1>3, <1>4

-----------------------------------------------------------------------------
\* Both invariants hold throughout.
LEMMA Invariants == Spec => [](TypeInv /\ PromiseInv)
<1>1. Init => PromiseInv
  BY DEF Init, NoRow, PromiseInv, KeyInv, Asked, Spare, Granted, MayBeSent
<1>2. PromiseInv /\ TypeInv /\ [Next]_vars => PromiseInv'
  <2> SUFFICES ASSUME PromiseInv, TypeInv, [Next]_vars PROVE PromiseInv'
    OBVIOUS
  <2>1. ASSUME NEW p \in Callers, NEW k \in Keys, EnqueueAgain(p, k) PROVE PromiseInv'
    BY <2>1 DEF EnqueueAgain, senderVars, PromiseInv, KeyInv, Asked, Spare, Granted, MayBeSent
  <2>2. CASE RecoverPending
    BY <2>2 DEF RecoverPending, PromiseInv, KeyInv, Asked, Spare, Granted, MayBeSent
  <2>3. CASE UNCHANGED vars
    BY <2>3 DEF vars, PromiseInv, KeyInv, Asked, Spare, Granted, MayBeSent
  <2> QED
    BY <2>1, <2>2, <2>3, EnqueueKeeps, RetryKeeps, FlushKeeps, ChatKeeps, AnswerKeeps,
       ProcessKeeps DEF Next
<1> QED
  BY <1>1, <1>2, TypeInvariant, PTL DEF Spec

\* At no moment does the death of the process leave a row in the file that a later
\* pass sends on its own while its request is on the wire.
THEOREM InterruptedIsKnown == Spec => []InterruptedSendIsKnown
<1>1. TypeInv /\ PromiseInv => InterruptedSendIsKnown
  BY NumbersType, RowType DEF PromiseInv, KeyInv, InterruptedSendIsKnown, RecoveredRow, State
<1> QED
  BY <1>1, Invariants, PTL

\* The step of one key of the promise's function.
LEMMA OneGrant ==
  ASSUME TypeInv, NEW k \in Keys,
         \/ allowed' = [allowed EXCEPT ![k] = @ + 1] /\ misread' = misread
         \/ misread' = [misread EXCEPT ![k] = @ + 1] /\ allowed' = allowed
  PROVE  [j \in Keys |-> Granted(j)]' = [[j \in Keys |-> Granted(j)] EXCEPT ![k] = @ + 1]
<1>1. /\ Granted(k)' = Granted(k) + 1
      /\ \A j \in Keys \ {k} : Granted(j)' = Granted(j)
  BY NumbersType DEF Granted, TypeInv, TypeOK
<1> QED
  BY <1>1

\* DuplicatesAreMisread: for any number of callers, failed writes and deaths, a key
\* reaches the chat no more often than it was enqueued, retried while uncertain, and
\* had an unproved receipt recorded as a failure (flushRow, classifyDeliveryReceipt).
THEOREM DuplicatesAreCounted == Spec => DuplicatesAreMisread
<1> DEFINE granted == [k \in Keys |-> Granted(k)]
<1>1. Init => Counted!PromiseInit
  BY DEF Init, Counted!PromiseInit
<1>2. TypeInv /\ PromiseInv /\ [Next]_vars => [Counted!PromiseNext]_Counted!promiseVars
  <2> SUFFICES ASSUME TypeInv, PromiseInv, Next,
                      allowed' # allowed \/ misread' # misread \/ chat' # chat
               PROVE  Counted!PromiseNext
    BY DEF vars, Counted!promiseVars
  <2> USE DEF Counted!PromiseNext
  <2>0. \A k \in Keys : granted[k] = Granted(k)
    OBVIOUS
  <2>a. granted = [k \in Keys |-> allowed[k] + misread[k]]
    BY DEF Granted
  <2>1. ASSUME NEW p \in Callers, NEW k \in Keys, Enqueue(p, k) PROVE Counted!Promise(k)
    <3>1. /\ allowed' = [allowed EXCEPT ![k] = IF @ = 0 THEN 1 ELSE @]
          /\ chat' = chat /\ misread' = misread
      BY <2>1 DEF Enqueue
    <3>2. allowed[k] = 0
      BY <3>1 DEF TypeInv, TypeOK
    <3>3. misread[k] = 0
      BY <3>2 DEF PromiseInv, KeyInv
    <3>4. allowed' = [allowed EXCEPT ![k] = @ + 1]
      BY <3>1, <3>2 DEF TypeInv, TypeOK
    <3>5. granted' = [granted EXCEPT ![k] = @ + 1]
      BY <3>1, <3>4, OneGrant
    <3>6. granted[k] = 0
      BY <3>2, <3>3 DEF Granted
    <3>7. granted' = [granted EXCEPT ![k] = 1]
      BY <3>5, <3>6
    <3> QED
      BY <2>a, <3>1, <3>6, <3>7 DEF Counted!Promise, Granted
  <2>2. ASSUME NEW p \in Callers, NEW k \in Keys, Retry(p, k) PROVE Counted!Renew(k)
    <3>1. /\ allowed' = [allowed EXCEPT ![k] =
                           IF rows[k].state = "ambiguous" THEN @ + 1 ELSE @]
          /\ chat' = chat /\ misread' = misread
      BY <2>2 DEF Retry
    <3>2. rows[k].state = "ambiguous"
      BY <3>1 DEF TypeInv, TypeOK
    <3>3. granted[k] > 0
      BY <3>2, NumbersType DEF PromiseInv, KeyInv, Granted
    <3>4. granted' = [granted EXCEPT ![k] = @ + 1]
      BY <3>1, <3>2, OneGrant
    <3> QED
      BY <2>a, <3>1, <3>3, <3>4 DEF Counted!Renew, Granted
  <2>3. ASSUME NEW k \in Keys, Take(k) \/ TakeStray(k)
        PROVE  Counted!Arrive(k)
    <3>1. /\ chat' = [chat EXCEPT ![k] = @ + 1] /\ allowed' = allowed /\ misread' = misread
          /\ flight[k] = "asked" \/ stray[k] > 0
      BY <2>3 DEF Take, TakeStray
    <3>2. chat[k] < granted[k]
      BY <3>1, NumbersType DEF PromiseInv, KeyInv, Asked, Granted
    <3> QED
      BY <2>a, <3>1, <3>2 DEF Counted!Arrive, Granted
  <2>4. ASSUME NEW k \in Keys, Answer(k) PROVE Counted!Renew(k)
    <3>1. /\ flight[k] # "no"
          /\ misread' = [misread EXCEPT ![k] = @ + 1] /\ chat' = chat /\ allowed' = allowed
      BY <2>4 DEF Answer, SentReceipt, RefusedReceipt, UnprovedReceipt, SenderThrew, Settle
    <3>2. granted[k] > 0
      BY <3>1, NumbersType DEF PromiseInv, KeyInv, Granted
    <3>3. granted' = [granted EXCEPT ![k] = @ + 1]
      BY <3>1, OneGrant
    <3> QED
      BY <2>a, <3>1, <3>2, <3>3 DEF Counted!Renew, Granted
  <2>5. ~ \E p \in Callers, k \in Keys : EnqueueAgain(p, k)
    BY DEF EnqueueAgain
  <2>6. ~ (RecoverPending \/ WriteTokens \/ Crash \/ Restart \/ ResetData)
    BY DEF RecoverPending, WriteTokens, Crash, Restart, ResetData
  <2>7. ~ \E p \in Passes : FlushOne(p)
    BY DEF FlushOne
  <2> QED
    BY <2>1, <2>2, <2>3, <2>4, <2>5, <2>6, <2>7 DEF Next
<1> QED
  BY <1>1, <1>2, Invariants, PTL DEF Spec, DuplicatesAreMisread, Counted!PromiseSpec

-----------------------------------------------------------------------------
(***************************************************************************)
(* Order and uncertainty.  Of two rows of an item the older has the        *)
(* smaller number, in memory and in what a restart finds; the file has no  *)
(* row, and no number, that memory has not; and it knows of every          *)
(* uncertain row at least that it was sent.                                *)
(***************************************************************************)
Stored(rs, k) == rs[k].state # "none"

Ordered(rs) ==
  \A j, k \in Keys :
    /\ k \in older[j] /\ Item[j] = Item[k]
    /\ Stored(rs, j) /\ Stored(rs, k)
    => rs[k].seq < rs[j].seq

KnownRow(k) ==
  /\ HasRow(k) => rows[k].seq <= sequence[Item[k]]
  /\ Stored(disk, k) => HasRow(k) /\ disk[k].seq = rows[k].seq
  /\ rows[k].state = "ambiguous" => disk[k].state \in {"ambiguous", "sending"}

RowsInv ==
  /\ up => (\A k \in Keys : KnownRow(k)) /\ Ordered(rows)
  /\ ~up => (\A k \in Keys : rows[k] = NoRow) /\ Ordered(disk)

\* The state of one row is written; the row keeps its number.
Restates(k) ==
  /\ up /\ HasRow(k)
  /\ UNCHANGED <<up, sequence, older>>
  /\ disk' = rows' \/ disk' = disk
  /\ \E state \in State :
       /\ Put(k, WithState(rows[k], state))
       /\ state = "ambiguous" => disk[k].state = "sending"
       /\ \/ rows[k].state # "ambiguous"
          \/ \E p \in Callers : Retry(p, k)

Leaves ==
  /\ UNCHANGED <<up, rows, sequence, older>>
  /\ disk' = disk \/ (up /\ disk' = rows)

LEMMA RowSteps ==
  ASSUME TypeInv, PromiseInv, [Next]_vars
  PROVE  \/ Leaves
         \/ \E k \in Keys : Restates(k)
         \/ \E p \in Callers, k \in Keys : Enqueue(p, k)
         \/ Crash \/ Restart \/ ResetData
<1>1. {"pending", "sending", "sent", "failed", "ambiguous"} = State
  BY DEF State
<1>2. ASSUME NEW p \in Callers, NEW k \in Keys, EnqueueAgain(p, k) PROVE Leaves
  BY <1>2 DEF EnqueueAgain, Leaves, senderVars
<1>3. ASSUME NEW p \in Callers, NEW k \in Keys, Retry(p, k) PROVE Restates(k)
  <2>1. disk' = rows' \/ disk' = disk
    BY <1>3 DEF Retry, Written, NotWritten
  <2>2. up /\ HasRow(k) /\ UNCHANGED <<up, sequence, older>> /\ Put(k, WithState(rows[k], "pending"))
    BY <1>3 DEF Retry, Quiet, senderVars
  <2> QED
    BY <1>1, <1>3, <2>1, <2>2 DEF Restates
<1>4. ASSUME NEW p \in Passes, FlushOne(p) PROVE Leaves \/ \E k \in Keys : Restates(k)
  <2>1. PICK k \in Keys : /\ HasRow(k)
                          /\ \/ JoinFlight(p, k) \/ AlreadySettled(p, k)
                             \/ SuppressStale(p, k) \/ Send(p, k)
    BY <1>4 DEF FlushOne
  <2>2. up /\ UNCHANGED <<up, sequence, older>>
    BY <1>4 DEF FlushOne, senderVars
  <2>3. CASE JoinFlight(p, k) \/ AlreadySettled(p, k)
    BY <2>2, <2>3 DEF JoinFlight, AlreadySettled, Leaves
  <2>4. CASE SuppressStale(p, k) \/ Send(p, k)
    <3>1. disk' = rows' \/ disk' = disk
      BY <2>4 DEF SuppressStale, Send, Written, NotWritten
    <3>2. rows[k].state # "ambiguous"
      BY <2>4 DEF SuppressStale, Send, IsSettled
    <3>3. Put(k, WithState(rows[k], "failed")) \/ Put(k, WithState(rows[k], "sending"))
      BY <2>4 DEF SuppressStale, Send
    <3>4. Restates(k)
      BY <1>1, <2>1, <2>2, <3>1, <3>2, <3>3 DEF Restates
    <3> QED
      BY <3>4
  <2> QED
    BY <2>1, <2>3, <2>4
<1>5. ASSUME NEW k \in Keys, Take(k) \/ TakeStray(k) PROVE Leaves
  BY <1>5 DEF Take, TakeStray, Leaves, senderVars
<1>6. ASSUME NEW k \in Keys, Answer(k) PROVE Restates(k)
  <2>1. PICK state \in State : Settle(k, state)
    BY <1>1, <1>6 DEF Answer, SentReceipt, RefusedReceipt, UnprovedReceipt, SenderThrew
  <2>2. flight[k] # "no"
    BY <1>6 DEF Answer, SentReceipt, RefusedReceipt, UnprovedReceipt, SenderThrew
  <2>3. rows[k].state = "sending" /\ disk[k].state = "sending"
    BY <2>2 DEF PromiseInv, KeyInv
  <2>4. /\ up /\ UNCHANGED <<up, sequence, older>> /\ (disk' = rows' \/ disk' = disk)
        /\ Put(k, WithState(rows[k], state))
    BY <2>1 DEF Settle, Quiet, senderVars, Written, NotWritten
  <2> QED
    BY <2>3, <2>4 DEF Restates, HasRow
<1>7. CASE RecoverPending \/ WriteTokens \/ UNCHANGED vars
  BY <1>7 DEF RecoverPending, WriteTokens, Quiet, Leaves, senderVars, vars
<1> QED
  BY <1>2, <1>3, <1>4, <1>5, <1>6, <1>7 DEF Next

LEMMA RestatedRows ==
  ASSUME TypeInv, NEW k \in Keys, Restates(k)
  PROVE  /\ \A j \in Keys : /\ Stored(rows', j) <=> Stored(rows, j)
                            /\ rows'[j].seq = rows[j].seq
                            /\ j # k => rows'[j] = rows[j]
         /\ rows'[k].state = "ambiguous" => disk[k].state = "sending"
<1>1. PICK state \in State :
        /\ rows' = [rows EXCEPT ![k] = WithState(rows[k], state)]
        /\ state = "ambiguous" => disk[k].state = "sending"
  BY DEF Restates, Put
<1>2. /\ rows'[k] = WithState(rows[k], state) /\ rows[k] \in Row
      /\ \A j \in Keys \ {k} : rows'[j] = rows[j]
  BY <1>1 DEF TypeInv, TypeOK
<1>3. rows'[k].seq = rows[k].seq /\ rows'[k].state = state /\ state # "none"
  BY <1>2, RowType DEF State
<1> QED
  BY <1>1, <1>2, <1>3 DEF Restates, HasRow, Stored

LEMMA RowsInvKept ==
  ASSUME TypeInv, PromiseInv, RowsInv, [Next]_vars
  PROVE  RowsInv'
<1>1. CASE Leaves
  BY <1>1 DEF Leaves, RowsInv, KnownRow, Ordered, Stored, HasRow
<1>2. ASSUME NEW k \in Keys, Restates(k) PROVE RowsInv'
  <2>1. /\ up /\ up' /\ UNCHANGED <<sequence, older>> /\ (disk' = rows' \/ disk' = disk)
        /\ (\A j \in Keys : KnownRow(j)) /\ Ordered(rows)
    BY <1>2 DEF Restates, RowsInv
  <2>2. Ordered(rows)'
    BY <1>2, <2>1, RestatedRows DEF Ordered
  <2>3. ASSUME NEW j \in Keys PROVE KnownRow(j)'
    BY <1>2, <2>1, RestatedRows DEF KnownRow, HasRow, Stored
  <2> QED
    BY <2>1, <2>2, <2>3 DEF RowsInv
<1>3. ASSUME NEW p \in Callers, NEW k \in Keys, Enqueue(p, k) PROVE RowsInv'
  <2>1. /\ up /\ up' /\ ~HasRow(k) /\ (disk' = rows' \/ disk' = disk)
        /\ (\A j \in Keys : KnownRow(j)) /\ Ordered(rows)
    BY <1>3 DEF Enqueue, Quiet, Written, NotWritten, RowsInv
  <2>2. PICK n \in Nat : n = sequence[Item[k]]
    BY OutboxAssumption DEF TypeInv, TypeOK
  <2>3. /\ sequence' = [sequence EXCEPT ![Item[k]] = n + 1]
        /\ rows'[k] = [state |-> "pending", seq |-> n + 1]
        /\ \A j \in Keys \ {k} : rows'[j] = rows[j]
    BY <1>3, <2>2 DEF Enqueue, Put, NewRow, TypeInv, TypeOK
  <2>4. /\ sequence'[Item[k]] = n + 1
        /\ \A j \in Keys : Item[j] # Item[k] => sequence'[Item[j]] = sequence[Item[j]]
    BY <2>3, OutboxAssumption DEF TypeInv, TypeOK
  <2>5. /\ k \notin older'[k]
        /\ \A j \in Keys \ {k} : older'[j] = older[j] \ {k}
    BY <1>3 DEF Enqueue
  <2>6. \A j \in Keys : HasRow(j) /\ Item[j] = Item[k] => rows[j].seq <= n /\ rows[j].seq \in Nat
    BY <2>1, <2>2 DEF KnownRow, TypeInv, TypeOK, Row
  <2>7. ASSUME NEW j \in Keys PROVE KnownRow(j)'
    <3>1. CASE j = k
      BY <2>1, <2>2, <2>3, <2>4, <3>1 DEF KnownRow, HasRow, Stored
    <3>2. CASE j # k /\ Item[j] = Item[k]
      BY <2>1, <2>2, <2>3, <2>4, <2>6, <3>2 DEF KnownRow, HasRow, Stored
    <3>3. CASE Item[j] # Item[k]
      BY <2>1, <2>3, <2>4, <3>3 DEF KnownRow, HasRow, Stored
    <3> QED
      BY <3>1, <3>2, <3>3
  <2>8. ASSUME NEW j \in Keys, NEW i \in Keys, i \in older'[j], Item[j] = Item[i],
               Stored(rows', j), Stored(rows', i)
        PROVE  rows'[i].seq < rows'[j].seq
    <3>1. i # k
      BY <2>5, <2>8
    <3>2. CASE j = k
      BY <2>2, <2>3, <2>6, <2>8, <3>1, <3>2 DEF Stored, HasRow
    <3>3. CASE j # k
      BY <2>1, <2>3, <2>5, <2>8, <3>1, <3>3 DEF Ordered, Stored
    <3> QED
      BY <3>2, <3>3
  <2>9. Ordered(rows)'
    BY <2>8 DEF Ordered
  <2> QED
    BY <2>1, <2>7, <2>9 DEF RowsInv
<1>4. CASE Crash
  <2>1. up /\ ~up' /\ (\A k \in Keys : rows'[k] = NoRow) /\ UNCHANGED <<disk, older>>
    BY <1>4 DEF Crash
  <2>2. Ordered(disk)
    BY <2>1 DEF RowsInv, KnownRow, Ordered, Stored, HasRow
  <2> QED
    BY <2>1, <2>2 DEF RowsInv, Ordered, Stored
<1>5. CASE Restart
  <2>1. /\ ~up /\ up' /\ UNCHANGED older /\ disk' = rows' /\ Ordered(disk)
        /\ \A k \in Keys : rows'[k] = RecoveredRow(disk[k])
        /\ sequence' = [i \in Items |-> HighestSequence(disk, i)]
    BY <1>5 DEF Restart, RowsInv
  <2>2. ASSUME NEW k \in Keys
        PROVE  /\ rows'[k].seq = disk[k].seq
               /\ Stored(rows', k) <=> Stored(disk, k)
    BY <2>1, NumbersType, RowType DEF RecoveredRow, State, Stored
  <2>3. ASSUME NEW k \in Keys PROVE KnownRow(k)'
    <3>1. Item[k] \in Items /\ disk[k].seq <= HighestSequence(disk, Item[k])
      BY OutboxAssumption, HighestSequenceType
    <3>2. rows'[k].seq <= sequence'[Item[k]]
      BY <2>1, <2>2, <3>1
    <3> QED
      BY <2>1, <3>2 DEF KnownRow, HasRow, Stored
  <2>4. Ordered(rows)'
    BY <2>1, <2>2 DEF Ordered
  <2> QED
    BY <2>1, <2>3, <2>4 DEF RowsInv
<1>6. CASE ResetData
  BY <1>6 DEF ResetData, Quiet, NoRow, RowsInv, KnownRow, Ordered, Stored, HasRow
<1> QED
  BY <1>1, <1>2, <1>3, <1>4, <1>5, <1>6, RowSteps

LEMMA RowsInvariant == Spec => []RowsInv
<1>1. Init => RowsInv
  BY DEF Init, NoRow, RowsInv, KnownRow, Ordered, Stored, HasRow
<1>2. TypeInv /\ PromiseInv /\ RowsInv /\ [Next]_vars => RowsInv'
  BY RowsInvKept
<1> QED
  BY <1>1, <1>2, Invariants, PTL DEF Spec

\* AmbiguityAwaitsOwner: an uncertain row is changed by the owner's retry or by the
\* deletion of all data; a death of the process leaves a file from which it is
\* recovered as uncertain (flushRow settles no such row, recoverPending skips it).
THEOREM OwnerDecidesAmbiguity == Spec => AmbiguityAwaitsOwner
<1>1. ASSUME TypeInv, PromiseInv, RowsInv, [Next]_vars,
             NEW k \in Keys, rows[k].state = "ambiguous", rows'[k] # rows[k]
      PROVE  \/ \E p \in Callers : Retry(p, k)
             \/ ResetData
             \/ Crash /\ RecoveredRow(disk[k]).state = "ambiguous"
  <2>1. up /\ KnownRow(k)
    BY <1>1 DEF RowsInv, NoRow
  <2>2. ~Leaves /\ ~Restart
    BY <1>1, <2>1 DEF Leaves, Restart
  <2>3. ASSUME NEW j \in Keys, Restates(j) PROVE \E p \in Callers : Retry(p, k)
    <3>1. j = k
      BY <1>1, <2>3, RestatedRows
    <3> QED
      BY <1>1, <2>3, <3>1 DEF Restates
  <2>4. ASSUME NEW p \in Callers, NEW j \in Keys, Enqueue(p, j) PROVE FALSE
    BY <1>1, <2>4 DEF Enqueue, Put, HasRow, TypeInv, TypeOK
  <2>5. RecoveredRow(disk[k]).state = "ambiguous"
    BY <1>1, <2>1, NumbersType, RowType DEF KnownRow, RecoveredRow, State
  <2> QED
    BY <1>1, <2>2, <2>3, <2>4, <2>5, RowSteps
<1>2. TypeInv /\ PromiseInv /\ RowsInv /\ [Next]_vars =>
        [\A k \in Keys :
           rows[k].state = "ambiguous" /\ rows'[k] # rows[k] =>
             \/ \E p \in Callers : Retry(p, k)
             \/ ResetData
             \/ Crash /\ RecoveredRow(disk[k]).state = "ambiguous"]_vars
  BY <1>1
<1> QED
  BY <1>2, Invariants, RowsInvariant, PTL DEF Spec, AmbiguityAwaitsOwner

\* LateProgressIsDropped: a progress row is not sent behind a later row of its item
\* that the owner reads (isStaleRoutine compares sequence numbers, which
\* highestSequence recovers from the file after a restart).
THEOREM ProgressIsInOrder == Spec => LateProgressIsDropped
<1>1. ASSUME TypeInv, PromiseInv, RowsInv, [Next]_vars, NEW j \in Keys, NEW k \in Keys,
             flight[k] = "no", flight'[k] = "asked", Purpose[k] = "progress",
             Item[j] = Item[k], HasRow(j), Purpose[j] # "ack"
      PROVE  k \notin older[j]
  <2>1. PICK p \in Passes : FlushOne(p)
    <3>1. ~ \E q \in Callers, i \in Keys : Enqueue(q, i) \/ EnqueueAgain(q, i) \/ Retry(q, i)
      BY <1>1 DEF Enqueue, EnqueueAgain, Retry
    <3>2. ~ \E i \in Keys : Take(i) \/ TakeStray(i)
      BY <1>1 DEF Take, TakeStray, TypeInv, TypeOK
    <3>3. ~ \E i \in Keys : Answer(i)
      BY <1>1 DEF Answer, SentReceipt, RefusedReceipt, UnprovedReceipt, SenderThrew, Settle,
         TypeInv, TypeOK
    <3>4. ~ (RecoverPending \/ WriteTokens \/ Crash \/ Restart \/ ResetData \/ UNCHANGED vars)
      BY <1>1 DEF RecoverPending, WriteTokens, Crash, Restart, ResetData, vars
    <3> QED
      BY <1>1, <3>1, <3>2, <3>3, <3>4 DEF Next
  <2>2. HasRow(k) /\ ~IsStaleRoutine(k) /\ up
    <3>1. PICK i \in Keys : /\ HasRow(i)
                            /\ \/ JoinFlight(p, i) \/ AlreadySettled(p, i)
                               \/ SuppressStale(p, i) \/ Send(p, i)
      BY <2>1 DEF FlushOne
    <3>2. Send(p, i) /\ i = k
      BY <1>1, <3>1 DEF JoinFlight, AlreadySettled, SuppressStale, Send, TypeInv, TypeOK
    <3> QED
      BY <2>1, <3>1, <3>2 DEF Send, FlushOne
  <2>3. j \in ItemRows(Item[k])
    BY <1>1 DEF ItemRows
  <2>4. ~ (rows[j].seq > rows[k].seq)
    BY <1>1, <2>2, <2>3 DEF IsStaleRoutine
  <2>5. rows[j].seq \in Nat /\ rows[k].seq \in Nat
    BY <1>1 DEF TypeInv, TypeOK, Row
  <2> QED
    BY <1>1, <2>2, <2>4, <2>5 DEF RowsInv, Ordered, Stored, HasRow
<1>2. TypeInv /\ PromiseInv /\ RowsInv /\ [Next]_vars =>
        [\A j, k \in Keys :
           /\ flight[k] = "no" /\ flight'[k] = "asked"
           /\ Purpose[k] = "progress"
           /\ Item[j] = Item[k] /\ HasRow(j) /\ Purpose[j] # "ack"
           => k \notin older[j]]_vars
  BY <1>1
<1> QED
  BY <1>2, Invariants, RowsInvariant, PTL DEF Spec, LateProgressIsDropped
=============================================================================
