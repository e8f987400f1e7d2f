--------------------- MODULE NotificationDeliveryProofs ---------------------
(***************************************************************************)
(* Proofs about NotificationDelivery, for every number of subscriptions,   *)
(* rows, attempts and events: the state is well typed, every send is       *)
(* accounted for, a stamped row has been mailed or skipped and is never    *)
(* mailed again, and an opt-out lets at most one message through.          *)
(*                                                                         *)
(* What makes these inductive is that only the worker stamps rows and      *)
(* counts attempts, so a row of its batch is still pending when its turn   *)
(* comes (BatchPending), whatever users and operators do meanwhile.        *)
(***************************************************************************)
EXTENDS NotificationDelivery, TLAPS, WellFoundedInduction

\* Rows of the batch are pending.
BatchPending ==
    /\ \A i \in batch : row[i] # None /\ ~row[i].stamped /\ row[i].attempts < MaxAttempts
    /\ pc = "idle" => batch = {}
    /\ pc \in {"skip", "send", "sent", "failed"} => batch # {}

Attempts(i) == IF row[i] = None THEN 0 ELSE row[i].attempts

InFlight(i) == IF pc \in {"sent", "failed"} /\ i = current THEN 1 ELSE 0

\* A send is on the row's counter, in flight, or remembered as unrecorded.
Counted == \A i \in Ids : sends[i] <= Attempts(i) + unrecorded[i] + InFlight(i)

\* Before a row is stamped as sent, the provider has accepted a message.
Accepted == StampedMeansMailed /\ (pc = "sent" => sends[current] > 0)

\* Mailing somebody who has opted out, the worker does so for the first time.
Prompt ==
    /\ OptOutTakesEffect
    /\ pc = "send" /\ ~pref[row[current].sub].email => late[row[current].sub] = 0

IInv == TypeOK /\ BatchPending /\ Counted /\ Accepted /\ Prompt

(***************************************************************************)
(* The batch has a least row.                                              *)
(***************************************************************************)
LEMMA CurrentInBatch == ASSUME batch \subseteq Ids, batch # {} PROVE current \in batch
<1>1. batch \subseteq Nat
  BY DeliveryAssumption DEF Ids
<1>2. PICK m \in batch : \A k \in batch : <<k, m>> \notin OpToRel(<, Nat)
  BY <1>1, WFMin, NatLessThanWellFounded, Zenon
<1>3. \A k \in batch : ~(k < m)
  BY <1>1, <1>2, Zenon DEF OpToRel
<1>4. \A k \in batch : m <= k
  BY <1>1, <1>3
<1>5. QED
  BY <1>4 DEF current, Min

LEMMA CurrentType ==
    ASSUME TypeOK, BatchPending, pc \in {"skip", "send", "sent", "failed"}
    PROVE  /\ current \in batch
           /\ current \in Ids
           /\ row[current] \in Row
           /\ ~row[current].stamped
           /\ row[current].attempts < MaxAttempts
           /\ row[current].sub \in Subs
<1>1. current \in batch /\ current \in Ids
  BY CurrentInBatch DEF TypeOK, BatchPending
<1>2. row[current] \in Row
  BY <1>1 DEF TypeOK, BatchPending
<1>3. QED
  BY <1>1, <1>2 DEF BatchPending, Row

LEMMA EventType == ASSUME TypeOK, Event PROVE fuel' \in 0 .. MaxEvents
  BY DeliveryAssumption DEF TypeOK, Event

(***************************************************************************)
(* Initial states.                                                         *)
(***************************************************************************)
LEMMA InitEstablishes == Init => IInv
<1> SUFFICES ASSUME Init PROVE IInv
  OBVIOUS
<1>1. TypeOK
  BY DeliveryAssumption DEF Init, TypeOK, Labels
<1>2. BatchPending
  BY DEF Init, BatchPending
<1>3. Counted
  BY DEF Init, Counted, Attempts, InFlight
<1>4. Accepted
  BY DEF Init, Accepted, StampedMeansMailed
<1>5. Prompt
  BY DEF Init, Prompt, OptOutTakesEffect
<1>6. QED
  BY <1>1, <1>2, <1>3, <1>4, <1>5 DEF IInv

(***************************************************************************)
(* Producers, users and administrators leave the worker alone.             *)
(***************************************************************************)
LEMMA NotifyKeeps == ASSUME IInv, NEW s \in Subs, Notify(s) PROVE IInv'
<1> DEFINE new == [sub |-> s, stamped |-> FALSE, attempts |-> 0, error |-> "none"]
<1>1. PICK i \in Ids : row[i] = None /\ row' = [row EXCEPT ![i] = new]
  BY DEF Notify
<1>2. new \in Row /\ new # None /\ ~new.stamped /\ new.attempts = 0
  <2>1. 0 \in 0 .. MaxAttempts
    BY DeliveryAssumption
  <2>2. new \in Row
    BY <2>1 DEF Row
  <2>3. QED
    BY <2>2, DeliveryAssumption
<1> HIDE DEF new
<1>3. row' \in [Ids -> Row \cup {None}] /\ row'[i] = new
      /\ \A j \in Ids \ {i} : row'[j] = row[j]
  BY <1>1, <1>2 DEF IInv, TypeOK
<1>4. UNCHANGED <<pref, address, email, pc, batch, sends, unrecorded, late, fuel, current>>
  BY DEF Notify, settings, history, current
<1>5. TypeOK'
  BY <1>3, <1>4 DEF IInv, TypeOK
<1>6. i \notin batch
  BY <1>1 DEF IInv, BatchPending
<1>7. BatchPending'
  BY <1>3, <1>4, <1>6 DEF IInv, TypeOK, BatchPending
<1>8. Counted'
  BY <1>1, <1>2, <1>3, <1>4 DEF IInv, Counted, Attempts, InFlight
<1>9. Accepted'
  BY <1>2, <1>3, <1>4 DEF IInv, Accepted, StampedMeansMailed
<1>10. Prompt'
  <2>1. pc = "send" => row'[current] = row[current]
    BY <1>3, <1>6, CurrentType DEF IInv
  <2>2. QED
    BY <1>4, <2>1 DEF IInv, Prompt, OptOutTakesEffect
<1>11. QED
  BY <1>5, <1>7, <1>8, <1>9, <1>10 DEF IInv

LEMMA SetPreferenceKeeps == ASSUME IInv, NEW s \in Subs, SetPreference(s) PROVE IInv'
<1>1. PICK new \in [inApp : BOOLEAN, email : BOOLEAN] :
        /\ pref' = [pref EXCEPT ![s] = new]
        /\ late' = [late EXCEPT ![s] = IF pref[s].email /\ ~new.email THEN 0 ELSE @]
  BY DEF SetPreference
<1>2. UNCHANGED <<row, address, email, pc, batch, sends, unrecorded, current>>
  BY DEF SetPreference, current
<1>3. TypeOK'
  BY <1>1, <1>2, EventType DEF IInv, TypeOK, SetPreference
<1>4. BatchPending' /\ Counted' /\ Accepted'
  BY <1>2 DEF IInv, BatchPending, Counted, Attempts, InFlight, Accepted, StampedMeansMailed
<1>5. OptOutTakesEffect'
  BY <1>1 DEF IInv, TypeOK, Prompt, OptOutTakesEffect
<1>6. Prompt'
  <2> SUFFICES ASSUME pc = "send", ~pref'[row[current].sub].email
               PROVE  late'[row[current].sub] = 0
    BY <1>2, <1>5 DEF Prompt
  <2>1. row[current].sub \in Subs
    BY CurrentType DEF IInv
  <2>2. CASE row[current].sub = s
    BY <1>1, <2>1, <2>2 DEF IInv, TypeOK, Prompt
  <2>3. CASE row[current].sub # s
    BY <1>1, <2>1, <2>3 DEF IInv, TypeOK, Prompt
  <2>4. QED
    BY <2>2, <2>3
<1>7. QED
  BY <1>3, <1>4, <1>6 DEF IInv

LEMMA EditKeeps ==
    ASSUME IInv, EditConfig \/ \E s \in Subs : EditUser(s)
    PROVE  IInv'
<1>1. UNCHANGED <<row, pref, pc, batch, sends, unrecorded, late, current>>
  BY DEF EditConfig, EditUser, history, current
<1>2. TypeOK'
  BY <1>1, EventType DEF IInv, TypeOK, EditConfig, EditUser
<1>3. QED
  BY <1>1, <1>2 DEF IInv, BatchPending, Counted, Attempts, InFlight, Accepted,
                    StampedMeansMailed, Prompt, OptOutTakesEffect

LEMMA ClearAttemptsKeeps == ASSUME IInv, NEW i \in Ids, ClearAttempts(i) PROVE IInv'
<1>1. row[i] \in Row /\ row' = [row EXCEPT ![i].attempts = 0]
      /\ unrecorded' = [unrecorded EXCEPT ![i] = @ + row[i].attempts]
  BY DEF ClearAttempts, IInv, TypeOK
<1>2. UNCHANGED <<pref, address, email, pc, batch, sends, late, current>>
  BY DEF ClearAttempts, settings, current
<1>3. row'[i] \in Row /\ row'[i].attempts = 0 /\ row'[i].stamped = row[i].stamped
      /\ row'[i].sub = row[i].sub /\ row'[i].error = row[i].error
  BY <1>1, DeliveryAssumption DEF IInv, TypeOK, Row
<1>4. \A j \in Ids \ {i} : row'[j] = row[j] /\ unrecorded'[j] = unrecorded[j]
  BY <1>1 DEF IInv, TypeOK
<1>5. row' \in [Ids -> Row \cup {None}]
  BY <1>1, <1>3, <1>4 DEF IInv, TypeOK
<1>6. row[i].attempts \in Nat /\ unrecorded'[i] = unrecorded[i] + row[i].attempts
  BY <1>1, DeliveryAssumption DEF IInv, TypeOK, Row
<1>7. TypeOK'
  <2>1. unrecorded' \in [Ids -> Nat]
    BY <1>1, <1>6 DEF IInv, TypeOK
  <2>2. fuel' \in 0 .. MaxEvents
    BY EventType DEF IInv, ClearAttempts
  <2>3. QED
    BY <1>2, <1>5, <2>1, <2>2 DEF IInv, TypeOK
<1>8. BatchPending'
  BY <1>2, <1>3, <1>4, DeliveryAssumption DEF IInv, TypeOK, BatchPending
<1>9. Counted'
  <2>1. \A j \in Ids : InFlight(j)' = InFlight(j)
    BY <1>2 DEF InFlight
  <2>2. Attempts(i)' + unrecorded'[i] = Attempts(i) + unrecorded[i]
    BY <1>1, <1>3, <1>6, DeliveryAssumption DEF IInv, TypeOK, Attempts, Row
  <2>3. \A j \in Ids \ {i} : Attempts(j)' = Attempts(j)
    BY <1>4 DEF Attempts
  <2>4. QED
    BY <1>2, <1>4, <2>1, <2>2, <2>3 DEF IInv, Counted
<1>10. Accepted'
  BY <1>1, <1>2, <1>3, <1>4, DeliveryAssumption DEF IInv, Accepted, StampedMeansMailed
<1>11. Prompt'
  <2>1. pc = "send" => row'[current].sub = row[current].sub
    BY <1>3, <1>4, CurrentType DEF IInv
  <2>2. QED
    BY <1>2, <2>1 DEF IInv, Prompt, OptOutTakesEffect
<1>12. QED
  BY <1>7, <1>8, <1>9, <1>10, <1>11 DEF IInv

(***************************************************************************)
(* The worker.                                                             *)
(***************************************************************************)
LEMMA TickKeeps == ASSUME IInv, Tick PROVE IInv'
<1>1. batch' \subseteq Pending /\ pc' \in {"disabled", "next"}
      /\ UNCHANGED <<row, pref, address, email, sends, unrecorded, late, fuel>>
  BY DEF Tick, Oldest, settings, history
<1>2. TypeOK'
  BY <1>1 DEF IInv, TypeOK, Pending, Labels
<1>3. BatchPending'
  BY <1>1 DEF BatchPending, Pending
<1>4. \A i \in Ids : InFlight(i) = 0 /\ InFlight(i)' = 0
  BY <1>1 DEF InFlight, Tick
<1>5. Counted'
  BY <1>1, <1>4 DEF IInv, Counted, Attempts
<1>6. Accepted' /\ Prompt'
  BY <1>1 DEF IInv, Accepted, StampedMeansMailed, Prompt, OptOutTakesEffect
<1>7. QED
  BY <1>2, <1>3, <1>5, <1>6 DEF IInv

LEMMA SkipAllKeeps == ASSUME IInv, SkipAll PROVE IInv'
<1>1. pc = "disabled" /\ pc' = "idle" /\ batch' = {}
      /\ UNCHANGED <<pref, address, email, sends, unrecorded, late, fuel>>
  BY DEF SkipAll, settings, history
<1>2. ASSUME NEW i \in Ids, i \in batch
      PROVE  /\ row[i] \in Row /\ row'[i] \in Row
             /\ row'[i].error = "skipped"
             /\ row'[i].attempts = row[i].attempts + 1
  <2>1. row[i] \in Row /\ row[i].attempts < MaxAttempts
    BY <1>2 DEF IInv, TypeOK, BatchPending
  <2>2. row'[i] = [row[i] EXCEPT !.stamped = TRUE, !.attempts = @ + 1, !.error = "skipped"]
    BY <1>2 DEF SkipAll
  <2>3. row[i].attempts + 1 \in 0 .. MaxAttempts
    BY <2>1, DeliveryAssumption DEF Row
  <2>4. QED
    BY <2>1, <2>2, <2>3 DEF Row
<1>3. \A i \in Ids : i \notin batch => row'[i] = row[i]
  BY DEF SkipAll
<1>4. row' \in [Ids -> Row \cup {None}]
  BY <1>2, <1>3 DEF SkipAll, IInv, TypeOK
<1>5. TypeOK'
  BY <1>1, <1>4 DEF IInv, TypeOK, Labels
<1>6. BatchPending'
  BY <1>1 DEF BatchPending
<1>7. Counted'
  <2>1. \A i \in Ids : Attempts(i)' \in Nat /\ Attempts(i) \in Nat /\ Attempts(i)' >= Attempts(i)
    BY <1>2, <1>3, DeliveryAssumption DEF IInv, TypeOK, Attempts, Row
  <2>2. \A i \in Ids : InFlight(i) = 0 /\ InFlight(i)' = 0
    BY <1>1 DEF InFlight
  <2>3. QED
    BY <1>1, <2>1, <2>2 DEF IInv, TypeOK, Counted
<1>8. Accepted'
  BY <1>1, <1>2, <1>3 DEF IInv, Accepted, StampedMeansMailed
<1>9. Prompt'
  BY <1>1 DEF IInv, Prompt, OptOutTakesEffect
<1>10. QED
  BY <1>5, <1>6, <1>7, <1>8, <1>9 DEF IInv

\* Having read the preference, the worker is about to mail only who wants it.
LEMMA ResolveKeeps == ASSUME IInv, Resolve PROVE IInv'
<1>1. pc = "next" /\ batch # {}
      /\ UNCHANGED <<row, pref, address, email, batch, sends, unrecorded, late, fuel, current>>
  BY DEF Resolve, settings, history, current
<1>2. pc' = IF pref[row[current].sub].email /\ address[row[current].sub] THEN "send" ELSE "skip"
  BY DEF Resolve
<1>3. pc' \in {"send", "skip"}
  BY <1>2
<1>4. TypeOK'
  BY <1>1, <1>3 DEF IInv, TypeOK, Labels
<1>5. BatchPending' /\ Accepted'
  BY <1>1, <1>3 DEF IInv, BatchPending, Accepted, StampedMeansMailed
<1>6. Counted'
  BY <1>1, <1>3 DEF IInv, Counted, Attempts, InFlight
<1>7. Prompt'
  BY <1>1, <1>2 DEF IInv, Prompt, OptOutTakesEffect
<1>8. QED
  BY <1>4, <1>5, <1>6, <1>7 DEF IInv

LEMMA SendKeeps == ASSUME IInv, SendSucceeds \/ SendFails PROVE IInv'
<1>1. /\ pc = "send" /\ pc' \in {"sent", "failed"}
      /\ UNCHANGED <<row, pref, address, email, batch, unrecorded, current>>
      /\ Delivered \/ UNCHANGED <<sends, late>>
      /\ pc' = "sent" => Delivered
  BY DEF SendSucceeds, SendFails, settings, current
<1>2. /\ current \in Ids /\ row[current].sub \in Subs
  BY <1>1, CurrentType DEF IInv
<1>3. fuel' \in 0 .. MaxEvents
  BY EventType DEF IInv, TypeOK, SendSucceeds, SendFails
<1>4. ASSUME Delivered
      PROVE  /\ sends' \in [Ids -> Nat] /\ late' \in [Subs -> Nat]
             /\ sends'[current] = sends[current] + 1
             /\ \A i \in Ids \ {current} : sends'[i] = sends[i]
             /\ \A s \in Subs : late'[s] <= 1
  <2>1. /\ sends' = [sends EXCEPT ![current] = @ + 1]
        /\ late' = [late EXCEPT ![row[current].sub] =
                      IF pref[row[current].sub].email THEN @ ELSE @ + 1]
    BY <1>4 DEF Delivered
  <2>2. sends' \in [Ids -> Nat] /\ sends'[current] = sends[current] + 1
        /\ \A i \in Ids \ {current} : sends'[i] = sends[i]
    BY <1>2, <2>1 DEF IInv, TypeOK
  <2>3. late' \in [Subs -> Nat] /\ \A s \in Subs : late'[s] <= 1
    <3>1. CASE pref[row[current].sub].email
      BY <1>2, <2>1, <3>1 DEF IInv, TypeOK, Prompt, OptOutTakesEffect
    <3>2. CASE ~pref[row[current].sub].email
      <4>1. late[row[current].sub] = 0
        BY <1>1, <3>2 DEF IInv, Prompt
      <4>2. QED
        BY <1>2, <2>1, <3>2, <4>1 DEF IInv, TypeOK, Prompt, OptOutTakesEffect
    <3>3. QED
      BY <3>1, <3>2
  <2>4. QED
    BY <2>2, <2>3
<1>5. TypeOK'
  BY <1>1, <1>3, <1>4 DEF IInv, TypeOK, Labels
<1>6. BatchPending'
  BY <1>1 DEF IInv, BatchPending
<1>7. Counted'
  <2>1. \A i \in Ids : Attempts(i)' = Attempts(i) /\ Attempts(i) \in Nat
    BY <1>1, DeliveryAssumption DEF IInv, TypeOK, Attempts, Row
  <2>2. \A i \in Ids : InFlight(i) = 0 /\ InFlight(i)' = IF i = current THEN 1 ELSE 0
    BY <1>1 DEF InFlight
  <2>3. \A i \in Ids : sends'[i] <= sends[i] + (IF i = current THEN 1 ELSE 0)
    BY <1>1, <1>4 DEF IInv, TypeOK
  <2>4. QED
    BY <1>1, <1>5, <2>1, <2>2, <2>3 DEF IInv, TypeOK, Counted
<1>8. Accepted'
  <2>1. \A i \in Ids : sends'[i] >= sends[i]
    BY <1>1, <1>4 DEF IInv, TypeOK
  <2>2. pc' = "sent" => sends'[current] > 0
    BY <1>1, <1>2, <1>4 DEF IInv, TypeOK
  <2>3. QED
    BY <1>1, <1>5, <2>1, <2>2 DEF IInv, TypeOK, Accepted, StampedMeansMailed
<1>9. Prompt'
  BY <1>1, <1>4 DEF IInv, Prompt, OptOutTakesEffect
<1>10. QED
  BY <1>5, <1>6, <1>7, <1>8, <1>9 DEF IInv

LEMMA MarkKeeps == ASSUME IInv, MarkSent \/ MarkFailed \/ MarkSkipped PROVE IInv'
<1>1. PICK stamp \in BOOLEAN, error \in {"none", "failed", "skipped"} :
        /\ Mark(stamp, error)
        /\ pc \in {"skip", "sent", "failed"}
        /\ pc = "sent" \/ ~stamp \/ error = "skipped"
  BY DEF MarkSent, MarkFailed, MarkSkipped
<1>2. /\ pc' = "next" /\ batch' = batch \ {current}
      /\ UNCHANGED <<pref, address, email, sends, unrecorded, late, fuel>>
  BY <1>1 DEF Mark, settings, history
<1>3. /\ current \in batch /\ current \in Ids /\ row[current] \in Row
      /\ ~row[current].stamped /\ row[current].attempts < MaxAttempts
  BY <1>1, CurrentType DEF IInv
<1> DEFINE new == [row[current] EXCEPT !.stamped = @ \/ stamp,
                                       !.attempts = @ + 1,
                                       !.error = error]
<1>4. row' = [row EXCEPT ![current] = new]
  BY <1>1, <1>3 DEF Mark, IInv, TypeOK, Row
<1>5. /\ new \in Row /\ new.stamped = stamp /\ new.error = error
      /\ new.attempts = row[current].attempts + 1
  <2>1. row[current].attempts + 1 \in 0 .. MaxAttempts
    BY <1>3, DeliveryAssumption DEF Row
  <2>2. new.stamped = stamp
    BY <1>3 DEF Row
  <2>3. new \in Row
    BY <1>3, <2>1 DEF Row
  <2>4. new.error = error /\ new.attempts = row[current].attempts + 1
    BY <1>3 DEF Row
  <2>5. QED
    BY <2>2, <2>3, <2>4
<1> HIDE DEF new
<1>6. /\ row' \in [Ids -> Row \cup {None}] /\ row'[current] = new
      /\ \A i \in Ids \ {current} : row'[i] = row[i]
  BY <1>3, <1>4, <1>5 DEF IInv, TypeOK
<1>7. TypeOK'
  BY <1>2, <1>6 DEF IInv, TypeOK, Labels
<1>8. BatchPending'
  BY <1>2, <1>6 DEF IInv, TypeOK, BatchPending
<1>9. Counted'
  <2>1. \A i \in Ids : InFlight(i)' = 0
    BY <1>2 DEF InFlight
  <2>2. \A i \in Ids : Attempts(i) \in Nat
                       /\ Attempts(i)' = Attempts(i) + IF i = current THEN 1 ELSE 0
    BY <1>3, <1>5, <1>6, DeliveryAssumption DEF IInv, TypeOK, Attempts, Row
  <2>3. \A i \in Ids : InFlight(i) <= IF i = current THEN 1 ELSE 0
    BY DEF InFlight
  <2>4. \A i \in Ids : InFlight(i) \in Nat
    BY DEF InFlight
  <2>5. QED
    BY <1>2, <2>1, <2>2, <2>3, <2>4 DEF IInv, TypeOK, Counted
<1>10. Accepted'
  <2>1. stamp /\ error # "skipped" => sends[current] > 0
    BY <1>1 DEF IInv, Accepted
  <2>2. QED
    BY <1>2, <1>5, <1>6, <2>1 DEF IInv, Accepted, StampedMeansMailed
<1>11. Prompt'
  BY <1>2 DEF IInv, Prompt, OptOutTakesEffect
<1>12. QED
  BY <1>7, <1>8, <1>9, <1>10, <1>11 DEF IInv

LEMMA EndKeeps == ASSUME IInv, DrainDone \/ Interrupted PROVE IInv'
<1>1. /\ pc' = "idle" /\ batch' = {}
      /\ UNCHANGED <<row, pref, address, email, sends, late>>
  BY DEF DrainDone, Interrupted, settings, history
<1>2. /\ unrecorded' \in [Ids -> Nat]
      /\ \A i \in Ids : unrecorded'[i] = unrecorded[i] + InFlight(i)
  <2>1. CASE pc \in {"sent", "failed"}
    <3>1. unrecorded' = [unrecorded EXCEPT ![current] = @ + 1]
      BY <2>1 DEF DrainDone, Interrupted
    <3>2. current \in Ids
      BY <2>1, CurrentType DEF IInv
    <3>3. QED
      BY <2>1, <3>1, <3>2 DEF IInv, TypeOK, InFlight
  <2>2. CASE pc \notin {"sent", "failed"}
    BY <2>2 DEF DrainDone, Interrupted, IInv, TypeOK, InFlight, history
  <2>3. QED
    BY <2>1, <2>2
<1>3. fuel' \in 0 .. MaxEvents
  BY EventType DEF IInv, TypeOK, DrainDone, Interrupted
<1>4. TypeOK'
  BY <1>1, <1>2, <1>3 DEF IInv, TypeOK, Labels
<1>5. BatchPending'
  BY <1>1 DEF BatchPending
<1>6. Counted'
  <2>1. \A i \in Ids : /\ InFlight(i)' = 0 /\ InFlight(i) \in Nat
                       /\ Attempts(i)' = Attempts(i) /\ Attempts(i) \in Nat
    BY <1>1, DeliveryAssumption DEF IInv, TypeOK, InFlight, Attempts, Row
  <2>2. QED
    BY <1>1, <1>2, <2>1 DEF IInv, TypeOK, Counted
<1>7. Accepted' /\ Prompt'
  BY <1>1 DEF IInv, Accepted, StampedMeansMailed, Prompt, OptOutTakesEffect
<1>8. QED
  BY <1>4, <1>5, <1>6, <1>7 DEF IInv

LEMMA StutterKeeps == ASSUME IInv, UNCHANGED vars PROVE IInv'
<1>1. UNCHANGED <<row, pref, address, email, pc, batch, sends, unrecorded, late, fuel, current>>
  BY DEF vars, current
<1>2. QED
  BY <1>1 DEF IInv, TypeOK, BatchPending, Counted, Attempts, InFlight, Accepted,
              StampedMeansMailed, Prompt, OptOutTakesEffect

LEMMA StepKeeps == IInv /\ [Next]_vars => IInv'
<1> SUFFICES ASSUME IInv, [Next]_vars PROVE IInv'
  OBVIOUS
<1>1. CASE Worker
  BY <1>1, TickKeeps, SkipAllKeeps, ResolveKeeps, SendKeeps, MarkKeeps, EndKeeps DEF Worker
<1>2. CASE SendFails \/ Interrupted \/ EditConfig
  BY <1>2, SendKeeps, EndKeeps, EditKeeps
<1>3. CASE \E s \in Subs : Notify(s) \/ SetPreference(s) \/ EditUser(s)
  BY <1>3, NotifyKeeps, SetPreferenceKeeps, EditKeeps
<1>4. CASE \E i \in Ids : ClearAttempts(i)
  BY <1>4, ClearAttemptsKeeps
<1>5. CASE UNCHANGED vars
  BY <1>5, StutterKeeps
<1>6. QED
  BY <1>1, <1>2, <1>3, <1>4, <1>5 DEF Next

LEMMA Invariance == Spec => []IInv
  BY InitEstablishes, StepKeeps, PTL DEF Spec

(***************************************************************************)
(* Theorems.                                                               *)
(***************************************************************************)

\* The state is well typed; in particular no row's counter passes the limit.
THEOREM TypeCorrect == Spec => []TypeOK
<1>1. IInv => TypeOK
  BY DEF IInv
<1>2. QED
  BY <1>1, Invariance, PTL

\* "Three attempts then we stop trying": a row is mailed no more often than
\* that, unless an interruption or an operator has upset its counter.
THEOREM AttemptsBounded == Spec => []AttemptsAreBounded
<1>1. IInv => AttemptsAreBounded
  <2> SUFFICES ASSUME IInv, NEW i \in Ids
               PROVE  sends[i] <= MaxAttempts + unrecorded[i]
    BY DEF AttemptsAreBounded
  <2>1. sends[i] <= Attempts(i) + unrecorded[i] + InFlight(i)
    BY DEF IInv, Counted
  <2>2. Attempts(i) \in Nat /\ Attempts(i) + InFlight(i) <= MaxAttempts
    <3>1. CASE pc \in {"sent", "failed"} /\ i = current
      BY <3>1, CurrentType, DeliveryAssumption DEF IInv, Attempts, InFlight, Row
    <3>2. CASE ~(pc \in {"sent", "failed"} /\ i = current)
      BY <3>2, DeliveryAssumption DEF IInv, TypeOK, Attempts, InFlight, Row
    <3>3. QED
      BY <3>1, <3>2
  <2>3. sends[i] \in Nat /\ unrecorded[i] \in Nat /\ InFlight(i) \in Nat
    BY DEF IInv, TypeOK, InFlight
  <2>4. QED
    BY <2>1, <2>2, <2>3, DeliveryAssumption
<1>2. QED
  BY <1>1, Invariance, PTL

\* No silent loss: a row marked as sent was accepted by the provider.
THEOREM StampedWasMailed == Spec => []StampedMeansMailed
<1>1. IInv => StampedMeansMailed
  BY DEF IInv, Accepted
<1>2. QED
  BY <1>1, Invariance, PTL

\* At most one message leaves after an opt-out, for batches of any length.
THEOREM OptOutHolds == Spec => []OptOutTakesEffect
<1>1. IInv => OptOutTakesEffect
  BY DEF IInv, Prompt
<1>2. QED
  BY <1>1, Invariance, PTL

\* A stamped row stays stamped and is never mailed again.
THEOREM StampIsFinal == Spec => StampedIsFinal
<1>1. IInv /\ [Next]_vars
      => [\A i \in Ids : row[i] # None /\ row[i].stamped
                         => row'[i].stamped /\ sends'[i] = sends[i]]_vars
  <2> SUFFICES ASSUME IInv, Next, NEW i \in Ids, row[i] # None, row[i].stamped
               PROVE  row'[i].stamped /\ sends'[i] = sends[i]
    OBVIOUS
  <2>1. i \notin batch /\ row[i] \in Row
    BY DEF IInv, TypeOK, BatchPending
  <2>2. pc \in {"skip", "send", "sent", "failed"} => i # current
    BY <2>1, CurrentType DEF IInv
  <2>3. CASE Tick \/ Resolve \/ DrainDone \/ Interrupted \/ EditConfig
             \/ \E s \in Subs : SetPreference(s) \/ EditUser(s)
    BY <2>3 DEF Tick, Resolve, DrainDone, Interrupted, EditConfig, SetPreference, EditUser,
                history
  <2>4. CASE SkipAll
    BY <2>1, <2>4 DEF SkipAll
  <2>5. CASE SendSucceeds \/ SendFails
    BY <2>2, <2>5 DEF SendSucceeds, SendFails, Delivered, IInv, TypeOK
  <2>6. CASE MarkSent \/ MarkFailed \/ MarkSkipped
    BY <2>2, <2>6 DEF MarkSent, MarkFailed, MarkSkipped, Mark, IInv, TypeOK
  <2>7. CASE \E s \in Subs : Notify(s)
    BY <2>7 DEF Notify, IInv, TypeOK
  <2>8. CASE \E j \in Ids : ClearAttempts(j)
    BY <2>1, <2>8 DEF ClearAttempts, IInv, TypeOK, Row
  <2>9. QED
    BY <2>3, <2>4, <2>5, <2>6, <2>7, <2>8 DEF Next, Worker
<1>2. QED
  BY <1>1, Invariance, PTL DEF Spec, StampedIsFinal
=============================================================================
