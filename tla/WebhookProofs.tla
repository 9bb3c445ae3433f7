--------------------------- MODULE WebhookProofs ---------------------------
(***************************************************************************)
(* For every set of deliveries, number of sends and of evictions: the      *)
(* types, that a delivery is carried out at most once for each time the    *)
(* replay cache let it through, and that one which was acknowledged is     *)
(* lost only where a request failed visibly.                               *)
(***************************************************************************)
EXTENDS Webhook, FiniteSetTheorems, TLAPS

Busy == {"accepted", "removing", "undebounced", "recorded"}

(***************************************************************************)
(* The requests of a delivery that were let through and have not ended.    *)
(***************************************************************************)
InFlight(d) == {n \in 1..MaxSends : place[<<d, n>>] \in Busy}

Remembered(d) == IF d \in replay_cache THEN 1 ELSE 0

(***************************************************************************)
(* The part of the types the counting argument needs.                      *)
(***************************************************************************)
Counters ==
  /\ place \in [Requests -> Places]
  /\ replay_cache \subseteq Deliveries
  /\ applied \in [Deliveries -> Nat]
  /\ evicted \in [Deliveries -> Nat]

(***************************************************************************)
(* Whatever was carried out or still may be was let through by an entry of *)
(* the replay cache that is there or was evicted.                          *)
(***************************************************************************)
PassesCounted ==
  \A d \in Deliveries :
    applied[d] + Cardinality(InFlight(d)) <= evicted[d] + Remembered(d)

(***************************************************************************)
(* The four ways a step can change what is counted.                        *)
(***************************************************************************)
Same == UNCHANGED <<replay_cache, applied, evicted>>

Shifts(r) ==
  /\ Same
  /\ \E to \in Places :
       /\ place' = [place EXCEPT ![r] = to]
       /\ place[r] \in Busy <=> to \in Busy

LetThrough(r) ==
  /\ r[1] \notin replay_cache
  /\ replay_cache' = replay_cache \cup {r[1]}
  /\ place[r] = "arrived"
  /\ place' = [place EXCEPT ![r] = "accepted"]
  /\ UNCHANGED <<applied, evicted>>

Finishes(r) ==
  /\ place[r] \in Busy
  /\ place' = [place EXCEPT ![r] = "ended"]
  /\ \/ UNCHANGED applied
     \/ applied' = [applied EXCEPT ![r[1]] = @ + 1]
  /\ UNCHANGED <<replay_cache, evicted>>

(***************************************************************************)
(* Every step of a request is one of them.                                 *)
(***************************************************************************)
LEMMA RequestStep ==
  ASSUME NEW r \in Requests, Counters, Send(r) \/ webhook_handler(r) \/ connection_lost(r)
  PROVE  Shifts(r) \/ LetThrough(r) \/ Finishes(r)
<1> USE DEF caches, work, webhookHistory, Moves, Answers_with, Busy, Places, Same
<1>1. CASE Send(r) \/ validate_request(r) \/ parse_error(r) \/ replay_detected(r)
  BY <1>1 DEF Send, validate_request, parse_error, replay_detected, Shifts
<1>2. CASE accept_webhook_delivery(r)
  BY <1>2 DEF accept_webhook_delivery, LetThrough
<1>3. CASE execute_ignore(r) \/ push_debounced(r)
  BY <1>3 DEF execute_ignore, push_debounced, Finishes
<1>4. CASE nothing_to_remove(r) \/ write_succeeds(r) \/ write_fails(r)
  BY <1>4 DEF nothing_to_remove, write_succeeds, write_fails, Attempting, CarriedOut, Finishes
<1>5. CASE write_retries(r)
  BY <1>5 DEF write_retries, Attempting, Shifts
<1>6. CASE push_not_debounced(r) \/ record_push(r)
  BY <1>6 DEF push_not_debounced, record_push, Shifts
<1>7. CASE job_enqueued(r) \/ job_deduplicated(r) \/ queue_full(r)
  BY <1>7 DEF job_enqueued, job_deduplicated, queue_full, Submits, CarriedOut, Finishes
<1>8. CASE connection_lost(r)
  <2>1. CASE place[r] = "arrived"
    BY <1>8, <2>1 DEF connection_lost, Shifts
  <2>2. CASE place[r] \in {"accepted", "removing", "undebounced", "recorded"}
    BY <1>8, <2>2 DEF connection_lost, Finishes
  <2> QED BY <1>8, <2>1, <2>2 DEF connection_lost
<1> QED
  BY <1>1, <1>2, <1>3, <1>4, <1>5, <1>6, <1>7, <1>8 DEF webhook_handler

(***************************************************************************)
(* There are finitely many requests in flight.                             *)
(***************************************************************************)
LEMMA InFlightFinite ==
  ASSUME NEW S \in SUBSET (1..MaxSends)
  PROVE  IsFiniteSet(S) /\ Cardinality(S) \in Nat
<1>1. MaxSends \in Int
  BY WebhookBounds
<1>2. IsFiniteSet(1..MaxSends)
  BY <1>1, FS_Interval
<1>3. IsFiniteSet(S)
  BY <1>2, FS_Subset
<1> QED
  BY <1>3, FS_CardinalityType

(***************************************************************************)
(* A step of a request keeps the count.                                    *)
(***************************************************************************)
LEMMA RequestKeepsCount ==
  ASSUME NEW r \in Requests, Counters, PassesCounted,
         Send(r) \/ webhook_handler(r) \/ connection_lost(r)
  PROVE  Counters' /\ PassesCounted'
<1>1. PICK e \in Deliveries, m \in 1..MaxSends : r = <<e, m>>
  BY DEF Requests
<1>2. Counters'
  BY RequestStep DEF Shifts, LetThrough, Finishes, Same, Counters, Places, Requests
<1>3. ASSUME NEW d \in Deliveries
      PROVE  applied'[d] + Cardinality(InFlight(d)') <= evicted'[d] + Remembered(d)'
  <2>1. /\ InFlight(d) \in SUBSET (1..MaxSends)
        /\ InFlight(d)' \in SUBSET (1..MaxSends)
    BY DEF InFlight
  <2>2. /\ IsFiniteSet(InFlight(d)) /\ Cardinality(InFlight(d)) \in Nat
        /\ IsFiniteSet(InFlight(d)') /\ Cardinality(InFlight(d)') \in Nat
    BY <2>1, InFlightFinite
  <2>3. applied[d] + Cardinality(InFlight(d)) <= evicted[d] + Remembered(d)
    BY DEF PassesCounted
  <2>4. applied[d] \in Nat /\ evicted[d] \in Nat
    BY DEF Counters
  <2>5. CASE d # e
    <3>1. InFlight(d)' = InFlight(d)
      BY <1>1, <2>5, RequestStep DEF Shifts, LetThrough, Finishes, InFlight, Counters, Requests
    <3>2. applied'[d] = applied[d] /\ evicted' = evicted /\ Remembered(d)' = Remembered(d)
      BY <1>1, <2>5, RequestStep
         DEF Shifts, LetThrough, Finishes, Same, Remembered, Counters
    <3> QED
      BY <2>3, <3>1, <3>2
  <2>6. CASE d = e /\ Shifts(r)
    <3>1. InFlight(d)' = InFlight(d)
      BY <1>1, <2>6 DEF Shifts, InFlight, Counters, Requests
    <3> QED
      BY <2>3, <2>6, <3>1 DEF Shifts, Same, Remembered
  <2>7. CASE d = e /\ LetThrough(r)
    <3>1. InFlight(d)' = InFlight(d) \cup {m} /\ m \notin InFlight(d)
      BY <1>1, <2>7 DEF LetThrough, InFlight, Counters, Requests, Busy
    <3>2. Cardinality(InFlight(d)') = Cardinality(InFlight(d)) + 1
      BY <2>2, <3>1, FS_AddElement
    <3>3. Remembered(d) = 0 /\ Remembered(d)' = 1
      BY <1>1, <2>7 DEF LetThrough, Remembered
    <3>4. UNCHANGED <<applied, evicted>>
      BY <2>7 DEF LetThrough
    <3> QED
      BY <2>2, <2>3, <2>4, <3>2, <3>3, <3>4
  <2>8. CASE d = e /\ Finishes(r)
    <3>1. InFlight(d)' = InFlight(d) \ {m} /\ m \in InFlight(d)
      BY <1>1, <2>8 DEF Finishes, InFlight, Counters, Requests, Busy
    <3>2. Cardinality(InFlight(d)') = Cardinality(InFlight(d)) - 1
      BY <2>2, <3>1, FS_RemoveElement
    <3>3. applied'[d] <= applied[d] + 1 /\ applied'[d] \in Nat
      BY <1>1, <2>4, <2>8 DEF Finishes, Counters
    <3>4. evicted' = evicted /\ Remembered(d)' = Remembered(d) /\ Remembered(d) \in Nat
      BY <2>8 DEF Finishes, Remembered
    <3> QED
      BY <2>2, <2>3, <2>4, <3>2, <3>3, <3>4
  <2> QED
    BY <2>5, <2>6, <2>7, <2>8, RequestStep
<1> QED
  BY <1>2, <1>3 DEF PassesCounted

(***************************************************************************)
(* So does an eviction: the entry turns into one that was evicted.         *)
(***************************************************************************)
LEMMA EvictionKeepsCount ==
  ASSUME NEW e \in Deliveries, Counters, PassesCounted, replay_expires(e)
  PROVE  Counters' /\ PassesCounted'
<1>1. Counters'
  BY DEF Counters, replay_expires
<1>2. ASSUME NEW d \in Deliveries
      PROVE  applied'[d] + Cardinality(InFlight(d)') <= evicted'[d] + Remembered(d)'
  <2>1. InFlight(d)' = InFlight(d) /\ applied' = applied
    BY DEF replay_expires, InFlight
  <2>2. Cardinality(InFlight(d)) \in Nat
    BY InFlightFinite DEF InFlight
  <2>3. applied[d] \in Nat /\ evicted[d] \in Nat
    BY DEF Counters
  <2>4. evicted'[d] + Remembered(d)' = evicted[d] + Remembered(d)
    BY <2>3 DEF replay_expires, Remembered, Counters
  <2> QED
    BY <2>1, <2>2, <2>3, <2>4 DEF PassesCounted
<1> QED
  BY <1>1, <1>2 DEF PassesCounted

(***************************************************************************)
(* However often and however concurrently a delivery is sent, it is        *)
(* carried out at most once more than the replay cache forgot it           *)
(* (accept_webhook_delivery, app/state/mod.rs:662-669).                    *)
(***************************************************************************)
THEOREM DeliveriesAreCarriedOutOnce == Spec => []CarriedOutOnce
<1>1. Init => Counters /\ PassesCounted
  <2> SUFFICES ASSUME Init PROVE Counters /\ PassesCounted
    OBVIOUS
  <2>1. Counters
    BY DEF Init, Counters, Places
  <2>2. ASSUME NEW d \in Deliveries PROVE InFlight(d) = {}
    BY DEF Init, InFlight, Busy, Requests
  <2> QED
    BY <2>1, <2>2, FS_EmptySet DEF Init, PassesCounted, Remembered
<1>2. Counters /\ PassesCounted /\ [Next]_vars => (Counters /\ PassesCounted)'
  <2> SUFFICES ASSUME Counters, PassesCounted, [Next]_vars
               PROVE  (Counters /\ PassesCounted)'
    OBVIOUS
  <2>1. CASE \E r \in Requests : Send(r) \/ webhook_handler(r) \/ connection_lost(r)
    BY <2>1, RequestKeepsCount
  <2>2. CASE \E d \in Deliveries : replay_expires(d)
    BY <2>2, EvictionKeepsCount
  <2>3. CASE (\E k \in Repos : debounce_expires(k) \/ Dequeue(k) \/ Deliver(k)) \/ UNCHANGED vars
    <3>1. UNCHANGED <<place, replay_cache, applied, evicted>>
      BY <2>3 DEF debounce_expires, Dequeue, Deliver, vars, caches, webhookHistory
    <3> QED
      BY <3>1 DEF Counters, PassesCounted, InFlight, Remembered
  <2> QED
    BY <2>1, <2>2, <2>3 DEF Next
<1>3. Counters /\ PassesCounted => CarriedOutOnce
  <2> SUFFICES ASSUME Counters, PassesCounted, NEW d \in Deliveries
               PROVE  applied[d] <= 1 + evicted[d]
    BY DEF CarriedOutOnce
  <2>1. Cardinality(InFlight(d)) \in Nat
    BY InFlightFinite DEF InFlight
  <2> QED
    BY <2>1 DEF Counters, PassesCounted, Remembered
<1> QED
  BY <1>1, <1>2, <1>3, PTL DEF Spec

-----------------------------------------------------------------------------
(***************************************************************************)
(* The types, action by action.                                            *)
(***************************************************************************)
LEMMA HandlerTypes ==
  ASSUME TypeOK, NEW r \in Requests, Send(r) \/ webhook_handler(r) \/ connection_lost(r)
  PROVE  TypeOK'
<1>1. r[1] \in Deliveries /\ Key(r) \in Repos
  BY DEF Requests, TypeOK, Payload, Key
<1> USE DEF TypeOK, caches, work, webhookHistory, Moves, Answers_with, Places, Answers
<1>2. CASE Send(r) \/ validate_request(r) \/ parse_error(r) \/ replay_detected(r)
  BY <1>2 DEF Send, validate_request, parse_error, replay_detected
<1>3. CASE accept_webhook_delivery(r)
  BY <1>1, <1>3 DEF accept_webhook_delivery
<1>4. CASE execute_ignore(r) \/ push_debounced(r) \/ push_not_debounced(r)
  BY <1>1, <1>4 DEF execute_ignore, push_debounced, push_not_debounced
<1>5. CASE nothing_to_remove(r)
  BY <1>1, <1>5 DEF nothing_to_remove, CarriedOut
<1>6. CASE write_succeeds(r)
  BY <1>1, <1>6 DEF write_succeeds, CarriedOut
<1>7. CASE write_fails(r) \/ queue_full(r) \/ connection_lost(r)
  BY <1>7 DEF write_fails, queue_full, connection_lost
<1>8. CASE write_retries(r)
  <2>1. attempts' \in [Requests -> 0..BOUNDED_RETRY_ATTEMPTS]
    BY <1>8, WebhookBounds DEF write_retries
  <2> QED BY <1>8, <2>1 DEF write_retries
<1>9. CASE record_push(r)
  BY <1>1, <1>9 DEF record_push
<1>10. CASE job_enqueued(r)
  <2>1. queued' = queued \cup {Key(r)} /\ Key(r) \notin queued /\ ~Full
    BY <1>10 DEF job_enqueued
  <2>2. IsFiniteSet(queued) /\ Cardinality(queued) \in Nat
    BY WebhookBounds, FS_Subset, FS_CardinalityType
  <2>3. Cardinality(queued') = Cardinality(queued) + 1
    BY <2>1, <2>2, FS_AddElement
  <2>4. Cardinality(queued') <= QueueCapacity
    BY <2>1, <2>2, <2>3, WebhookBounds DEF Full
  <2> QED BY <1>1, <1>10, <2>1, <2>4 DEF job_enqueued, CarriedOut
<1>11. CASE job_deduplicated(r)
  BY <1>1, <1>11 DEF job_deduplicated, CarriedOut
<1> QED BY <1>2, <1>3, <1>4, <1>5, <1>6, <1>7, <1>8, <1>9, <1>10, <1>11 DEF webhook_handler

LEMMA EnvironmentTypes ==
  ASSUME TypeOK,
         \/ \E d \in Deliveries : replay_expires(d)
         \/ \E k \in Repos : debounce_expires(k) \/ Dequeue(k) \/ Deliver(k)
  PROVE  TypeOK'
<1> USE DEF TypeOK, caches, work, webhookHistory
<1>1. CASE \E d \in Deliveries : replay_expires(d)
  BY <1>1 DEF replay_expires
<1>2. CASE \E k \in Repos : debounce_expires(k)
  BY <1>2 DEF debounce_expires
<1>3. CASE \E k \in Repos : Dequeue(k)
  <2>1. PICK k \in Repos : Dequeue(k)
    BY <1>3
  <2>2. queued' = queued \ {k} /\ k \in queued
    BY <2>1 DEF Dequeue
  <2>3. IsFiniteSet(queued) /\ Cardinality(queued) \in Nat
    BY WebhookBounds, FS_Subset, FS_CardinalityType
  <2>4. Cardinality(queued') = Cardinality(queued) - 1
    BY <2>2, <2>3, FS_RemoveElement
  <2>5. Cardinality(queued') <= QueueCapacity
    BY <2>3, <2>4, WebhookBounds
  <2> QED BY <2>1, <2>2, <2>5 DEF Dequeue
<1>4. CASE \E k \in Repos : Deliver(k)
  BY <1>4 DEF Deliver
<1> QED BY <1>1, <1>2, <1>3, <1>4

(***************************************************************************)
(* Every place, answer and counter stays in its range: no removal is tried *)
(* more often than BOUNDED_RETRY_ATTEMPTS allows and the queue never holds *)
(* more than its capacity (write_with_policy, execute_enqueue).            *)
(***************************************************************************)
THEOREM WebhookTypesHold == Spec => []TypeOK
<1>1. Init => TypeOK
  <2> SUFFICES ASSUME Init PROVE TypeOK
    OBVIOUS
  <2>1. Cardinality(queued) <= QueueCapacity
    BY FS_EmptySet, WebhookBounds DEF Init
  <2> QED BY <2>1, WebhookBounds DEF Init, TypeOK, Places, Answers
<1>2. TypeOK /\ [Next]_vars => TypeOK'
  <2>1. TypeOK /\ UNCHANGED vars => TypeOK'
    BY DEF TypeOK, vars, caches, work, webhookHistory
  <2> QED BY <2>1, HandlerTypes, EnvironmentTypes DEF Next
<1> QED BY <1>1, <1>2, PTL DEF Spec

-----------------------------------------------------------------------------
(***************************************************************************)
(* A delivery that can no longer be lost silently: it was carried out or   *)
(* refused, or one of its requests is past the debounce or trying to       *)
(* remove.  Unlike being at work on an accepted request, which may still   *)
(* end in a debounce, this lasts.                                          *)
(***************************************************************************)
Committed == {"removing", "undebounced", "recorded"}
Refusals == {"502", "503", "dropped"}

Firm(d) ==
  applied[d] > 0 \/ Refused(d) \/ \E n \in 1..MaxSends : place[<<d, n>>] \in Committed

AtDoor(d) == \E n \in 1..MaxSends : place[<<d, n>>] = "accepted"

(***************************************************************************)
(* The strengthening of LossIsVisible: a debounce entry and a debounced    *)
(* delivery stand for a firm push to the same repository, and a delivery   *)
(* that the replay cache holds or that was acknowledged is firm, debounced *)
(* or about to be one of them.                                             *)
(***************************************************************************)
AnsweredLast == \A r \in Requests : answer[r] # "none" => place[r] = "ended"

PushesOnly == \A r \in Requests : place[r] \in {"undebounced", "recorded"} => Event(r) = "push"

DebounceBacked ==
  \A k \in debounce_cache :
    \E e \in Deliveries : payload[e] = [event |-> "push", repo |-> k] /\ Firm(e)

DebouncedBacked ==
  \A d \in debounced : \E e \in Deliveries : payload[e] = payload[d] /\ Firm(e)

Attended ==
  \A d \in Deliveries :
    /\ d \in replay_cache \/ Acknowledged(d)
    /\ map_event_to_action(payload[d].event) # "Ignore"
    => Firm(d) \/ AtDoor(d) \/ d \in debounced

LossInv == TypeOK /\ AnsweredLast /\ PushesOnly /\ DebounceBacked /\ DebouncedBacked /\ Attended

(***************************************************************************)
(* What a step of a request is to these.                                   *)
(***************************************************************************)
Carries(r) == applied' = [applied EXCEPT ![r[1]] = @ + 1]
Leaves(to, code) == to \in Committed \/ code \in Refusals

StepOf(r, to, code) ==
  /\ to \in Places /\ code \in Answers
  /\ place[r] # "ended" /\ place' = [place EXCEPT ![r] = to]
  /\ answer' = [answer EXCEPT ![r] = code] /\ payload' = payload
  /\ code # "none" => to = "ended"
  /\ to \in {"undebounced", "recorded"} => Event(r) = "push"
  /\ applied' = applied \/ Carries(r)
  /\ place[r] \in Committed => Leaves(to, code) \/ Carries(r)
  /\ (place[r] = "accepted" /\ Action(r) # "Ignore") =>
       Leaves(to, code) \/ Carries(r) \/ r[1] \in debounced'
  /\ (code \in {"200", "202"} /\ Action(r) # "Ignore") =>
       place[r] \in Committed \cup {"accepted"} \/ r[1] \in replay_cache
  /\ replay_cache' = replay_cache
       \/ (to = "accepted" /\ replay_cache' = replay_cache \cup {r[1]})
  /\ debounce_cache' = debounce_cache
       \/ (to = "recorded" /\ debounce_cache' = debounce_cache \cup {Key(r)})
  /\ debounced' = debounced
       \/ /\ Event(r) = "push" /\ Key(r) \in debounce_cache
          /\ debounced' = debounced \cup {r[1]}

LEMMA RequestSteps ==
  ASSUME LossInv, NEW r \in Requests, Send(r) \/ webhook_handler(r) \/ connection_lost(r)
  PROVE  \E to \in Places, code \in Answers : StepOf(r, to, code)
<1>0. /\ place \in [Requests -> Places] /\ answer \in [Requests -> Answers]
      /\ place[r] # "ended" => answer[r] = "none"
      /\ place[r] \in {"undebounced", "recorded"} => Event(r) = "push"
      /\ Action(r) \in {"Remove", "Enqueue", "Ignore"}
  BY DEF LossInv, TypeOK, AnsweredLast, PushesOnly, Action, map_event_to_action
<1>1. ASSUME NEW from \in Places \ {"ended"}, NEW to \in Places, Moves(r, from, to)
      PROVE  /\ place[r] # "ended" /\ place' = [place EXCEPT ![r] = to]
             /\ answer' = [answer EXCEPT ![r] = "none"] /\ payload' = payload
  BY <1>0, <1>1 DEF Moves
<1>2. ASSUME NEW from \in Places \ {"ended"}, NEW code, Answers_with(r, from, code)
      PROVE  /\ place[r] # "ended" /\ place' = [place EXCEPT ![r] = "ended"]
             /\ answer' = [answer EXCEPT ![r] = code] /\ payload' = payload
  BY <1>2 DEF Answers_with
<1> USE DEF caches, webhookHistory, Places, Answers, Leaves, Committed, Refusals, Carries
<1>3. CASE Send(r)
  BY <1>1, <1>3 DEF Send, StepOf, Moves
<1>4. CASE validate_request(r) \/ parse_error(r)
  <2>1. \E code \in {"400", "401"} : Answers_with(r, "arrived", code)
    BY <1>4 DEF validate_request, parse_error
  <2> QED BY <1>2, <1>4, <2>1 DEF validate_request, parse_error, StepOf, Answers_with
<1>5. CASE replay_detected(r)
  BY <1>2, <1>5 DEF replay_detected, StepOf, Answers_with
<1>6. CASE accept_webhook_delivery(r)
  BY <1>1, <1>6 DEF accept_webhook_delivery, StepOf, Moves
<1>7. CASE execute_ignore(r)
  BY <1>2, <1>7 DEF execute_ignore, StepOf, Answers_with
<1>8. CASE nothing_to_remove(r)
  BY <1>2, <1>8 DEF nothing_to_remove, CarriedOut, StepOf, Answers_with
<1>9. CASE write_succeeds(r)
  BY <1>2, <1>9 DEF write_succeeds, Attempting, CarriedOut, StepOf, Answers_with
<1>10. CASE write_fails(r)
  BY <1>2, <1>10 DEF write_fails, Attempting, StepOf, Answers_with
<1>11. CASE write_retries(r)
  BY <1>1, <1>11 DEF write_retries, Attempting, StepOf, Moves
<1>12. CASE push_debounced(r)
  BY <1>2, <1>12 DEF push_debounced, Pushes, StepOf, Answers_with
<1>13. CASE push_not_debounced(r)
  BY <1>1, <1>13 DEF push_not_debounced, Pushes, StepOf, Moves
<1>14. CASE record_push(r)
  BY <1>0, <1>1, <1>14 DEF record_push, StepOf, Moves
<1>15. CASE job_enqueued(r) \/ job_deduplicated(r)
  <2>1. /\ place[r] \in {"recorded", "accepted"} /\ CarriedOut(r)
        /\ \E code \in {"200", "202"} : Answers_with(r, place[r], code)
        /\ UNCHANGED caches
    BY <1>15 DEF job_enqueued, job_deduplicated, Submits
  <2> QED BY <1>2, <2>1 DEF CarriedOut, StepOf
<1>16. CASE queue_full(r)
  BY <1>2, <1>16 DEF queue_full, Submits, StepOf, Answers_with
<1>17. CASE connection_lost(r)
  BY <1>2, <1>17 DEF connection_lost, StepOf, Answers_with
<1> QED BY <1>3, <1>4, <1>5, <1>6, <1>7, <1>8, <1>9, <1>10, <1>11, <1>12, <1>13, <1>14, <1>15,
           <1>16, <1>17 DEF webhook_handler

(***************************************************************************)
(* Firmness lasts.                                                         *)
(***************************************************************************)
LEMMA FirmLasts ==
  ASSUME LossInv, NEW r \in Requests, NEW to, NEW code, StepOf(r, to, code),
         NEW d \in Deliveries, Firm(d)
  PROVE  Firm(d)'
<1>1. PICK e \in Deliveries, m \in 1..MaxSends : r = <<e, m>> /\ r[1] = e
  BY DEF Requests
<1>2. /\ place \in [Requests -> Places] /\ answer \in [Requests -> Answers]
      /\ applied \in [Deliveries -> Nat]
      /\ \A n \in 1..MaxSends : <<d, n>> \in Requests
  BY DEF LossInv, TypeOK, Requests
<1>3. CASE applied[d] > 0
  <2>1. applied'[d] > 0
    BY <1>1, <1>2, <1>3 DEF StepOf, Carries
  <2> QED BY <2>1 DEF Firm
<1>4. CASE Refused(d)
  <2>1. PICK n \in 1..MaxSends : answer[<<d, n>>] \in Refusals
    BY <1>4 DEF Refused, Answered, Refusals
  <2>2. <<d, n>> # r
    BY <1>2, <2>1 DEF StepOf, LossInv, AnsweredLast, Refusals
  <2>3. answer'[<<d, n>>] \in Refusals
    BY <1>2, <2>1, <2>2 DEF StepOf
  <2> QED BY <2>3 DEF Firm, Refused, Answered, Refusals
<1>5. CASE \E n \in 1..MaxSends : place[<<d, n>>] \in Committed
  <2>1. PICK n \in 1..MaxSends : place[<<d, n>>] \in Committed
    BY <1>5
  <2>2. CASE <<d, n>> # r
    <3>1. place'[<<d, n>>] \in Committed
      BY <1>2, <2>1, <2>2 DEF StepOf
    <3> QED BY <3>1 DEF Firm
  <2>3. CASE <<d, n>> = r
    <3>1. Leaves(to, code) \/ Carries(r)
      BY <2>1, <2>3 DEF StepOf
    <3>2. CASE to \in Committed
      BY <1>2, <2>3, <3>2 DEF StepOf, Firm
    <3>3. CASE code \in Refusals
      BY <1>2, <2>3, <3>3 DEF StepOf, Firm, Refused, Answered, Refusals
    <3>4. CASE Carries(r)
      <4>1. applied'[d] > 0
        BY <1>1, <1>2, <2>3, <3>4 DEF Carries
      <4> QED BY <4>1 DEF Firm
    <3> QED BY <3>1, <3>2, <3>3, <3>4 DEF Leaves
  <2> QED BY <2>2, <2>3
<1> QED BY <1>3, <1>4, <1>5 DEF Firm

(***************************************************************************)
(* A request makes its delivery firm where it leaves the door.             *)
(***************************************************************************)
LEMMA LeavingIsFirm ==
  ASSUME LossInv, NEW r \in Requests, NEW to, NEW code, StepOf(r, to, code),
         Leaves(to, code) \/ Carries(r)
  PROVE  Firm(r[1])'
<1>1. PICK e \in Deliveries, m \in 1..MaxSends : r = <<e, m>> /\ r[1] = e
  BY DEF Requests
<1>2. /\ place \in [Requests -> Places] /\ answer \in [Requests -> Answers]
      /\ applied \in [Deliveries -> Nat]
  BY DEF LossInv, TypeOK
<1>3. CASE to \in Committed
  BY <1>1, <1>2, <1>3 DEF StepOf, Firm
<1>4. CASE code \in Refusals
  BY <1>1, <1>2, <1>4 DEF StepOf, Firm, Refused, Answered, Refusals
<1>5. CASE Carries(r)
  <2>1. applied'[e] > 0
    BY <1>1, <1>2, <1>5 DEF Carries
  <2> QED BY <1>1, <2>1 DEF Firm
<1> QED BY <1>3, <1>4, <1>5 DEF Leaves

LEMMA RequestKeepsLossInv ==
  ASSUME LossInv, NEW r \in Requests, Send(r) \/ webhook_handler(r) \/ connection_lost(r)
  PROVE  LossInv'
<1>0. /\ place \in [Requests -> Places] /\ answer \in [Requests -> Answers]
      /\ payload \in [Deliveries -> Payload] /\ debounced \subseteq Deliveries
      /\ r[1] \in Deliveries
  BY DEF LossInv, TypeOK, Requests
<1>1. PICK to \in Places, code \in Answers : StepOf(r, to, code)
  BY RequestSteps
<1>2. TypeOK'
  BY HandlerTypes DEF LossInv
<1>3. payload' = payload /\ \A d \in Deliveries : Firm(d) => Firm(d)'
  BY <1>1, FirmLasts DEF StepOf
<1>4. AnsweredLast'
  BY <1>0, <1>1 DEF StepOf, LossInv, AnsweredLast
<1>5. PushesOnly'
  <2> SUFFICES ASSUME NEW q \in Requests, place'[q] \in {"undebounced", "recorded"}
               PROVE  Event(q) = "push"
    BY <1>3 DEF PushesOnly, Event
  <2>1. CASE q = r
    BY <1>0, <1>1, <2>1 DEF StepOf
  <2>2. CASE q # r
    BY <1>0, <1>1, <2>2 DEF StepOf, LossInv, PushesOnly
  <2> QED BY <2>1, <2>2
<1>6. DebounceBacked'
  <2> SUFFICES ASSUME NEW k \in debounce_cache'
               PROVE  \E e \in Deliveries : payload[e] = [event |-> "push", repo |-> k] /\ Firm(e)'
    BY <1>3 DEF DebounceBacked
  <2>1. CASE k \in debounce_cache
    BY <1>3, <2>1 DEF LossInv, DebounceBacked
  <2>2. CASE k \notin debounce_cache
    <3>1. to = "recorded" /\ k = Key(r) /\ Event(r) = "push"
      BY <1>1, <2>2 DEF StepOf
    <3>2. Firm(r[1])'
      BY <1>1, <3>1, LeavingIsFirm DEF Leaves, Committed
    <3>3. payload[r[1]] = [event |-> "push", repo |-> k]
      BY <1>0, <3>1 DEF Payload, Key, Event
    <3> QED BY <1>0, <3>2, <3>3
  <2> QED BY <2>1, <2>2
<1>7. DebouncedBacked'
  <2> SUFFICES ASSUME NEW d \in debounced'
               PROVE  \E e \in Deliveries : payload[e] = payload[d] /\ Firm(e)'
    BY <1>3 DEF DebouncedBacked
  <2>1. CASE d \in debounced
    BY <1>3, <2>1 DEF LossInv, DebouncedBacked
  <2>2. CASE d \notin debounced
    <3>1. d = r[1] /\ Event(r) = "push" /\ Key(r) \in debounce_cache
      BY <1>1, <2>2 DEF StepOf
    <3>2. payload[d] = [event |-> "push", repo |-> Key(r)]
      BY <1>0, <3>1 DEF Payload, Key, Event
    <3> QED BY <1>3, <3>1, <3>2 DEF LossInv, DebounceBacked
  <2> QED BY <2>1, <2>2
<1>8. Attended'
  <2> SUFFICES ASSUME NEW d \in Deliveries, (d \in replay_cache \/ Acknowledged(d))',
                      map_event_to_action(payload[d].event) # "Ignore"
               PROVE  Firm(d)' \/ AtDoor(d)' \/ d \in debounced'
    BY <1>3 DEF Attended
  <2>1. debounced \subseteq debounced'
    BY <1>1 DEF StepOf
  <2>2. PICK m \in 1..MaxSends : r = <<r[1], m>>
    BY DEF Requests
  <2>3. CASE d = r[1] /\ to = "accepted"
    BY <1>0, <1>1, <2>2, <2>3 DEF StepOf, AtDoor
  <2>4. CASE d = r[1] /\ place[r] \in Committed \cup {"accepted"}
    <3>1. Action(r) # "Ignore"
      BY <2>4 DEF Action, Event
    <3>2. Leaves(to, code) \/ Carries(r) \/ d \in debounced'
      BY <1>1, <2>4, <3>1 DEF StepOf
    <3> QED BY <1>1, <2>4, <3>2, LeavingIsFirm
  <2>5. CASE /\ ~(d = r[1] /\ to = "accepted")
             /\ ~(d = r[1] /\ place[r] \in Committed \cup {"accepted"})
    <3>1. d \in replay_cache \/ Acknowledged(d)
      <4>1. CASE d \in replay_cache'
        BY <1>1, <2>5, <4>1 DEF StepOf
      <4>2. CASE Acknowledged(d)'
        <5>1. PICK n \in 1..MaxSends : answer'[<<d, n>>] \in {"200", "202"}
          BY <4>2 DEF Acknowledged, Answered
        <5>2. CASE <<d, n>> = r
          <6>1. d = r[1] /\ Action(r) # "Ignore" /\ code \in {"200", "202"}
            BY <1>0, <1>1, <5>1, <5>2 DEF StepOf, Action, Event
          <6> QED BY <1>1, <2>5, <6>1 DEF StepOf
        <5>3. CASE <<d, n>> # r
          <6>1. answer[<<d, n>>] \in {"200", "202"}
            BY <1>0, <1>1, <5>1, <5>3 DEF StepOf, Requests
          <6> QED BY <6>1 DEF Acknowledged, Answered
        <5> QED BY <5>2, <5>3
      <4> QED BY <4>1, <4>2
    <3>2. Firm(d) \/ AtDoor(d) \/ d \in debounced
      BY <3>1 DEF LossInv, Attended
    <3>3. AtDoor(d) => AtDoor(d)'
      <4> SUFFICES ASSUME NEW n \in 1..MaxSends, place[<<d, n>>] = "accepted"
                   PROVE  place'[<<d, n>>] = "accepted"
        BY DEF AtDoor
      <4>1. <<d, n>> # r /\ <<d, n>> \in Requests
        BY <2>5 DEF Requests
      <4> QED BY <1>0, <1>1, <4>1 DEF StepOf
    <3> QED BY <1>3, <2>1, <3>2, <3>3
  <2> QED BY <2>3, <2>4, <2>5
<1> QED BY <1>2, <1>4, <1>5, <1>6, <1>7, <1>8 DEF LossInv

LEMMA EnvironmentKeepsLossInv ==
  ASSUME LossInv,
         \/ \E d \in Deliveries : replay_expires(d)
         \/ \E k \in Repos : debounce_expires(k) \/ Dequeue(k) \/ Deliver(k)
         \/ UNCHANGED vars
  PROVE  LossInv'
<1>1. TypeOK'
  <2>1. CASE UNCHANGED vars
    BY <2>1 DEF LossInv, TypeOK, vars, caches, work, webhookHistory
  <2> QED BY <2>1, EnvironmentTypes DEF LossInv
<1>2. /\ UNCHANGED <<payload, place, answer, applied, debounced>>
      /\ replay_cache' \subseteq replay_cache /\ debounce_cache' \subseteq debounce_cache
  BY DEF replay_expires, debounce_expires, Dequeue, Deliver, vars, caches, work, webhookHistory
<1>3. \A d : /\ Firm(d)' <=> Firm(d)
             /\ AtDoor(d)' <=> AtDoor(d)
             /\ Acknowledged(d)' <=> Acknowledged(d)
  BY <1>2 DEF Firm, AtDoor, Acknowledged, Refused, Answered
<1>4. AnsweredLast' /\ PushesOnly'
  BY <1>2 DEF LossInv, AnsweredLast, PushesOnly, Event
<1>5. DebounceBacked' /\ DebouncedBacked' /\ Attended'
  BY <1>2, <1>3 DEF LossInv, DebounceBacked, DebouncedBacked, Attended
<1> QED BY <1>1, <1>4, <1>5 DEF LossInv

(***************************************************************************)
(* An acknowledged delivery is lost only where a request failed visibly,   *)
(* for any number of deliveries, requests and evictions: it was carried    *)
(* out, is at work, stands behind a push that was or is, or else one of    *)
(* its requests was refused or dropped (webhook_handler).                  *)
(***************************************************************************)
THEOREM LossesAreVisible == Spec => []LossIsVisible
<1>1. Init => LossInv
  <2> SUFFICES ASSUME Init PROVE LossInv
    OBVIOUS
  <2>1. TypeOK
    <3>1. Cardinality(queued) <= QueueCapacity
      BY FS_EmptySet, WebhookBounds DEF Init
    <3> QED BY <3>1, WebhookBounds DEF Init, TypeOK, Places, Answers
  <2>2. AnsweredLast /\ PushesOnly
    BY DEF Init, AnsweredLast, PushesOnly
  <2>3. DebounceBacked /\ DebouncedBacked
    BY DEF Init, DebounceBacked, DebouncedBacked
  <2>4. Attended
    BY DEF Init, Attended, Acknowledged, Answered, Requests
  <2> QED BY <2>1, <2>2, <2>3, <2>4 DEF LossInv
<1>2. LossInv /\ [Next]_vars => LossInv'
  BY RequestKeepsLossInv, EnvironmentKeepsLossInv DEF Next
<1>3. LossInv => LossIsVisible
  <2> SUFFICES ASSUME LossInv, NEW d \in Deliveries, Effective(d)
               PROVE  applied[d] > 0 \/ Running(d) \/ Covered(d) \/ Refused(d)
    BY DEF LossIsVisible
  <2>1. Firm(d) \/ AtDoor(d) \/ d \in debounced
    BY DEF LossInv, Attended, Effective
  <2>2. \A e : Firm(e) => applied[e] > 0 \/ Running(e) \/ Refused(e)
    BY DEF Firm, Running, Committed
  <2>3. AtDoor(d) => Running(d)
    BY DEF AtDoor, Running
  <2>4. ASSUME d \in debounced, ~Firm(d)
        PROVE  Covered(d)
    <3>1. PICK e \in Deliveries : payload[e] = payload[d] /\ Firm(e)
      BY <2>4 DEF LossInv, DebouncedBacked
    <3>2. e # d
      BY <2>4, <3>1
    <3> QED BY <2>2, <2>4, <3>1, <3>2 DEF Covered
  <2> QED BY <2>1, <2>2, <2>3, <2>4
<1> QED BY <1>1, <1>2, <1>3, PTL DEF Spec
=============================================================================
