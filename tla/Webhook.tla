------------------------------ MODULE Webhook ------------------------------
(***************************************************************************)
(* The GitHub webhook receiver (webhook/mod.rs, webhook/events.rs) with    *)
(* its replay and debounce caches (app/webhook_context.rs) and the bounded *)
(* retry of app/write_policy.rs around a removal.                          *)
(*                                                                         *)
(* A delivery may be sent several times, and its requests are handled      *)
(* concurrently.  A request whose connection is lost is dropped at one of  *)
(* its awaits.  The work queue is shared with everybody else; of a job     *)
(* only its repository matters here.                                       *)
(***************************************************************************)
EXTENDS Naturals, FiniteSets

CONSTANTS Deliveries,              \* X-GitHub-Delivery ids
          Repos,                   \* inventory keys
          MaxSends,                \* bound: requests per delivery
          MaxEvictions,            \* bound: replay entries that expire
          QueueCapacity,           \* capacity of the work queue
          BOUNDED_RETRY_ATTEMPTS   \* retries after the first write attempt

ASSUME WebhookBounds ==
  /\ MaxSends \in Nat /\ MaxEvictions \in Nat
  /\ QueueCapacity \in Nat /\ BOUNDED_RETRY_ATTEMPTS \in Nat
  /\ IsFiniteSet(Repos)

Requests == Deliveries \X (1..MaxSends)

VARIABLES
  payload,         \* what each delivery carries
  place,           \* where the handler of each request is
  answer,          \* the status each request was answered with
  attempts,        \* write attempts made by each removal
  replay_cache,    \* deliveries seen within the hour
  debounce_cache,  \* repositories pushed to within the window
  queued,          \* repositories with a job in the work queue
  executing,       \* repositories a worker is evaluating
  projection,      \* repositories with evidence
  applied,         \* history: how often the action of a delivery was carried out
  debounced,       \* history: deliveries answered by the debounce
  evicted          \* history: how often a delivery fell out of the replay cache

caches == <<replay_cache, debounce_cache>>
work == <<queued, executing, projection>>
webhookHistory == <<applied, debounced, evicted>>
vars == <<payload, place, answer, attempts, caches, work, webhookHistory>>

(***************************************************************************)
(* The kinds of request the code tells apart: signed or not, parsable or   *)
(* not, repository events by their action, alert and protection events,    *)
(* pushes that touch a security file of the default branch and other       *)
(* pushes, events it does not handle.                                      *)
(***************************************************************************)
Events == {"unsigned", "malformed", "repository_deleted", "repository_created",
           "repository_edited", "alert", "push", "push_elsewhere", "unhandled"}

Payload == [event : Events, repo : Repos]

is_security_relevant_push(event) == event = "push"

map_event_to_action(event) ==
  CASE event = "repository_deleted"              -> "Remove"
    [] event \in {"repository_created", "alert"} -> "Enqueue"
    [] is_security_relevant_push(event)          -> "Enqueue"
    [] OTHER                                     -> "Ignore"

Places == {"unsent", "arrived", "accepted", "removing", "undebounced", "recorded", "ended"}
Answers == {"none", "200", "202", "400", "401", "502", "503", "dropped"}

TypeOK ==
  /\ payload \in [Deliveries -> Payload]
  /\ place \in [Requests -> Places]
  /\ answer \in [Requests -> Answers]
  /\ attempts \in [Requests -> 0..BOUNDED_RETRY_ATTEMPTS]
  /\ replay_cache \subseteq Deliveries
  /\ debounce_cache \subseteq Repos
  /\ queued \subseteq Repos /\ Cardinality(queued) <= QueueCapacity
  /\ executing \subseteq Repos
  /\ projection \subseteq Repos
  /\ applied \in [Deliveries -> Nat]
  /\ debounced \subseteq Deliveries
  /\ evicted \in [Deliveries -> Nat]

Init ==
  /\ payload \in [Deliveries -> Payload]
  /\ place = [r \in Requests |-> "unsent"]
  /\ answer = [r \in Requests |-> "none"]
  /\ attempts = [r \in Requests |-> 0]
  /\ replay_cache = {} /\ debounce_cache = {}
  /\ queued = {} /\ executing = {}
  /\ projection \in SUBSET Repos
  /\ applied = [d \in Deliveries |-> 0]
  /\ debounced = {}
  /\ evicted = [d \in Deliveries |-> 0]

Event(r) == payload[r[1]].event
Key(r) == payload[r[1]].repo
Action(r) == map_event_to_action(Event(r))

Moves(r, from, to) ==
  /\ place[r] = from
  /\ place' = [place EXCEPT ![r] = to]
  /\ UNCHANGED <<payload, answer>>

Answers_with(r, from, code) ==
  /\ place[r] = from
  /\ place' = [place EXCEPT ![r] = "ended"]
  /\ answer' = [answer EXCEPT ![r] = code]
  /\ UNCHANGED payload

CarriedOut(r) ==
  /\ applied' = [applied EXCEPT ![r[1]] = @ + 1]
  /\ UNCHANGED <<debounced, evicted>>

-----------------------------------------------------------------------------
(***************************************************************************)
(* GitHub sends a delivery, or sends it again, for instance because no     *)
(* answer came in time.                                                    *)
(***************************************************************************)
Send(r) ==
  /\ \A n \in 1..(r[2] - 1) : place[<<r[1], n>>] # "unsent"
  /\ Moves(r, "unsent", "arrived")
  /\ UNCHANGED <<attempts, caches, work, webhookHistory>>

validate_request(r) ==
  /\ Event(r) = "unsigned"
  /\ Answers_with(r, "arrived", "401")
  /\ UNCHANGED <<attempts, caches, work, webhookHistory>>

parse_error(r) ==
  /\ Event(r) = "malformed"
  /\ Answers_with(r, "arrived", "400")
  /\ UNCHANGED <<attempts, caches, work, webhookHistory>>

Valid(r) == Event(r) \notin {"unsigned", "malformed"}

(***************************************************************************)
(* Faulty variant: the delivery is looked up and not inserted.             *)
(***************************************************************************)
accept_webhook_delivery_lookup(r) ==
  /\ Valid(r)
  /\ r[1] \notin replay_cache
  /\ Moves(r, "arrived", "accepted")
  /\ UNCHANGED <<attempts, caches, work, webhookHistory>>

(***************************************************************************)
(* The replay check: look up and insert in one step of the cache.  A       *)
(* delivery it holds already is answered 200 at once.                      *)
(***************************************************************************)
accept_webhook_delivery(r) ==
  /\ Valid(r)
  /\ r[1] \notin replay_cache
  /\ replay_cache' = replay_cache \cup {r[1]}
  /\ Moves(r, "arrived", "accepted")
  /\ UNCHANGED <<attempts, debounce_cache, work, webhookHistory>>

replay_detected(r) ==
  /\ Valid(r)
  /\ r[1] \in replay_cache
  /\ Answers_with(r, "arrived", "200")
  /\ UNCHANGED <<attempts, caches, work, webhookHistory>>

execute_ignore(r) ==
  /\ Action(r) = "Ignore"
  /\ Answers_with(r, "accepted", "200")
  /\ UNCHANGED <<attempts, caches, work, webhookHistory>>

-----------------------------------------------------------------------------
(***************************************************************************)
(* execute_remove: nothing to do without evidence, else remove_repo under  *)
(* write_with_policy.  An attempt succeeds, fails transiently and is tried *)
(* again after a sleep while retries are left, or fails for good.          *)
(***************************************************************************)
nothing_to_remove(r) ==
  /\ Action(r) = "Remove"
  /\ Key(r) \notin projection
  /\ Answers_with(r, "accepted", "200")
  /\ CarriedOut(r)
  /\ UNCHANGED <<attempts, caches, work>>

Attempting(r) ==
  /\ Action(r) = "Remove"
  /\ place[r] = "removing" \/ (place[r] = "accepted" /\ Key(r) \in projection)

write_succeeds(r) ==
  /\ Attempting(r)
  /\ projection' = projection \ {Key(r)}
  /\ Answers_with(r, place[r], "200")
  /\ CarriedOut(r)
  /\ UNCHANGED <<attempts, caches, queued, executing>>

(***************************************************************************)
(* Faulty variant: one retry too many.                                     *)
(***************************************************************************)
write_retries_off_by_one(r) ==
  /\ Attempting(r)
  /\ attempts[r] <= BOUNDED_RETRY_ATTEMPTS
  /\ attempts' = [attempts EXCEPT ![r] = @ + 1]
  /\ Moves(r, place[r], "removing")
  /\ UNCHANGED <<caches, work, webhookHistory>>

write_retries(r) ==
  /\ Attempting(r)
  /\ attempts[r] < BOUNDED_RETRY_ATTEMPTS
  /\ attempts' = [attempts EXCEPT ![r] = @ + 1]
  /\ Moves(r, place[r], "removing")
  /\ UNCHANGED <<caches, work, webhookHistory>>

(***************************************************************************)
(* Faulty variant: the failed removal is logged and answered 200.          *)
(***************************************************************************)
write_fails_silently(r) ==
  /\ Attempting(r)
  /\ Answers_with(r, place[r], "200")
  /\ UNCHANGED <<attempts, caches, work, webhookHistory>>

write_fails(r) ==
  /\ Attempting(r)
  /\ Answers_with(r, place[r], "502")
  /\ UNCHANGED <<attempts, caches, work, webhookHistory>>

-----------------------------------------------------------------------------
(***************************************************************************)
(* execute_enqueue: a push is looked up in the debounce cache, then        *)
(* recorded, then submitted; any other event is submitted at once.         *)
(***************************************************************************)
Pushes(r) == Action(r) = "Enqueue" /\ Event(r) = "push"

push_debounced(r) ==
  /\ Pushes(r)
  /\ Key(r) \in debounce_cache
  /\ Answers_with(r, "accepted", "200")
  /\ debounced' = debounced \cup {r[1]}
  /\ UNCHANGED <<attempts, caches, work, applied, evicted>>

push_not_debounced(r) ==
  /\ Pushes(r)
  /\ Key(r) \notin debounce_cache
  /\ Moves(r, "accepted", "undebounced")
  /\ UNCHANGED <<attempts, caches, work, webhookHistory>>

record_push(r) ==
  /\ debounce_cache' = debounce_cache \cup {Key(r)}
  /\ Moves(r, "undebounced", "recorded")
  /\ UNCHANGED <<attempts, replay_cache, work, webhookHistory>>

Submits(r) ==
  \/ place[r] = "recorded"
  \/ place[r] = "accepted" /\ Action(r) = "Enqueue" /\ ~Pushes(r)

Full == Cardinality(queued) >= QueueCapacity

job_enqueued(r) ==
  /\ Submits(r)
  /\ Key(r) \notin queued
  /\ ~Full
  /\ queued' = queued \cup {Key(r)}
  /\ Answers_with(r, place[r], "202")
  /\ CarriedOut(r)
  /\ UNCHANGED <<attempts, caches, executing, projection>>

job_deduplicated(r) ==
  /\ Submits(r)
  /\ Key(r) \in queued
  /\ Answers_with(r, place[r], "200")
  /\ CarriedOut(r)
  /\ UNCHANGED <<attempts, caches, work>>

queue_full(r) ==
  /\ Submits(r)
  /\ Key(r) \notin queued
  /\ Full
  /\ Answers_with(r, place[r], "503")
  /\ UNCHANGED <<attempts, caches, work, webhookHistory>>

-----------------------------------------------------------------------------
(***************************************************************************)
(* The connection is lost while the handler awaits: the replay cache,      *)
(* before or after its insertion, another attempt of a removal, or the     *)
(* debounce cache.                                                         *)
(***************************************************************************)
connection_lost(r) ==
  /\ Answers_with(r, place[r], "dropped")
  /\ \/ place[r] = "arrived" /\ Valid(r)
     \/ place[r] \in {"accepted", "removing", "undebounced", "recorded"}
  /\ UNCHANGED <<attempts, caches, work, webhookHistory>>

replay_expires(d) ==
  /\ d \in replay_cache
  /\ evicted[d] < MaxEvictions
  /\ replay_cache' = replay_cache \ {d}
  /\ evicted' = [evicted EXCEPT ![d] = @ + 1]
  /\ UNCHANGED <<payload, place, answer, attempts, debounce_cache, work, applied, debounced>>

debounce_expires(k) ==
  /\ k \in debounce_cache
  /\ debounce_cache' = debounce_cache \ {k}
  /\ UNCHANGED <<payload, place, answer, attempts, replay_cache, work, webhookHistory>>

Dequeue(k) ==
  /\ k \in queued
  /\ k \notin executing
  /\ queued' = queued \ {k}
  /\ executing' = executing \cup {k}
  /\ UNCHANGED <<payload, place, answer, attempts, caches, projection, webhookHistory>>

Deliver(k) ==
  /\ k \in executing
  /\ executing' = executing \ {k}
  /\ projection' = projection \cup {k}
  /\ UNCHANGED <<payload, place, answer, attempts, caches, queued, webhookHistory>>

webhook_handler(r) ==
  \/ validate_request(r) \/ parse_error(r)
  \/ accept_webhook_delivery(r) \/ replay_detected(r)
  \/ execute_ignore(r)
  \/ nothing_to_remove(r) \/ write_succeeds(r) \/ write_retries(r) \/ write_fails(r)
  \/ push_debounced(r) \/ push_not_debounced(r) \/ record_push(r)
  \/ job_enqueued(r) \/ job_deduplicated(r) \/ queue_full(r)

Next ==
  \/ \E r \in Requests : Send(r) \/ webhook_handler(r) \/ connection_lost(r)
  \/ \E d \in Deliveries : replay_expires(d)
  \/ \E k \in Repos : debounce_expires(k) \/ Dequeue(k) \/ Deliver(k)

Spec == Init /\ [][Next]_vars

-----------------------------------------------------------------------------
(***************************************************************************)
(* "Duplicates return 200 OK with no work enqueued" (OPERATIONS.md:924):   *)
(* however often and however concurrently a delivery is sent, its action   *)
(* is carried out at most once, and once more for every time the replay    *)
(* cache forgot it (accept_webhook_delivery, app/state/mod.rs:662-669).    *)
(***************************************************************************)
CarriedOutOnce == \A d \in Deliveries : applied[d] <= 1 + evicted[d]

Answered(d, codes) == \E n \in 1..MaxSends : answer[<<d, n>>] \in codes
Acknowledged(d) == Answered(d, {"200", "202"})
Refused(d) == Answered(d, {"502", "503", "dropped"})
Running(d) == \E n \in 1..MaxSends : place[<<d, n>>] \notin {"unsent", "arrived", "ended"}
Effective(d) == Acknowledged(d) /\ map_event_to_action(payload[d].event) # "Ignore"

(***************************************************************************)
(* Who debounced a push: another push to the repository, carried out,      *)
(* refused or still on its way.                                            *)
(***************************************************************************)
Covered(d) ==
  /\ d \in debounced
  /\ \E e \in Deliveries \ {d} :
       /\ payload[e] = payload[d]
       /\ applied[e] > 0 \/ Refused(e) \/ Running(e)

(***************************************************************************)
(* An acknowledged delivery is lost only where a request failed visibly:   *)
(* it was carried out, is being carried out, was debounced by a push that  *)
(* was or is, or else one of its requests was refused or dropped           *)
(* (webhook_handler and its execute_ functions, webhook/mod.rs:61-277).    *)
(***************************************************************************)
LossIsVisible ==
  \A d \in Deliveries : Effective(d) =>
    applied[d] > 0 \/ Running(d) \/ Covered(d) \/ Refused(d)

(***************************************************************************)
(* "GitHub redelivers the webhook" after a failed removal                  *)
(* (webhook/mod.rs:158-161) and "client should retry with backoff" after a *)
(* full queue (OPERATIONS.md:936): once a retried delivery is acknowledged *)
(* its action has been carried out, or a debounce stands for it.           *)
(***************************************************************************)
AcknowledgedIsCarriedOut ==
  \A d \in Deliveries : Effective(d) /\ ~Running(d) => applied[d] > 0 \/ d \in debounced
=============================================================================
