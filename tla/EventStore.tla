---------------------------- MODULE EventStore ----------------------------
(***************************************************************************)
(* The native event stores of gh-report (store/mod.rs, StoreInner).        *)
(*                                                                         *)
(* A store is an append-only authoritative journal, a `.pgno' file or a    *)
(* NATS JetStream stream kept by the pardosa library, and the process's    *)
(* in-memory copy of it, `cached'.  Every write is made under the          *)
(* `knowledge' mutex, which also remembers what the process knows about    *)
(* its last write: Ready, Landed (in the journal, not yet acknowledged) or *)
(* Unknown (the backend gave no verdict).  Reads and writes are refused    *)
(* unless the knowledge is Ready, and only reopening the store makes a     *)
(* latched store Ready again.                                              *)
(*                                                                         *)
(* Several stores are modelled side by side; AppState composes the three   *)
(* stores of the program from the actions of this module.                  *)
(***************************************************************************)
EXTENDS Naturals, Sequences

CONSTANTS Stores,      \* names of the stores
          Keys,        \* domain keys; derive_fiber_id makes each one a fiber
          Events,      \* event payloads
          NoWrite,     \* "no write holds the store": not an envelope
          MaxJournal   \* bound on the length of a journal

(***************************************************************************)
(* A committed envelope: the fiber it belongs to, whether it detaches the  *)
(* fiber, and its payload.                                                 *)
(***************************************************************************)
Envelope == [key : Keys, detached : BOOLEAN, event : Events]
envelope(k, d, e) == [key |-> k, detached |-> d, event |-> e]

ASSUME BoundAssumption == MaxJournal \in Nat
ASSUME NoWriteAssumption == NoWrite \notin Envelope

VARIABLES journal,     \* the authoritative sequence of envelopes of each store
          cached,      \* StoreInner::cached
          knowledge,   \* StoreInner::knowledge, "Poisoned" when the mutex is
          writing,     \* the envelope landed by the holder of the knowledge lock
          unsynced,    \* the last envelope of the journal may be lost in a crash
          fresh        \* history: nobody else appended since `cached' was read

storeVars == <<journal, cached, knowledge, writing, unsynced, fresh>>

Knowledge == {"Ready", "Unknown", "Landed", "Poisoned"}

TypeOK ==
  /\ journal \in [Stores -> Seq(Envelope)]
  /\ cached \in [Stores -> Seq(Envelope)]
  /\ knowledge \in [Stores -> Knowledge]
  /\ writing \in [Stores -> Envelope \cup {NoWrite}]
  /\ unsynced \in [Stores -> BOOLEAN]
  /\ fresh \in [Stores -> BOOLEAN]

Init ==
  /\ journal = [s \in Stores |-> <<>>]
  /\ cached = [s \in Stores |-> <<>>]
  /\ knowledge = [s \in Stores |-> "Ready"]
  /\ writing = [s \in Stores |-> NoWrite]
  /\ unsynced = [s \in Stores |-> FALSE]
  /\ fresh = [s \in Stores |-> TRUE]

-----------------------------------------------------------------------------
(***************************************************************************)
(* Fibers, as the writer session of the backend reports them.              *)
(***************************************************************************)
LastOf(j, k, i) ==
  /\ i \in DOMAIN j
  /\ j[i].key = k
  /\ \A n \in DOMAIN j : n > i => j[n].key # k

is_active(j, k) == \E i \in DOMAIN j : LastOf(j, k, i) /\ ~j[i].detached

-----------------------------------------------------------------------------
(***************************************************************************)
(* Faulty variant: the lock is taken without asking what it protects.      *)
(***************************************************************************)
lock_knowledge_unchecked(s) == writing[s] = NoWrite

(***************************************************************************)
(* lock_knowledge: the lock is free and the last write is settled.         *)
(***************************************************************************)
lock_knowledge(s) ==
  /\ writing[s] = NoWrite
  /\ knowledge[s] = "Ready"

Appended(s, env) ==
  /\ Len(journal[s]) < MaxJournal
  /\ journal' = [journal EXCEPT ![s] = Append(@, env)]

(***************************************************************************)
(* accept(Landed): the envelope is in the journal; the lock is kept until  *)
(* the session is synced.                                                  *)
(***************************************************************************)
Lands(s, env) ==
  /\ lock_knowledge(s)
  /\ Appended(s, env)
  /\ knowledge' = [knowledge EXCEPT ![s] = "Landed"]
  /\ writing' = [writing EXCEPT ![s] = env]
  /\ unsynced' = [unsynced EXCEPT ![s] = TRUE]
  /\ UNCHANGED <<cached, fresh>>

(***************************************************************************)
(* accept(Undetermined): the write landed or it did not; the process never *)
(* reads this journal again before it is reopened, so the choice can be    *)
(* made here.                                                              *)
(***************************************************************************)
Undetermined(s, env) ==
  /\ lock_knowledge(s)
  /\ Appended(s, env) \/ UNCHANGED journal
  /\ knowledge' = [knowledge EXCEPT ![s] = "Unknown"]
  /\ UNCHANGED <<cached, writing, unsynced, fresh>>

accept(s, env) == Lands(s, env) \/ Undetermined(s, env)

(***************************************************************************)
(* StoreInner::record.  A detached fiber is rescued, any other fiber is    *)
(* appended to: both put a live envelope on the fiber.                     *)
(***************************************************************************)
record(s, k, e) == accept(s, envelope(k, FALSE, e))

(***************************************************************************)
(* StoreInner::detach writes only to an active fiber.                      *)
(***************************************************************************)
detach(s, k, e) ==
  /\ is_active(journal[s], k)
  /\ accept(s, envelope(k, TRUE, e))

(***************************************************************************)
(* Faulty variant: the caller is told of success before session.sync().    *)
(***************************************************************************)
Acknowledge_before_sync(s) ==
  /\ writing[s] # NoWrite
  /\ cached' = [cached EXCEPT ![s] = Append(@, writing[s])]
  /\ knowledge' = [knowledge EXCEPT ![s] = "Ready"]
  /\ writing' = [writing EXCEPT ![s] = NoWrite]
  /\ UNCHANGED <<journal, unsynced, fresh>>

(***************************************************************************)
(* The session synced: the envelope is pushed on the cache, the store is   *)
(* Ready and the lock is released.                                         *)
(***************************************************************************)
Acknowledge(s) ==
  /\ writing[s] # NoWrite
  /\ cached' = [cached EXCEPT ![s] = Append(@, writing[s])]
  /\ knowledge' = [knowledge EXCEPT ![s] = "Ready"]
  /\ writing' = [writing EXCEPT ![s] = NoWrite]
  /\ unsynced' = [unsynced EXCEPT ![s] = FALSE]
  /\ UNCHANGED <<journal, fresh>>

(***************************************************************************)
(* after_landed: the sync failed (the envelope stays unsynced) or the      *)
(* cache mutex was poisoned.  The knowledge stays Landed.                  *)
(***************************************************************************)
AfterLanded(s) ==
  /\ writing[s] # NoWrite
  /\ writing' = [writing EXCEPT ![s] = NoWrite]
  /\ \E u \in BOOLEAN : unsynced' = [unsynced EXCEPT ![s] = u]
  /\ UNCHANGED <<journal, cached, knowledge, fresh>>

(***************************************************************************)
(* A panic while the lock is held poisons it.                              *)
(***************************************************************************)
Panics(s) ==
  /\ writing[s] # NoWrite
  /\ writing' = [writing EXCEPT ![s] = NoWrite]
  /\ knowledge' = [knowledge EXCEPT ![s] = "Poisoned"]
  /\ UNCHANGED <<journal, cached, unsynced, fresh>>

(***************************************************************************)
(* Re-seed the cache from the journal.  A failed read, decode or schema    *)
(* check returns before the cache is replaced and changes nothing.         *)
(***************************************************************************)
resync_from_authoritative(s) ==
  /\ lock_knowledge(s)
  /\ cached' = [cached EXCEPT ![s] = journal[s]]
  /\ fresh' = [fresh EXCEPT ![s] = TRUE]
  /\ UNCHANGED <<journal, knowledge, writing, unsynced>>

(***************************************************************************)
(* Another process of the same program appends (an overlapping revision    *)
(* during a rollover).  It obeys the same fiber discipline, and cannot     *)
(* hold the writer lease while this process holds a session.               *)
(***************************************************************************)
ForeignWrite(s, env) ==
  /\ writing[s] = NoWrite
  /\ env.detached => is_active(journal[s], env.key)
  /\ Appended(s, env)
  /\ fresh' = [fresh EXCEPT ![s] = FALSE]
  /\ unsynced' = [unsynced EXCEPT ![s] = FALSE]
  /\ UNCHANGED <<cached, knowledge, writing>>

(***************************************************************************)
(* The process dies and a new one opens the stores (open_pgno, open_nats). *)
(* A last envelope that was never synced may be lost with it.              *)
(***************************************************************************)
Surviving(lost) ==
  [s \in Stores |-> IF s \in lost THEN SubSeq(journal[s], 1, Len(journal[s]) - 1)
                                  ELSE journal[s]]

Reopen ==
  /\ \E lost \in SUBSET {s \in Stores : unsynced[s]} : journal' = Surviving(lost)
  /\ cached' = journal'
  /\ knowledge' = [s \in Stores |-> "Ready"]
  /\ writing' = [s \in Stores |-> NoWrite]
  /\ unsynced' = [s \in Stores |-> FALSE]
  /\ fresh' = [s \in Stores |-> TRUE]

StoreStep(s) ==
  \/ \E k \in Keys, e \in Events : record(s, k, e) \/ detach(s, k, e)
  \/ Acknowledge(s)
  \/ AfterLanded(s)
  \/ Panics(s)
  \/ resync_from_authoritative(s)
  \/ \E env \in Envelope : ForeignWrite(s, env)

Next == Reopen \/ \E s \in Stores : StoreStep(s)

Spec == Init /\ [][Next]_storeVars

-----------------------------------------------------------------------------
(***************************************************************************)
(* A cache may miss exactly the one write the process could not settle: a  *)
(* Ready store that nobody else wrote to holds the whole journal, a        *)
(* latched one lacks at most the last envelope (record, detach and the     *)
(* latch in WriteKnowledge, store/mod.rs:102-131, 359-454).                *)
(***************************************************************************)
LacksLast(s) ==
  /\ Len(journal[s]) = Len(cached[s]) + 1
  /\ cached[s] = SubSeq(journal[s], 1, Len(cached[s]))

CacheExactFor(s) ==
  /\ (knowledge[s] = "Ready") => (cached[s] = journal[s])
  /\ (knowledge[s] \in {"Landed", "Poisoned"}) => LacksLast(s)
  /\ (knowledge[s] = "Unknown") => (cached[s] = journal[s] \/ LacksLast(s))

CacheExact == \A s \in Stores : fresh[s] => CacheExactFor(s)

(***************************************************************************)
(* A fiber is detached only while it is live: every detaching envelope     *)
(* directly follows, on its own fiber, a live one, whatever writers and    *)
(* crashes interleave (the is_active check of StoreInner::detach).         *)
(***************************************************************************)
DetachFollowsLive ==
  \A s \in Stores : \A i \in DOMAIN journal[s] :
    journal[s][i].detached =>
      \E n \in 1..(i - 1) :
        /\ journal[s][n].key = journal[s][i].key
        /\ ~journal[s][n].detached
        /\ \A m \in (n + 1)..(i - 1) : journal[s][m].key # journal[s][i].key

(***************************************************************************)
(* What was acknowledged to a caller is never lost, not even in a crash:   *)
(* each cached envelope stays in the cache, in its order, through          *)
(* resyncs and reopening (session.sync() precedes the push,                *)
(* store/mod.rs:387-406).                                                  *)
(***************************************************************************)
Embeds(p, q) ==
  \E f \in [DOMAIN p -> DOMAIN q] :
    /\ \A i \in DOMAIN p : p[i] = q[f[i]]
    /\ \A i, n \in DOMAIN p : i < n => f[i] < f[n]

NothingAcknowledgedIsLost ==
  [][\A s \in Stores : Embeds(cached[s], cached'[s])]_storeVars
=============================================================================
