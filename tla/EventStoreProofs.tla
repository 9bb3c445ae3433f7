------------------------- MODULE EventStoreProofs -------------------------
(***************************************************************************)
(* Proofs about EventStore for every number of stores, keys, payloads and  *)
(* every journal length: the types, that a cache never misses more than    *)
(* the one write the process could not settle, that only live fibers are   *)
(* detached, and that nothing acknowledged is lost.                        *)
(***************************************************************************)
EXTENDS EventStore, SequenceTheorems, TLAPS

(***************************************************************************)
(* What makes CacheExact inductive: a write in flight has latched its      *)
(* store and, as long as nobody else wrote, is all that the cache lacks.   *)
(***************************************************************************)
InFlight(s) ==
  writing[s] # NoWrite =>
    /\ knowledge[s] = "Landed"
    /\ fresh[s] => journal[s] = Append(cached[s], writing[s])

StoreInv ==
  /\ TypeOK
  /\ \A s \in Stores : InFlight(s)
  /\ CacheExact

(***************************************************************************)
(* A journal that grew by one envelope is what a cache that held all of it *)
(* lacks the last envelope of.                                             *)
(***************************************************************************)
LEMMA AppendLacksLast ==
  ASSUME NEW S, NEW c \in Seq(S), NEW e \in S
  PROVE  /\ Append(c, e) \in Seq(S)
         /\ Len(Append(c, e)) = Len(c) + 1
         /\ c = SubSeq(Append(c, e), 1, Len(c))
<1>1. /\ Append(c, e) \in Seq(S)
      /\ Len(Append(c, e)) = Len(c) + 1
      /\ \A i \in 1..Len(c) : Append(c, e)[i] = c[i]
  BY AppendProperties
<1>2. Len(c) \in Nat
  BY LenProperties
<1>3. c = SubSeq(Append(c, e), 1, Len(c))
  BY <1>1, <1>2, SMT
<1> QED BY <1>1, <1>3

(***************************************************************************)
(* Dropping the last envelope of a journal leaves a journal.               *)
(***************************************************************************)
LEMMA DropLast ==
  ASSUME NEW S, NEW j \in Seq(S)
  PROVE  SubSeq(j, 1, Len(j) - 1) \in Seq(S)
<1>1. Len(j) \in Nat /\ \A i \in 1..Len(j) : j[i] \in S
  BY LenProperties, ElementOfSeq
<1>2. Len(j) - 1 \in Int /\ \A i \in 1..(Len(j) - 1) : j[i] \in S
  BY <1>1
<1> QED BY <1>2, SubSeqProperties

(***************************************************************************)
(* Envelopes are what the stores take.                                     *)
(***************************************************************************)
LEMMA EnvelopeType ==
  ASSUME NEW k \in Keys, NEW d \in BOOLEAN, NEW e \in Events
  PROVE  envelope(k, d, e) \in Envelope
BY DEF envelope, Envelope

(***************************************************************************)
(* The initial state satisfies the inductive invariant.                    *)
(***************************************************************************)
LEMMA InitEstablishes == Init => StoreInv
<1> SUFFICES ASSUME Init PROVE StoreInv
  OBVIOUS
<1>1. TypeOK
  BY EmptySeq DEF Init, TypeOK, Knowledge
<1>2. \A s \in Stores : InFlight(s)
  BY DEF Init, InFlight
<1>3. CacheExact
  BY DEF Init, CacheExact, CacheExactFor
<1> QED BY <1>1, <1>2, <1>3 DEF StoreInv

(***************************************************************************)
(* A store that a step leaves alone keeps its part of the invariant.       *)
(***************************************************************************)
Settled(s) == InFlight(s) /\ (fresh[s] => CacheExactFor(s))

LEMMA Untouched ==
  ASSUME NEW t, Settled(t),
         journal'[t] = journal[t], cached'[t] = cached[t], knowledge'[t] = knowledge[t],
         writing'[t] = writing[t], fresh'[t] = fresh[t]
  PROVE  Settled(t)'
BY DEF Settled, InFlight, CacheExactFor, LacksLast

(***************************************************************************)
(* A step of one store keeps the invariant if it keeps the types and that  *)
(* store's part, and touches no other store.                               *)
(***************************************************************************)
LEMMA OneStore ==
  ASSUME StoreInv, NEW s \in Stores, TypeOK', Settled(s)',
         \A t \in Stores \ {s} :
           /\ journal'[t] = journal[t] /\ cached'[t] = cached[t]
           /\ knowledge'[t] = knowledge[t] /\ writing'[t] = writing[t]
           /\ fresh'[t] = fresh[t]
  PROVE  StoreInv'
<1>1. \A t \in Stores : Settled(t)
  BY DEF StoreInv, CacheExact, Settled
<1>2. \A t \in Stores \ {s} : Settled(t)'
  BY <1>1, Untouched
<1>3. \A t \in Stores : Settled(t)'
  BY <1>2
<1> QED BY <1>3 DEF StoreInv, CacheExact, Settled

(***************************************************************************)
(* A landed write (WriteKnowledge::accept).                                *)
(***************************************************************************)
LEMMA LandsPreserves ==
  ASSUME StoreInv, NEW s \in Stores, NEW env \in Envelope, Lands(s, env)
  PROVE  StoreInv'
<1>1. /\ writing[s] = NoWrite /\ knowledge[s] = "Ready"
      /\ journal' = [journal EXCEPT ![s] = Append(journal[s], env)]
      /\ knowledge' = [knowledge EXCEPT ![s] = "Landed"]
      /\ writing' = [writing EXCEPT ![s] = env]
      /\ unsynced' = [unsynced EXCEPT ![s] = TRUE]
      /\ cached' = cached /\ fresh' = fresh
  BY DEF Lands, lock_knowledge, Appended
<1>2. TypeOK /\ journal[s] \in Seq(Envelope) /\ cached[s] \in Seq(Envelope)
  BY DEF TypeOK, StoreInv
<1>3. /\ Append(journal[s], env) \in Seq(Envelope)
      /\ Len(Append(journal[s], env)) = Len(journal[s]) + 1
      /\ journal[s] = SubSeq(Append(journal[s], env), 1, Len(journal[s]))
  BY <1>2, AppendLacksLast
<1>4. TypeOK'
  BY <1>1, <1>2, <1>3 DEF TypeOK, Knowledge
<1>5. fresh[s] => cached[s] = journal[s]
  BY <1>1 DEF StoreInv, CacheExact, CacheExactFor
<1>6. /\ journal'[s] = Append(journal[s], env) /\ knowledge'[s] = "Landed"
      /\ writing'[s] = env /\ cached'[s] = cached[s] /\ fresh'[s] = fresh[s]
  BY <1>1, <1>2 DEF TypeOK
<1>7. Settled(s)'
  BY <1>3, <1>5, <1>6 DEF Settled, InFlight, CacheExactFor, LacksLast
<1> QED BY <1>1, <1>2, <1>4, <1>7, OneStore DEF TypeOK

(***************************************************************************)
(* A write without a verdict latches the store, whether it landed or not.  *)
(***************************************************************************)
LEMMA UndeterminedPreserves ==
  ASSUME StoreInv, NEW s \in Stores, NEW env \in Envelope, Undetermined(s, env)
  PROVE  StoreInv'
<1>1. /\ writing[s] = NoWrite /\ knowledge[s] = "Ready"
      /\ knowledge' = [knowledge EXCEPT ![s] = "Unknown"]
      /\ writing' = writing /\ unsynced' = unsynced /\ cached' = cached /\ fresh' = fresh
      /\ \/ journal' = [journal EXCEPT ![s] = Append(journal[s], env)]
         \/ journal' = journal
  BY DEF Undetermined, lock_knowledge, Appended
<1>2. TypeOK /\ journal[s] \in Seq(Envelope)
  BY DEF TypeOK, StoreInv
<1>3. /\ Append(journal[s], env) \in Seq(Envelope)
      /\ Len(Append(journal[s], env)) = Len(journal[s]) + 1
      /\ journal[s] = SubSeq(Append(journal[s], env), 1, Len(journal[s]))
  BY <1>2, AppendLacksLast
<1>4. TypeOK'
  BY <1>1, <1>2, <1>3 DEF TypeOK, Knowledge
<1>5. fresh[s] => cached[s] = journal[s]
  BY <1>1 DEF StoreInv, CacheExact, CacheExactFor
<1>6. /\ journal'[s] = Append(journal[s], env) \/ journal'[s] = journal[s]
      /\ knowledge'[s] = "Unknown" /\ writing'[s] = NoWrite
      /\ cached'[s] = cached[s] /\ fresh'[s] = fresh[s]
  BY <1>1, <1>2 DEF TypeOK
<1>7. Settled(s)'
  BY <1>3, <1>5, <1>6 DEF Settled, InFlight, CacheExactFor, LacksLast
<1> QED BY <1>1, <1>2, <1>4, <1>7, OneStore DEF TypeOK

(***************************************************************************)
(* The synced write is pushed on the cache, which then holds the journal.  *)
(***************************************************************************)
LEMMA AcknowledgePreserves ==
  ASSUME StoreInv, NEW s \in Stores, Acknowledge(s)
  PROVE  StoreInv'
<1>1. /\ writing[s] # NoWrite
      /\ cached' = [cached EXCEPT ![s] = Append(cached[s], writing[s])]
      /\ knowledge' = [knowledge EXCEPT ![s] = "Ready"]
      /\ writing' = [writing EXCEPT ![s] = NoWrite]
      /\ unsynced' = [unsynced EXCEPT ![s] = FALSE]
      /\ journal' = journal /\ fresh' = fresh
  BY DEF Acknowledge
<1>2. TypeOK /\ cached[s] \in Seq(Envelope) /\ writing[s] \in Envelope
  BY <1>1 DEF TypeOK, StoreInv
<1>3. Append(cached[s], writing[s]) \in Seq(Envelope)
  BY <1>2, AppendLacksLast
<1>4. TypeOK'
  BY <1>1, <1>2, <1>3 DEF TypeOK, Knowledge
<1>5. fresh[s] => journal[s] = Append(cached[s], writing[s])
  BY <1>1 DEF StoreInv, InFlight
<1>6. /\ cached'[s] = Append(cached[s], writing[s]) /\ knowledge'[s] = "Ready"
      /\ writing'[s] = NoWrite /\ journal'[s] = journal[s] /\ fresh'[s] = fresh[s]
  BY <1>1, <1>2 DEF TypeOK
<1>7. Settled(s)'
  BY <1>5, <1>6 DEF Settled, InFlight, CacheExactFor, LacksLast
<1> QED BY <1>1, <1>2, <1>4, <1>7, OneStore DEF TypeOK

(***************************************************************************)
(* A write that failed after it landed, or whose task panicked, leaves the *)
(* store latched and the cache one envelope short.                         *)
(***************************************************************************)
LEMMA UnsettledPreserves ==
  ASSUME StoreInv, NEW s \in Stores, AfterLanded(s) \/ Panics(s)
  PROVE  StoreInv'
<1>1. /\ writing[s] # NoWrite
      /\ writing' = [writing EXCEPT ![s] = NoWrite]
      /\ \/ knowledge' = knowledge
         \/ knowledge' = [knowledge EXCEPT ![s] = "Poisoned"]
      /\ \/ unsynced' = unsynced
         \/ \E u \in BOOLEAN : unsynced' = [unsynced EXCEPT ![s] = u]
      /\ journal' = journal /\ cached' = cached /\ fresh' = fresh
  BY DEF AfterLanded, Panics
<1>2. TypeOK
  BY DEF StoreInv
<1>3. TypeOK'
  BY <1>1, <1>2 DEF TypeOK, Knowledge
<1>4. knowledge[s] = "Landed" /\ (fresh[s] => LacksLast(s))
  BY <1>1 DEF StoreInv, InFlight, CacheExact, CacheExactFor
<1>5. /\ writing'[s] = NoWrite /\ knowledge'[s] \in {"Landed", "Poisoned"}
      /\ journal'[s] = journal[s] /\ cached'[s] = cached[s] /\ fresh'[s] = fresh[s]
  BY <1>1, <1>2, <1>4 DEF TypeOK
<1>6. Settled(s)'
  BY <1>4, <1>5 DEF Settled, InFlight, CacheExactFor, LacksLast
<1> QED BY <1>1, <1>2, <1>3, <1>6, OneStore DEF TypeOK

(***************************************************************************)
(* A resync makes the cache the journal; a foreign write makes it stale.   *)
(***************************************************************************)
LEMMA ResyncPreserves ==
  ASSUME StoreInv, NEW s \in Stores, resync_from_authoritative(s)
  PROVE  StoreInv'
<1>1. /\ writing[s] = NoWrite /\ knowledge[s] = "Ready"
      /\ cached' = [cached EXCEPT ![s] = journal[s]]
      /\ fresh' = [fresh EXCEPT ![s] = TRUE]
      /\ journal' = journal /\ knowledge' = knowledge /\ writing' = writing
      /\ unsynced' = unsynced
  BY DEF resync_from_authoritative, lock_knowledge
<1>2. TypeOK
  BY DEF StoreInv
<1>3. TypeOK'
  BY <1>1, <1>2 DEF TypeOK
<1>4. Settled(s)'
  BY <1>1, <1>2 DEF TypeOK, Settled, InFlight, CacheExactFor
<1> QED BY <1>1, <1>2, <1>3, <1>4, OneStore DEF TypeOK

LEMMA ForeignWritePreserves ==
  ASSUME StoreInv, NEW s \in Stores, NEW env \in Envelope, ForeignWrite(s, env)
  PROVE  StoreInv'
<1>1. /\ writing[s] = NoWrite
      /\ journal' = [journal EXCEPT ![s] = Append(journal[s], env)]
      /\ fresh' = [fresh EXCEPT ![s] = FALSE]
      /\ unsynced' = [unsynced EXCEPT ![s] = FALSE]
      /\ cached' = cached /\ knowledge' = knowledge /\ writing' = writing
  BY DEF ForeignWrite, Appended
<1>2. TypeOK /\ Append(journal[s], env) \in Seq(Envelope)
  BY AppendLacksLast DEF StoreInv, TypeOK
<1>3. TypeOK'
  BY <1>1, <1>2 DEF TypeOK
<1>4. Settled(s)'
  BY <1>1, <1>2 DEF TypeOK, Settled, InFlight
<1> QED BY <1>1, <1>2, <1>3, <1>4, OneStore DEF TypeOK

(***************************************************************************)
(* Reopening reads what survived the crash.                                *)
(***************************************************************************)
LEMMA ReopenPreserves ==
  ASSUME StoreInv, Reopen
  PROVE  StoreInv'
<1>1. PICK lost \in SUBSET {s \in Stores : unsynced[s]} : journal' = Surviving(lost)
  BY DEF Reopen
<1>2. \A s \in Stores : SubSeq(journal[s], 1, Len(journal[s]) - 1) \in Seq(Envelope)
  BY DropLast DEF StoreInv, TypeOK
<1>3. journal' \in [Stores -> Seq(Envelope)]
  BY <1>1, <1>2 DEF Surviving, StoreInv, TypeOK
<1>4. TypeOK'
  BY <1>3 DEF Reopen, TypeOK, Knowledge
<1>5. \A s \in Stores : Settled(s)'
  BY DEF Reopen, Settled, InFlight, CacheExactFor
<1> QED BY <1>4, <1>5 DEF StoreInv, CacheExact, Settled

(***************************************************************************)
(* Every step keeps the inductive invariant.                               *)
(***************************************************************************)
LEMMA NextPreserves ==
  ASSUME StoreInv, [Next]_storeVars
  PROVE  StoreInv'
<1>1. CASE UNCHANGED storeVars
  BY <1>1 DEF storeVars, StoreInv, TypeOK, InFlight, CacheExact, CacheExactFor, LacksLast
<1>2. CASE Reopen
  BY <1>2, ReopenPreserves
<1>3. ASSUME NEW s \in Stores, StoreStep(s) PROVE StoreInv'
  <2>1. ASSUME NEW env \in Envelope, accept(s, env) PROVE StoreInv'
    BY <2>1, LandsPreserves, UndeterminedPreserves DEF accept
  <2>2. ASSUME NEW k \in Keys, NEW e \in Events, record(s, k, e) \/ detach(s, k, e)
        PROVE  StoreInv'
    BY <2>1, <2>2, EnvelopeType DEF record, detach
  <2>3. CASE Acknowledge(s)
    BY <2>3, AcknowledgePreserves
  <2>4. CASE AfterLanded(s) \/ Panics(s)
    BY <2>4, UnsettledPreserves
  <2>5. CASE resync_from_authoritative(s)
    BY <2>5, ResyncPreserves
  <2>6. ASSUME NEW env \in Envelope, ForeignWrite(s, env) PROVE StoreInv'
    BY <2>6, ForeignWritePreserves
  <2> QED BY <1>3, <2>2, <2>3, <2>4, <2>5, <2>6 DEF StoreStep
<1> QED BY <1>1, <1>2, <1>3 DEF Next

(***************************************************************************)
(* The invariant holds of every store in every behaviour.                  *)
(***************************************************************************)
THEOREM StoreInvariant == Spec => []StoreInv
<1>1. StoreInv /\ [Next]_storeVars => StoreInv'
  BY NextPreserves
<1> QED BY InitEstablishes, <1>1, PTL DEF Spec

(***************************************************************************)
(* Journals and caches hold envelopes and the knowledge one of its states, *)
(* whatever the stores, keys and payloads.                                 *)
(***************************************************************************)
THEOREM TypesHold == Spec => []TypeOK
<1>1. StoreInv => TypeOK
  BY DEF StoreInv
<1> QED BY StoreInvariant, <1>1, PTL

(***************************************************************************)
(* The cache is the journal unless one write is unsettled, and then it     *)
(* lacks at most that write.                                               *)
(***************************************************************************)
THEOREM CachesAreExact == Spec => []CacheExact
<1>1. StoreInv => CacheExact
  BY DEF StoreInv
<1> QED BY StoreInvariant, <1>1, PTL

-----------------------------------------------------------------------------
(***************************************************************************)
(* The fiber discipline of one journal, and the three things that happen   *)
(* to a journal: an envelope is appended that detaches nothing but a live  *)
(* fiber, an unsynced last envelope is lost, or it stays as it is.         *)
(***************************************************************************)
Disciplined(j) ==
  \A i \in DOMAIN j :
    j[i].detached =>
      \E n \in 1..(i - 1) :
        /\ j[n].key = j[i].key
        /\ ~j[n].detached
        /\ \A m \in (n + 1)..(i - 1) : j[m].key # j[i].key

Extends(s) ==
  \E env \in Envelope :
    /\ env.detached => is_active(journal[s], env.key)
    /\ journal'[s] = Append(journal[s], env)

LosesLast(s) == unsynced[s] /\ journal'[s] = SubSeq(journal[s], 1, Len(journal[s]) - 1)

LEMMA AppendKeepsDiscipline ==
  ASSUME NEW j \in Seq(Envelope), Disciplined(j), NEW env \in Envelope,
         env.detached => is_active(j, env.key)
  PROVE  Disciplined(Append(j, env))
<1> DEFINE N == Len(j)
           q == Append(j, env)
<1>1. /\ N \in Nat /\ DOMAIN j = 1..N /\ DOMAIN q = 1..(N + 1)
      /\ q[N + 1] = env /\ \A i \in 1..N : q[i] = j[i]
  BY AppendProperties, LenProperties
<1> HIDE DEF N, q
<1>2. SUFFICES ASSUME NEW i \in 1..(N + 1), q[i].detached
               PROVE  \E n \in 1..(i - 1) :
                        /\ q[n].key = q[i].key /\ ~q[n].detached
                        /\ \A m \in (n + 1)..(i - 1) : q[m].key # q[i].key
  BY <1>1 DEF Disciplined, q
<1>3. CASE i \in 1..N
  <2>1. PICK n \in 1..(i - 1) :
          /\ j[n].key = j[i].key /\ ~j[n].detached
          /\ \A m \in (n + 1)..(i - 1) : j[m].key # j[i].key
    BY <1>1, <1>2, <1>3 DEF Disciplined
  <2>2. n \in 1..N /\ \A m \in (n + 1)..(i - 1) : m \in 1..N
    BY <1>1, <1>3
  <2>3. /\ q[n].key = q[i].key /\ ~q[n].detached
        /\ \A m \in (n + 1)..(i - 1) : q[m].key # q[i].key
    BY <1>1, <1>3, <2>1, <2>2
  <2> QED BY <2>3
<1>4. CASE i = N + 1
  <2>1. PICK n \in 1..N : /\ j[n].key = env.key /\ ~j[n].detached
                          /\ \A m \in 1..N : m > n => j[m].key # env.key
    BY <1>1, <1>2, <1>4 DEF is_active, LastOf
  <2>2. n \in 1..(i - 1) /\ \A m \in (n + 1)..(i - 1) : m \in 1..N /\ m > n
    BY <1>1, <1>4
  <2>3. /\ q[n].key = q[i].key /\ ~q[n].detached
        /\ \A m \in (n + 1)..(i - 1) : q[m].key # q[i].key
    BY <1>1, <1>4, <2>1, <2>2
  <2> QED BY <2>2, <2>3
<1> QED BY <1>1, <1>3, <1>4

LEMMA LossKeepsDiscipline ==
  ASSUME NEW j \in Seq(Envelope), Disciplined(j)
  PROVE  Disciplined(SubSeq(j, 1, Len(j) - 1))
<1> DEFINE N == Len(j)
           q == SubSeq(j, 1, N - 1)
<1>1. N \in Nat /\ DOMAIN j = 1..N
  BY LenProperties
<1>2. DOMAIN q = 1..(N - 1) /\ \A i \in 1..(N - 1) : q[i] = j[i]
  BY <1>1
<1> HIDE DEF N, q
<1>3. SUFFICES ASSUME NEW i \in 1..(N - 1), q[i].detached
               PROVE  \E n \in 1..(i - 1) :
                        /\ q[n].key = q[i].key /\ ~q[n].detached
                        /\ \A m \in (n + 1)..(i - 1) : q[m].key # q[i].key
  <2>1. q = SubSeq(j, 1, Len(j) - 1)
    BY DEF q, N
  <2>2. Disciplined(q) => Disciplined(SubSeq(j, 1, Len(j) - 1))
    BY <2>1
  <2> QED BY <1>2, <2>2 DEF Disciplined
<1>4. PICK n \in 1..(i - 1) :
        /\ j[n].key = j[i].key /\ ~j[n].detached
        /\ \A m \in (n + 1)..(i - 1) : j[m].key # j[i].key
  BY <1>1, <1>2, <1>3 DEF Disciplined
<1>5. n \in 1..(N - 1) /\ \A m \in (n + 1)..(i - 1) : m \in 1..(N - 1)
  BY <1>1
<1> QED BY <1>2, <1>4, <1>5

(***************************************************************************)
(* What a step does to a journal.                                          *)
(***************************************************************************)
LEMMA JournalSteps ==
  ASSUME TypeOK, [Next]_storeVars, NEW s \in Stores
  PROVE  journal'[s] = journal[s] \/ Extends(s) \/ LosesLast(s)
<1> USE DEF TypeOK
<1>1. CASE UNCHANGED storeVars
  BY <1>1 DEF storeVars
<1>2. CASE Reopen
  BY <1>2 DEF Reopen, Surviving, LosesLast
<1>3. ASSUME NEW t \in Stores, NEW env \in Envelope, accept(t, env),
             env.detached => is_active(journal[t], env.key)
      PROVE  journal'[s] = journal[s] \/ Extends(s)
  <2>1. journal' = journal \/ journal' = [journal EXCEPT ![t] = Append(journal[t], env)]
    BY <1>3 DEF accept, Lands, Undetermined, Appended
  <2> QED BY <1>3, <2>1 DEF Extends
<1>4. ASSUME NEW t \in Stores, StoreStep(t)
      PROVE  journal'[s] = journal[s] \/ Extends(s)
  <2>1. ASSUME NEW k \in Keys, NEW e \in Events, record(t, k, e) \/ detach(t, k, e)
        PROVE  journal'[s] = journal[s] \/ Extends(s)
    <3>1. envelope(k, FALSE, e) \in Envelope /\ ~envelope(k, FALSE, e).detached
      BY EnvelopeType DEF envelope
    <3>2. envelope(k, TRUE, e) \in Envelope /\ envelope(k, TRUE, e).key = k
      BY EnvelopeType DEF envelope
    <3> QED BY <1>3, <2>1, <3>1, <3>2 DEF record, detach
  <2>2. CASE Acknowledge(t) \/ AfterLanded(t) \/ Panics(t) \/ resync_from_authoritative(t)
    BY <2>2 DEF Acknowledge, AfterLanded, Panics, resync_from_authoritative
  <2>3. ASSUME NEW env \in Envelope, ForeignWrite(t, env)
        PROVE  journal'[s] = journal[s] \/ Extends(s)
    BY <2>3 DEF ForeignWrite, Appended, Extends
  <2> QED BY <1>4, <2>1, <2>2, <2>3 DEF StoreStep
<1> QED BY <1>1, <1>2, <1>4 DEF Next

(***************************************************************************)
(* Every detaching envelope directly follows a live one on its fiber,      *)
(* whatever writers and crashes interleave (StoreInner::detach).           *)
(***************************************************************************)
THEOREM FibersAreDisciplined == Spec => []DetachFollowsLive
<1> DEFINE D == \A s \in Stores : Disciplined(journal[s])
<1>1. Init => D
  BY EmptySeq DEF Init, Disciplined
<1>2. TypeOK /\ D /\ [Next]_storeVars => D'
  <2> SUFFICES ASSUME TypeOK, D, [Next]_storeVars, NEW s \in Stores
               PROVE  Disciplined(journal'[s])
    BY DEF Disciplined
  <2>1. journal[s] \in Seq(Envelope) /\ Disciplined(journal[s])
    BY DEF TypeOK
  <2>2. Extends(s) => Disciplined(journal'[s])
    BY <2>1, AppendKeepsDiscipline DEF Extends
  <2>3. LosesLast(s) => Disciplined(journal'[s])
    BY <2>1, LossKeepsDiscipline DEF LosesLast
  <2>4. journal'[s] = journal[s] => Disciplined(journal'[s])
    BY <2>1
  <2> QED BY <2>2, <2>3, <2>4, JournalSteps
<1>3. D => DetachFollowsLive
  BY DEF Disciplined, DetachFollowsLive
<1> QED BY <1>1, <1>2, <1>3, TypesHold, PTL DEF Spec

-----------------------------------------------------------------------------
(***************************************************************************)
(* Embedding one sequence in another: it is reflexive and survives what is *)
(* appended to the second, or to both.                                     *)
(***************************************************************************)
LEMMA EmbedsRefl ==
  ASSUME NEW S, NEW p \in Seq(S)
  PROVE  Embeds(p, p)
<1> DEFINE f == [i \in DOMAIN p |-> i]
<1>1. /\ f \in [DOMAIN p -> DOMAIN p]
      /\ \A i \in DOMAIN p : p[i] = p[f[i]]
      /\ \A i, n \in DOMAIN p : i < n => f[i] < f[n]
  OBVIOUS
<1> QED BY <1>1 DEF Embeds

LEMMA EmbedsAppend ==
  ASSUME NEW S, NEW p \in Seq(S), NEW q \in Seq(S), NEW e \in S, Embeds(p, q)
  PROVE  Embeds(p, Append(q, e))
<1>1. PICK f \in [DOMAIN p -> DOMAIN q] :
        /\ \A i \in DOMAIN p : p[i] = q[f[i]]
        /\ \A i, n \in DOMAIN p : i < n => f[i] < f[n]
  BY DEF Embeds
<1>2. \A i \in DOMAIN q : i \in DOMAIN Append(q, e) /\ Append(q, e)[i] = q[i]
  BY AppendProperties, LenProperties
<1>3. f \in [DOMAIN p -> DOMAIN Append(q, e)] /\ \A i \in DOMAIN p : p[i] = Append(q, e)[f[i]]
  BY <1>1, <1>2
<1> QED BY <1>1, <1>3 DEF Embeds

LEMMA EmbedsAppendBoth ==
  ASSUME NEW S, NEW p \in Seq(S), NEW q \in Seq(S), NEW e \in S, Embeds(p, q)
  PROVE  Embeds(Append(p, e), Append(q, e))
<1>1. PICK f \in [DOMAIN p -> DOMAIN q] :
        /\ \A i \in DOMAIN p : p[i] = q[f[i]]
        /\ \A i, n \in DOMAIN p : i < n => f[i] < f[n]
  BY DEF Embeds
<1> DEFINE P == Append(p, e)
           Q == Append(q, e)
           g == [i \in DOMAIN P |-> IF i = Len(p) + 1 THEN Len(q) + 1 ELSE f[i]]
<1>2. /\ Len(p) \in Nat /\ DOMAIN p = 1..Len(p) /\ DOMAIN P = 1..(Len(p) + 1)
      /\ P[Len(p) + 1] = e /\ \A i \in 1..Len(p) : P[i] = p[i]
  BY AppendProperties, LenProperties
<1>3. /\ Len(q) \in Nat /\ DOMAIN q = 1..Len(q) /\ DOMAIN Q = 1..(Len(q) + 1)
      /\ Q[Len(q) + 1] = e /\ \A i \in 1..Len(q) : Q[i] = q[i]
  BY AppendProperties, LenProperties
<1> HIDE DEF P, Q
<1>4. \A i \in DOMAIN P : i = Len(p) + 1 \/ i \in DOMAIN p
  BY <1>2
<1>5. \A i \in DOMAIN p : f[i] \in DOMAIN Q /\ Q[f[i]] = p[i] /\ f[i] < Len(q) + 1
  BY <1>1, <1>3
<1>6. g \in [DOMAIN P -> DOMAIN Q]
  BY <1>3, <1>4, <1>5
<1>7. \A i \in DOMAIN P : P[i] = Q[g[i]]
  BY <1>2, <1>3, <1>4, <1>5
<1>8. \A i, n \in DOMAIN P : i < n => g[i] < g[n]
  <2> SUFFICES ASSUME NEW i \in DOMAIN P, NEW n \in DOMAIN P, i < n
               PROVE  g[i] < g[n]
    OBVIOUS
  <2>1. i \in DOMAIN p /\ i # Len(p) + 1
    BY <1>2
  <2>2. CASE n = Len(p) + 1
    BY <1>5, <2>1, <2>2
  <2>3. CASE n # Len(p) + 1
    BY <1>1, <1>4, <2>1, <2>3
  <2> QED BY <2>2, <2>3
<1> QED BY <1>6, <1>7, <1>8 DEF Embeds, P, Q

(***************************************************************************)
(* What makes NothingAcknowledgedIsLost provable: the cache embeds in the  *)
(* journal, and even in the journal without its last envelope while that   *)
(* envelope is in flight or may be lost in a crash; such a store is        *)
(* latched, so that no resync puts the doubtful envelope in the cache.     *)
(***************************************************************************)
Backed(s) ==
  /\ Embeds(cached[s], journal[s])
  /\ writing[s] # NoWrite =>
       \E j \in Seq(Envelope) : journal[s] = Append(j, writing[s]) /\ Embeds(cached[s], j)
  /\ unsynced[s] =>
       /\ knowledge[s] \in {"Landed", "Poisoned"}
       /\ \E j \in Seq(Envelope), e \in Envelope :
            journal[s] = Append(j, e) /\ Embeds(cached[s], j)

AllBacked == \A s \in Stores : Backed(s)

LEMMA BackedUntouched ==
  ASSUME NEW t, Backed(t),
         journal'[t] = journal[t], cached'[t] = cached[t], knowledge'[t] = knowledge[t],
         writing'[t] = writing[t], unsynced'[t] = unsynced[t]
  PROVE  Backed(t)'
BY DEF Backed

(***************************************************************************)
(* A step of a store changes that store only.                              *)
(***************************************************************************)
LEMMA OtherStores ==
  ASSUME TypeOK, NEW s \in Stores, StoreStep(s), NEW t \in Stores, t # s
  PROVE  /\ journal'[t] = journal[t] /\ cached'[t] = cached[t]
         /\ knowledge'[t] = knowledge[t] /\ writing'[t] = writing[t]
         /\ unsynced'[t] = unsynced[t]
<1>1. CASE \E k \in Keys, e \in Events : record(s, k, e) \/ detach(s, k, e)
  BY <1>1 DEF record, detach, accept, Lands, Undetermined, Appended, TypeOK
<1>2. CASE Acknowledge(s) \/ AfterLanded(s) \/ Panics(s) \/ resync_from_authoritative(s)
  BY <1>2 DEF Acknowledge, AfterLanded, Panics, resync_from_authoritative, TypeOK
<1>3. CASE \E env \in Envelope : ForeignWrite(s, env)
  BY <1>3 DEF ForeignWrite, Appended, TypeOK
<1> QED BY <1>1, <1>2, <1>3 DEF StoreStep

(***************************************************************************)
(* One store step keeps the store backed and its cache embedded.           *)
(***************************************************************************)
LEMMA StoreStepKeepsBacked ==
  ASSUME StoreInv, AllBacked, NEW s \in Stores, StoreStep(s)
  PROVE  Backed(s)' /\ Embeds(cached[s], cached'[s])
<1>1. /\ TypeOK /\ Backed(s) /\ journal[s] \in Seq(Envelope) /\ cached[s] \in Seq(Envelope)
      /\ Embeds(cached[s], cached[s])
  BY EmbedsRefl DEF StoreInv, TypeOK, AllBacked
<1>2. ASSUME NEW env \in Envelope, accept(s, env)
      PROVE  Backed(s)' /\ Embeds(cached[s], cached'[s])
  <2>1. writing[s] = NoWrite /\ knowledge[s] = "Ready" /\ ~unsynced[s] /\ cached' = cached
    BY <1>1, <1>2 DEF accept, Lands, Undetermined, lock_knowledge, Backed
  <2>2. Embeds(cached[s], Append(journal[s], env))
    BY <1>1, EmbedsAppend DEF Backed
  <2>3. CASE Lands(s, env)
    <3>1. /\ journal'[s] = Append(journal[s], env) /\ knowledge'[s] = "Landed"
          /\ writing'[s] = env /\ cached'[s] = cached[s]
      BY <1>1, <2>3 DEF Lands, Appended, TypeOK
    <3> QED BY <1>1, <2>2, <3>1 DEF Backed
  <2>4. CASE Undetermined(s, env)
    <3>1. /\ journal'[s] = Append(journal[s], env) \/ journal'[s] = journal[s]
          /\ writing'[s] = NoWrite /\ cached'[s] = cached[s] /\ ~unsynced'[s]
      BY <1>1, <2>1, <2>4 DEF Undetermined, Appended, TypeOK
    <3> QED BY <1>1, <2>2, <3>1 DEF Backed
  <2> QED BY <1>2, <2>3, <2>4 DEF accept
<1>3. CASE Acknowledge(s)
  <2>1. /\ writing[s] # NoWrite /\ writing[s] \in Envelope
        /\ cached'[s] = Append(cached[s], writing[s]) /\ journal'[s] = journal[s]
        /\ writing'[s] = NoWrite /\ ~unsynced'[s]
    BY <1>1, <1>3 DEF Acknowledge, TypeOK
  <2>2. PICK j \in Seq(Envelope) : journal[s] = Append(j, writing[s]) /\ Embeds(cached[s], j)
    BY <1>1, <2>1 DEF Backed
  <2>3. Embeds(cached'[s], journal'[s])
    BY <1>1, <2>1, <2>2, EmbedsAppendBoth
  <2>4. Embeds(cached[s], cached'[s])
    BY <1>1, <2>1, EmbedsAppend
  <2> QED BY <2>1, <2>3, <2>4 DEF Backed
<1>4. CASE AfterLanded(s) \/ Panics(s)
  <2>1. /\ writing[s] # NoWrite /\ writing[s] \in Envelope /\ knowledge[s] = "Landed"
        /\ cached'[s] = cached[s] /\ journal'[s] = journal[s] /\ writing'[s] = NoWrite
        /\ knowledge'[s] \in {"Landed", "Poisoned"}
    BY <1>1, <1>4 DEF AfterLanded, Panics, TypeOK, StoreInv, InFlight
  <2> QED BY <1>1, <2>1 DEF Backed
<1>5. CASE resync_from_authoritative(s)
  <2>1. /\ writing[s] = NoWrite /\ ~unsynced[s]
        /\ cached'[s] = journal[s] /\ journal'[s] = journal[s]
        /\ writing'[s] = NoWrite /\ ~unsynced'[s]
    BY <1>1, <1>5 DEF resync_from_authoritative, lock_knowledge, TypeOK, Backed
  <2>2. Embeds(journal[s], journal[s])
    BY <1>1, EmbedsRefl
  <2> QED BY <1>1, <2>1, <2>2 DEF Backed
<1>6. ASSUME NEW env \in Envelope, ForeignWrite(s, env)
      PROVE  Backed(s)' /\ Embeds(cached[s], cached'[s])
  <2>1. /\ journal'[s] = Append(journal[s], env) /\ cached'[s] = cached[s]
        /\ writing'[s] = NoWrite /\ ~unsynced'[s]
    BY <1>1, <1>6 DEF ForeignWrite, Appended, TypeOK
  <2>2. Embeds(cached[s], Append(journal[s], env))
    BY <1>1, EmbedsAppend DEF Backed
  <2> QED BY <1>1, <2>1, <2>2 DEF Backed
<1>7. ASSUME NEW k \in Keys, NEW e \in Events, record(s, k, e) \/ detach(s, k, e)
      PROVE  Backed(s)' /\ Embeds(cached[s], cached'[s])
  BY <1>2, <1>7, EnvelopeType DEF record, detach
<1> QED BY <1>3, <1>4, <1>5, <1>6, <1>7 DEF StoreStep

LEMMA ReopenKeepsBacked ==
  ASSUME StoreInv, AllBacked, Reopen, NEW s \in Stores
  PROVE  Backed(s)' /\ Embeds(cached[s], cached'[s])
<1>1. PICK lost \in SUBSET {t \in Stores : unsynced[t]} : journal' = Surviving(lost)
  BY DEF Reopen
<1>2. /\ cached'[s] = journal'[s] /\ writing'[s] = NoWrite /\ ~unsynced'[s]
  BY DEF Reopen
<1>3. Backed(s) /\ journal[s] \in Seq(Envelope)
  BY DEF AllBacked, StoreInv, TypeOK
<1>4. journal'[s] \in Seq(Envelope) /\ Embeds(cached[s], journal'[s])
  <2>1. CASE s \notin lost
    BY <1>1, <1>3, <2>1 DEF Surviving, Backed
  <2>2. CASE s \in lost
    <3>1. PICK j \in Seq(Envelope), e \in Envelope :
            journal[s] = Append(j, e) /\ Embeds(cached[s], j)
      BY <1>1, <1>3, <2>2 DEF Backed
    <3>2. Len(j) \in Nat /\ Len(journal[s]) = Len(j) + 1 /\ j = SubSeq(journal[s], 1, Len(j))
      BY <3>1, AppendLacksLast, LenProperties
    <3>3. Len(journal[s]) - 1 = Len(j)
      BY <3>2
    <3>4. journal'[s] = j
      BY <1>1, <2>2, <3>2, <3>3 DEF Surviving
    <3> QED BY <3>1, <3>4
  <2> QED BY <2>1, <2>2
<1>5. Embeds(journal'[s], journal'[s])
  BY <1>4, EmbedsRefl
<1> QED BY <1>2, <1>4, <1>5 DEF Backed

LEMMA BackedStep ==
  ASSUME StoreInv, AllBacked, [Next]_storeVars
  PROVE  AllBacked' /\ \A s \in Stores : Embeds(cached[s], cached'[s])
<1>1. \A t \in Stores : Embeds(cached[t], cached[t])
  BY EmbedsRefl DEF StoreInv, TypeOK
<1>2. CASE UNCHANGED storeVars
  BY <1>1, <1>2, BackedUntouched DEF storeVars, AllBacked
<1>3. CASE Reopen
  BY <1>3, ReopenKeepsBacked DEF AllBacked
<1>4. ASSUME NEW s \in Stores, StoreStep(s), NEW t \in Stores
      PROVE  Backed(t)' /\ Embeds(cached[t], cached'[t])
  <2>1. CASE t = s
    BY <1>4, <2>1, StoreStepKeepsBacked
  <2>2. CASE t # s
    BY <1>1, <1>4, <2>2, OtherStores, BackedUntouched DEF AllBacked, StoreInv
  <2> QED BY <2>1, <2>2
<1> QED BY <1>2, <1>3, <1>4 DEF Next, AllBacked

LEMMA BackedInvariant == Spec => []AllBacked
<1>1. Init => AllBacked
  <2> SUFFICES ASSUME Init, NEW s \in Stores PROVE Backed(s)
    BY DEF AllBacked
  <2>1. Embeds(<<>>, <<>>)
    <3>1. <<>> \in Seq(Envelope)
      BY EmptySeq
    <3> QED BY <3>1, EmbedsRefl
  <2> QED BY <2>1 DEF Init, Backed
<1>2. StoreInv /\ AllBacked /\ [Next]_storeVars => AllBacked'
  BY BackedStep
<1> QED BY <1>1, <1>2, StoreInvariant, PTL DEF Spec

(***************************************************************************)
(* What was acknowledged stays in the cache, in its order, through failed  *)
(* writes, resyncs, foreign writers and crashes (session.sync() precedes   *)
(* the push in StoreInner::record).                                        *)
(***************************************************************************)
THEOREM AcknowledgedIsKept == Spec => NothingAcknowledgedIsLost
<1>1. StoreInv /\ AllBacked /\ [Next]_storeVars
        => [\A s \in Stores : Embeds(cached[s], cached'[s])]_storeVars
  BY BackedStep
<1> QED BY <1>1, BackedInvariant, StoreInvariant, PTL DEF Spec, NothingAcknowledgedIsLost
=============================================================================
