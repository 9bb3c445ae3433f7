-------------------------- MODULE AppStateProofs --------------------------
(***************************************************************************)
(* Proofs about the durable write path for every number of repositories,   *)
(* teams and captures: under it each store behaves as EventStore says, so  *)
(* that what is proved of the stores carries over; an open admission means *)
(* that no store holds a write in doubt; the resident projection is what a *)
(* restart would rebuild, is never both live and gone, and is never        *)
(* downgraded; and the dedicated journals follow the primary one.          *)
(***************************************************************************)
EXTENDS AppState, EventStoreProofs, ProjectionProofs

OpType ==
  /\ op \in Op \cup {NoOp}
  /\ resyncing \in {"none", "events", "orgs", "teams"}
  /\ admission \in {"open", "stopped"}

(***************************************************************************)
(* A running write is the only holder of a store lock, and holds only the  *)
(* lock of the store it is at.                                             *)
(***************************************************************************)
OneWriter ==
  \A s \in Stores : writing[s] # NoWrite => (op # NoOp /\ op.at = s /\ writing[s] = op.env)

(***************************************************************************)
(* The inductive strengthening of OpenMeansSettled: only the running write *)
(* holds a store, and a store can be other than Ready under an open        *)
(* admission only while that write is in flight.                           *)
(***************************************************************************)
DoubtIsHeld ==
  /\ OneWriter
  /\ admission = "open" =>
       \A s \in Stores : knowledge[s] = "Ready" \/ writing[s] # NoWrite

AppInv == OpType /\ TypeOK /\ DoubtIsHeld

(***************************************************************************)
(* The events the six operations write are events of the stores.           *)
(***************************************************************************)
LEMMA OpEvents ==
  /\ RepoCaptures \subseteq Events /\ OrgCaptures \subseteq Events
  /\ TeamCaptures \subseteq Events /\ LiveRosters \subseteq Events
  /\ RepoTombstone \in Events /\ RepoDeleted \in Events
BY KeysAssumption DEF DomainEvents, LiveRosters

(***************************************************************************)
(* An admitted write is well formed and leaves the stores alone.           *)
(***************************************************************************)
Admits ==
  record_repo \/ remove_repo \/ mark_repo_deleted \/ record_org \/ record_team \/ detach_team

LEMMA AdmitsType ==
  ASSUME Admits
  PROVE  /\ op = NoOp /\ admission = "open"
         /\ op' \in Op
         /\ UNCHANGED <<storeVars, admission, resyncing, projection, foreign>>
<1>1. ASSUME NEW k \in Keys, NEW d \in BOOLEAN, NEW e \in Events, admitted_write(k, d, e)
      PROVE  /\ op = NoOp /\ admission = "open"
             /\ op' \in Op
             /\ UNCHANGED <<storeVars, admission, resyncing, projection, foreign>>
  <2>1. envelope(k, d, e) \in Envelope
    BY EnvelopeType
  <2>2. "events" \in Stores
    BY StoresAssumption
  <2> QED BY <1>1, <2>1, <2>2 DEF admitted_write, Op
<1>2. RepoKeys \subseteq Keys /\ TeamKeys \subseteq Keys /\ OrgKeys \subseteq Keys
  BY KeysAssumption
<1>3. CASE record_repo \/ remove_repo \/ mark_repo_deleted
  BY <1>1, <1>2, <1>3, OpEvents DEF record_repo, remove_repo, mark_repo_deleted
<1>4. CASE record_org \/ record_team \/ detach_team
  BY <1>1, <1>2, <1>4, OpEvents DEF record_org, record_team, detach_team
<1> QED BY <1>3, <1>4 DEF Admits

(***************************************************************************)
(* Each store call of a write is a step of that store.                     *)
(***************************************************************************)
LEMMA WriteIsStoreStep ==
  ASSUME OpType, op # NoOp, WriteLands \/ WriteUndetermined
  PROVE  \E s \in Stores : StoreStep(s)
<1>1. op \in Op /\ op.at \in Stores /\ op.env \in Envelope
  BY DEF OpType, Op
<1>2. /\ op.env.key \in Keys /\ op.env.detached \in BOOLEAN /\ op.env.event \in Events
      /\ op.env = envelope(op.env.key, op.env.detached, op.env.event)
  BY <1>1 DEF Envelope, envelope
<1>3. accept(op.at, op.env)
  BY DEF WriteLands, WriteUndetermined, accept
<1>4. CASE op.env.detached
  <2>1. is_active(journal[op.at], op.env.key)
    BY <1>4 DEF WriteLands, WriteUndetermined, DetachIsVoid
  <2>2. op.env = envelope(op.env.key, TRUE, op.env.event)
    BY <1>2, <1>4
  <2>3. detach(op.at, op.env.key, op.env.event)
    BY <1>3, <2>1, <2>2 DEF detach
  <2> QED BY <1>1, <1>2, <2>3 DEF StoreStep
<1>5. CASE ~op.env.detached
  <2>1. op.env = envelope(op.env.key, FALSE, op.env.event)
    BY <1>2, <1>5
  <2>2. record(op.at, op.env.key, op.env.event)
    BY <1>3, <2>1 DEF record
  <2> QED BY <1>1, <1>2, <2>2 DEF StoreStep
<1> QED BY <1>4, <1>5

(***************************************************************************)
(* Every step of the write path is a step of the stores or leaves them.    *)
(***************************************************************************)
LEMMA StepImplements ==
  ASSUME OpType, [AppNext]_vars
  PROVE  [Next]_storeVars
<1>1. CASE UNCHANGED vars
  BY <1>1 DEF vars
<1>2. CASE Admits
  BY <1>2, AdmitsType
<1>3. CASE WriteLands \/ WriteUndetermined
  <2>1. op # NoOp
    BY <1>3 DEF WriteLands, WriteUndetermined
  <2> QED BY <1>3, <2>1, WriteIsStoreStep DEF Next
<1>4. CASE WriteAcknowledged \/ WriteAfterLanded \/ WritePanics
  <2>1. op # NoOp
    BY <1>4 DEF WriteAcknowledged, WriteAfterLanded, WritePanics
  <2>2. op.at \in Stores
    BY <2>1 DEF OpType, Op
  <2>3. Acknowledge(op.at) \/ AfterLanded(op.at) \/ Panics(op.at) \/ UNCHANGED storeVars
    BY <1>4 DEF WriteAcknowledged, WriteAfterLanded, WritePanics
  <2> QED BY <2>2, <2>3 DEF Next, StoreStep
<1>5. CASE DetachNothing \/ WriteRefused \/ ResyncStarts \/ ResyncFails
  BY <1>5 DEF DetachNothing, WriteRefused, ResyncStarts, ResyncFails
<1>6. CASE ResyncStore
  BY <1>6, StoresAssumption DEF ResyncStore, OpType, Next, StoreStep
<1>7. CASE OtherProcessWrites
  <2>1. PICK s \in Stores, env \in Writable : ForeignWrite(s, env)
    BY <1>7 DEF OtherProcessWrites
  <2>2. env \in Envelope
    BY DEF Writable
  <2> QED BY <2>1, <2>2 DEF Next, StoreStep
<1>8. CASE Restart
  BY <1>8 DEF Restart, Next
<1> QED BY <1>1, <1>2, <1>3, <1>4, <1>5, <1>6, <1>7, <1>8 DEF AppNext, Admits

(***************************************************************************)
(* The store an operation ends with is one of the three.                   *)
(***************************************************************************)
LEMMA OpTypePreserved ==
  ASSUME OpType, [AppNext]_vars
  PROVE  OpType'
<1>1. \A env : LastStore(env) \in Stores
  BY StoresAssumption DEF LastStore
<1>2. ASSUME op # NoOp, NEW landed \in BOOLEAN, Succeeded(landed)
      PROVE  op' \in Op \cup {NoOp}
  <2>1. op \in Op
    BY <1>2 DEF OpType
  <2>2. CASE op.at = LastStore(op.env)
    BY <1>2, <2>2 DEF Succeeded
  <2>3. CASE op.at # LastStore(op.env)
    <3>1. op' = [op EXCEPT !.at = LastStore(op.env), !.primary_landed = landed]
      BY <1>2, <2>3 DEF Succeeded
    <3> QED BY <1>1, <1>2, <2>1, <3>1 DEF Op
  <2> QED BY <2>2, <2>3
<1>3. CASE UNCHANGED vars
  BY <1>3 DEF vars, OpType
<1>4. CASE Admits
  BY <1>4, AdmitsType DEF OpType
<1>5. CASE WriteLands
  BY <1>5 DEF WriteLands, OpType
<1>6. CASE WriteUndetermined \/ WriteRefused \/ WriteAfterLanded \/ WritePanics
  <2>1. op' = NoOp /\ (admission' = "stopped" \/ admission' = admission)
        /\ resyncing' = resyncing
    BY <1>6 DEF WriteUndetermined, WriteRefused, WriteAfterLanded, WritePanics, Failed
  <2> QED BY <2>1 DEF OpType
<1>7. CASE DetachNothing \/ WriteAcknowledged
  BY <1>2, <1>7 DEF DetachNothing, WriteAcknowledged, OpType
<1>8. CASE ResyncStarts \/ ResyncStore \/ ResyncFails
  BY <1>8 DEF ResyncStarts, ResyncStore, ResyncFails, NextStore, OpType
<1>9. CASE OtherProcessWrites
  BY <1>9 DEF OtherProcessWrites, OpType
<1>10. CASE Restart
  BY <1>10 DEF Restart, OpType
<1> QED BY <1>3, <1>4, <1>5, <1>6, <1>7, <1>8, <1>9, <1>10 DEF AppNext, Admits

(***************************************************************************)
(* The write path implements the stores: every behaviour of AppState is a  *)
(* behaviour of EventStore, so what is proved of the stores alone holds    *)
(* under the composed, failing, crashing write path.                       *)
(***************************************************************************)
THEOREM WritePathImplementsStores == AppSpec => StoreSpec
<1>1. AppInit => OpType
  BY DEF AppInit, OpType
<1>2. OpType /\ [AppNext]_vars => OpType'
  BY OpTypePreserved
<1>3. AppInit => Init
  BY DEF AppInit
<1>4. OpType /\ [AppNext]_vars => [Next]_storeVars
  BY StepImplements
<1> QED BY <1>1, <1>2, <1>3, <1>4, PTL DEF AppSpec, StoreSpec, Spec

(***************************************************************************)
(* Every step keeps the strengthening of OpenMeansSettled.                 *)
(***************************************************************************)
LEMMA DoubtIsHeldPreserved ==
  ASSUME AppInv, [AppNext]_vars
  PROVE  DoubtIsHeld'
<1> USE DEF AppInv
<1>1. knowledge \in [Stores -> Knowledge] /\ writing \in [Stores -> Envelope \cup {NoWrite}]
  BY DEF TypeOK
<1>2. op # NoOp => op.at \in Stores /\ op.env \in Envelope /\ op.env # NoWrite
  BY NoWriteAssumption DEF OpType, Op
<1>3. CASE UNCHANGED vars
  BY <1>3 DEF vars, storeVars, DoubtIsHeld, OneWriter
<1>4. CASE Admits
  BY <1>4, AdmitsType DEF storeVars, DoubtIsHeld, OneWriter
<1>5. CASE WriteLands
  <2>1. /\ op # NoOp /\ op' = op /\ admission' = admission
        /\ knowledge' = [knowledge EXCEPT ![op.at] = "Landed"]
        /\ writing' = [writing EXCEPT ![op.at] = op.env]
    BY <1>5 DEF WriteLands, Lands
  <2> QED BY <1>1, <1>2, <2>1 DEF DoubtIsHeld, OneWriter
<1>6. CASE WriteUndetermined
  <2>1. /\ op # NoOp /\ admission' = "stopped" /\ writing' = writing
        /\ writing[op.at] = NoWrite
    BY <1>6 DEF WriteUndetermined, Undetermined, Failed, lock_knowledge
  <2> QED BY <1>2, <2>1 DEF DoubtIsHeld, OneWriter
<1>7. CASE WriteAfterLanded \/ WritePanics
  <2>1. /\ op # NoOp /\ admission' = "stopped"
        /\ \/ writing' = [writing EXCEPT ![op.at] = NoWrite]
           \/ writing' = writing /\ writing[op.at] = NoWrite
    BY <1>7 DEF WriteAfterLanded, WritePanics, AfterLanded, Panics, Failed, storeVars
  <2> QED BY <1>1, <1>2, <2>1 DEF DoubtIsHeld, OneWriter
<1>8. CASE WriteAcknowledged
  <2>1. /\ op # NoOp /\ admission' = admission
        /\ knowledge' = [knowledge EXCEPT ![op.at] = "Ready"]
        /\ writing' = [writing EXCEPT ![op.at] = NoWrite]
    BY <1>8 DEF WriteAcknowledged, Acknowledge
  <2> QED BY <1>1, <1>2, <2>1 DEF DoubtIsHeld, OneWriter
<1>9. CASE DetachNothing \/ WriteRefused
  <2>1. /\ op # NoOp /\ writing[op.at] = NoWrite
        /\ knowledge' = knowledge /\ writing' = writing
        /\ admission' = admission \/ admission' = "stopped"
    BY <1>9 DEF DetachNothing, WriteRefused, Failed, lock_knowledge, storeVars
  <2> QED BY <1>2, <2>1 DEF DoubtIsHeld, OneWriter
<1>10. CASE ResyncStarts \/ ResyncStore \/ ResyncFails \/ OtherProcessWrites
  <2>1. /\ op' = op /\ admission' = admission
        /\ knowledge' = knowledge /\ writing' = writing
    BY <1>10 DEF ResyncStarts, ResyncStore, ResyncFails, OtherProcessWrites,
                 resync_from_authoritative, ForeignWrite, storeVars
  <2> QED BY <2>1 DEF DoubtIsHeld, OneWriter
<1>11. CASE Restart
  <2>1. \A s \in Stores : knowledge'[s] = "Ready" /\ writing'[s] = NoWrite
    BY <1>11 DEF Restart, Reopen
  <2> QED BY <2>1 DEF DoubtIsHeld, OneWriter
<1> QED BY <1>3, <1>4, <1>5, <1>6, <1>7, <1>8, <1>9, <1>10, <1>11 DEF AppNext, Admits

(***************************************************************************)
(* An open admission means that no store holds a write in doubt, for every *)
(* set of repositories, teams and captures (admitted_write).               *)
(***************************************************************************)
THEOREM OpenIsSettled == AppSpec => []OpenMeansSettled
<1>1. AppInit => OpType /\ DoubtIsHeld
  BY DEF AppInit, Init, OpType, DoubtIsHeld, OneWriter
<1>2. OpType /\ [AppNext]_vars => OpType'
  BY OpTypePreserved
<1>3. OpType /\ TypeOK /\ DoubtIsHeld /\ [AppNext]_vars => DoubtIsHeld'
  BY DoubtIsHeldPreserved DEF AppInv
<1>4. AppSpec => []TypeOK
  BY WritePathImplementsStores, TypesHold, PTL DEF StoreSpec
<1>5. DoubtIsHeld => OpenMeansSettled
  BY DEF DoubtIsHeld, OneWriter, OpenMeansSettled
<1> QED BY <1>1, <1>2, <1>3, <1>4, <1>5, PTL DEF AppSpec

(***************************************************************************)
(* The caches stay exact under the whole write path.                       *)
(***************************************************************************)
THEOREM CachesAreExactUnderWrites == AppSpec => []CacheExact
BY WritePathImplementsStores, CachesAreExact, PTL DEF StoreSpec

(***************************************************************************)
(* And so do the fiber discipline and what was acknowledged.               *)
(***************************************************************************)
THEOREM FibersAreDisciplinedUnderWrites == AppSpec => []DetachFollowsLive
BY WritePathImplementsStores, FibersAreDisciplined, PTL DEF StoreSpec

(***************************************************************************)
(* What a store acknowledged stays in its cache under the whole write      *)
(* path, through every failed write, resync, foreign write and restart.    *)
(***************************************************************************)
THEOREM AcknowledgedIsKeptUnderWrites == AppSpec => NothingAcknowledgedIsLost
BY WritePathImplementsStores, AcknowledgedIsKept, PTL DEF StoreSpec

-----------------------------------------------------------------------------
(***************************************************************************)
(* Which envelopes a store can hold, and where the running write can be.   *)
(* Only a detach can leave the primary store without having landed there.  *)
(***************************************************************************)
KindOf(s) == IF s = "events" THEN Writes ELSE IF s = "orgs" THEN OrgWrites ELSE TeamWrites

OpKind ==
  op # NoOp =>
    /\ op.env \in Writes
    /\ op.at \in {"events", LastStore(op.env)}
    /\ op.primary_landed \in BOOLEAN
    /\ (op.at # "events" /\ ~op.primary_landed) => op.env.detached

JournalKinds == \A s \in Stores : journal[s] \in Seq(KindOf(s))

Kinds == OpKind /\ JournalKinds

LEMMA WritesKind ==
  ASSUME NEW w \in Writes, NEW s, s = "events" \/ s = LastStore(w)
  PROVE  w \in KindOf(s)
<1>1. CASE w \in RepoWrites
  <2>1. w.key \in RepoKeys
    BY <1>1 DEF RepoWrites
  <2>2. LastStore(w) = "events"
    BY <2>1, KeysAssumption DEF LastStore
  <2> QED BY <2>2 DEF KindOf
<1>2. CASE w \in OrgWrites
  <2>1. w.key \in OrgKeys
    BY <1>2 DEF OrgWrites
  <2>2. LastStore(w) = "orgs"
    BY <2>1, KeysAssumption DEF LastStore
  <2> QED BY <1>2, <2>2 DEF KindOf
<1>3. CASE w \in TeamWrites
  <2>1. w.key \in TeamKeys
    BY <1>3 DEF TeamWrites
  <2>2. LastStore(w) = "teams"
    BY <2>1 DEF LastStore
  <2> QED BY <1>3, <2>2 DEF KindOf
<1> QED BY <1>1, <1>2, <1>3 DEF Writes

LEMMA WritableWrites == Writable \subseteq Writes
<1> SUFFICES ASSUME NEW w \in Writable PROVE w \in Writes
  OBVIOUS
<1>1. w \in [key : Keys, detached : BOOLEAN, event : Events]
  BY DEF Writable, Envelope
<1>2. CASE w.key \in RepoKeys
  <2>1. IF w.detached THEN w.event = RepoTombstone
                      ELSE w.event \in RepoCaptures \cup {RepoDeleted}
    BY <1>2, KeysAssumption DEF Writable
  <2>2. w \in [key : RepoKeys, detached : BOOLEAN, event : DomainEvents]
    BY <1>1, <1>2, KeysAssumption
  <2> QED BY <2>1, <2>2 DEF RepoWrites, Writes
<1>3. CASE w.key \in OrgKeys
  <2>1. ~w.detached /\ w.event \in OrgCaptures
    BY <1>3, KeysAssumption DEF Writable
  <2> QED BY <1>1, <1>3, <2>1 DEF OrgWrites, Writes
<1>4. CASE w.key \in TeamKeys
  <2>1. w.event \in TeamCaptures
    BY <1>4, KeysAssumption DEF Writable, LiveRosters
  <2> QED BY <1>1, <1>4, <2>1 DEF TeamWrites, Writes
<1> QED BY <1>1, <1>2, <1>3, <1>4, KeysAssumption

(***************************************************************************)
(* The six operations admit such envelopes, and go to the primary first.   *)
(***************************************************************************)
LEMMA AdmitsKind ==
  ASSUME Admits
  PROVE  /\ op'.env \in Writable /\ op'.at = "events" /\ op'.primary_landed = FALSE
<1>1. ASSUME NEW k \in Keys, NEW d \in BOOLEAN, NEW e \in Events,
             admitted_write(k, d, e), envelope(k, d, e) \in Writable
      PROVE  /\ op'.env \in Writable /\ op'.at = "events" /\ op'.primary_landed = FALSE
  BY <1>1 DEF admitted_write
<1>2. RepoKeys \subseteq Keys /\ TeamKeys \subseteq Keys /\ OrgKeys \subseteq Keys
  BY KeysAssumption
<1>3. \A k \in RepoKeys : /\ \A e \in RepoCaptures : envelope(k, FALSE, e) \in Writable
                          /\ envelope(k, TRUE, RepoTombstone) \in Writable
                          /\ envelope(k, FALSE, RepoDeleted) \in Writable
  BY <1>2, OpEvents DEF Writable, Envelope, envelope
<1>4. /\ \A k \in OrgKeys, e \in OrgCaptures : envelope(k, FALSE, e) \in Writable
      /\ \A k \in TeamKeys, e \in LiveRosters : envelope(k, FALSE, e) \in Writable
      /\ \A k \in TeamKeys, e \in TeamCaptures : envelope(k, TRUE, e) \in Writable
  BY <1>2, OpEvents DEF Writable, Envelope, envelope
<1>5. CASE record_repo
  <2>1. PICK k \in RepoKeys, e \in RepoCaptures : admitted_write(k, FALSE, e)
    BY <1>5 DEF record_repo
  <2> QED BY <1>1, <1>2, <1>3, <1>4, <2>1, OpEvents
<1>6. CASE remove_repo
  <2>1. PICK k \in RepoKeys : admitted_write(k, TRUE, RepoTombstone)
    BY <1>6 DEF remove_repo
  <2> QED BY <1>1, <1>2, <1>3, <1>4, <2>1, OpEvents
<1>7. CASE mark_repo_deleted
  <2>1. PICK k \in RepoKeys : admitted_write(k, FALSE, RepoDeleted)
    BY <1>7 DEF mark_repo_deleted
  <2> QED BY <1>1, <1>2, <1>3, <1>4, <2>1, OpEvents
<1>8. CASE record_org
  <2>1. PICK k \in OrgKeys, e \in OrgCaptures : admitted_write(k, FALSE, e)
    BY <1>8 DEF record_org
  <2> QED BY <1>1, <1>2, <1>3, <1>4, <2>1, OpEvents
<1>9. CASE record_team
  <2>1. PICK k \in TeamKeys, e \in LiveRosters : admitted_write(k, FALSE, e)
    BY <1>9 DEF record_team
  <2> QED BY <1>1, <1>2, <1>3, <1>4, <2>1, OpEvents
<1>10. CASE detach_team
  <2>1. PICK k \in TeamKeys, e \in TeamCaptures : admitted_write(k, TRUE, e)
    BY <1>10 DEF detach_team
  <2> QED BY <1>1, <1>2, <1>3, <1>4, <2>1, OpEvents
<1> QED BY <1>5, <1>6, <1>7, <1>8, <1>9, <1>10 DEF Admits

(***************************************************************************)
(* What a step of the write path does to a journal: nothing, or it appends *)
(* the running write where that write is, or another process appends, or a *)
(* restart loses an unsynced last envelope.                                *)
(***************************************************************************)
Writing(s) ==
  /\ op # NoOp /\ op.at = s
  /\ op.env.detached => is_active(journal[s], op.env.key)
  /\ journal'[s] = Append(journal[s], op.env)

OtherWrites(s) ==
  /\ foreign' = "now"
  /\ \E env \in Writable :
       /\ s = "events" \/ s = LastStore(env)
       /\ journal'[s] = Append(journal[s], env)

LEMMA AppJournalSteps ==
  ASSUME OpType, TypeOK, [AppNext]_vars, NEW s \in Stores
  PROVE  \/ journal'[s] = journal[s]
         \/ Writing(s)
         \/ OtherWrites(s)
         \/ Restart /\ LosesLast(s)
<1>0. journal \in [Stores -> Seq(Envelope)]
  BY DEF TypeOK
<1>1. CASE UNCHANGED vars
  BY <1>1 DEF vars, storeVars
<1>2. CASE Admits
  BY <1>2, AdmitsType DEF storeVars
<1>3. CASE WriteLands \/ WriteUndetermined
  <2>1. op # NoOp /\ (op.env.detached => is_active(journal[op.at], op.env.key))
    BY <1>3 DEF WriteLands, WriteUndetermined, DetachIsVoid
  <2>2. \/ journal' = [journal EXCEPT ![op.at] = Append(journal[op.at], op.env)]
        \/ journal' = journal
    BY <1>3 DEF WriteLands, WriteUndetermined, Lands, Undetermined, Appended
  <2> QED BY <1>0, <2>1, <2>2 DEF Writing
<1>4. CASE \/ WriteAcknowledged \/ WriteAfterLanded \/ WritePanics \/ DetachNothing
           \/ WriteRefused \/ ResyncStarts \/ ResyncFails \/ ResyncStore
  <2>1. journal' = journal
    BY <1>4 DEF WriteAcknowledged, WriteAfterLanded, WritePanics, DetachNothing, WriteRefused,
                ResyncStarts, ResyncFails, ResyncStore, Acknowledge, AfterLanded, Panics,
                resync_from_authoritative, storeVars
  <2> QED BY <2>1
<1>5. CASE OtherProcessWrites
  <2>1. PICK t \in Stores, env \in Writable :
          (t = "events" \/ t = LastStore(env)) /\ ForeignWrite(t, env)
    BY <1>5 DEF OtherProcessWrites
  <2>2. journal' = [journal EXCEPT ![t] = Append(journal[t], env)]
    BY <2>1 DEF ForeignWrite, Appended
  <2>3. foreign' = "now"
    BY <1>5 DEF OtherProcessWrites
  <2> QED BY <1>0, <2>1, <2>2, <2>3 DEF OtherWrites
<1>6. CASE Restart
  BY <1>6 DEF Restart, Reopen, Surviving, LosesLast
<1> QED BY <1>1, <1>2, <1>3, <1>4, <1>5, <1>6 DEF AppNext, Admits

LEMMA KindsPreserved ==
  ASSUME OpType, TypeOK, Kinds, [AppNext]_vars
  PROVE  Kinds'
<1>1. ASSUME NEW s \in Stores
      PROVE  journal'[s] \in Seq(KindOf(s))
  <2>1. journal[s] \in Seq(KindOf(s))
    BY DEF Kinds, JournalKinds
  <2>2. CASE Writing(s)
    <3>1. op.env \in KindOf(s)
      BY <2>2, WritesKind DEF Writing, Kinds, OpKind
    <3> QED BY <2>1, <2>2, <3>1, AppendProperties DEF Writing
  <2>3. CASE OtherWrites(s)
    <3>1. PICK env \in Writable : /\ s = "events" \/ s = LastStore(env)
                                  /\ journal'[s] = Append(journal[s], env)
      BY <2>3 DEF OtherWrites
    <3>2. env \in KindOf(s)
      BY <3>1, WritableWrites, WritesKind
    <3> QED BY <2>1, <3>1, <3>2, AppendProperties
  <2>4. CASE LosesLast(s)
    BY <2>1, <2>4, DropLast DEF LosesLast
  <2> QED BY <2>1, <2>2, <2>3, <2>4, AppJournalSteps
<1>2. OpKind'
  <2>1. ASSUME op # NoOp, NEW landed \in BOOLEAN, Succeeded(landed), landed \/ op.env.detached
        PROVE  OpKind'
    <3>1. op \in Op
      BY <2>1 DEF OpType
    <3>2. op' = NoOp \/ op' = [op EXCEPT !.at = LastStore(op.env), !.primary_landed = landed]
      BY <2>1 DEF Succeeded
    <3>3. op' # NoOp => /\ op'.env = op.env /\ op'.at = LastStore(op.env)
                        /\ op'.primary_landed = landed
      BY <3>1, <3>2 DEF Op
    <3> QED BY <2>1, <3>3 DEF Kinds, OpKind, LastStore
  <2>2. CASE Admits
    BY <2>2, AdmitsKind, WritableWrites DEF OpKind
  <2>3. CASE WriteUndetermined \/ WriteRefused \/ WriteAfterLanded \/ WritePanics \/ Restart
    BY <2>3 DEF WriteUndetermined, WriteRefused, WriteAfterLanded, WritePanics, Restart,
                Failed, OpKind
  <2>4. CASE DetachNothing \/ WriteAcknowledged
    BY <2>1, <2>4 DEF DetachNothing, DetachIsVoid, WriteAcknowledged
  <2>5. CASE \/ WriteLands \/ ResyncStarts \/ ResyncStore \/ ResyncFails
             \/ OtherProcessWrites \/ UNCHANGED vars
    <3>1. op' = op
      BY <2>5 DEF WriteLands, ResyncStarts, ResyncStore, ResyncFails, OtherProcessWrites, vars
    <3> QED BY <3>1 DEF Kinds, OpKind, LastStore
  <2> QED BY <2>2, <2>3, <2>4, <2>5 DEF AppNext, Admits
<1> QED BY <1>1, <1>2 DEF Kinds, JournalKinds, KindOf

-----------------------------------------------------------------------------
(***************************************************************************)
(* The running write folds its event: the last store call succeeded.       *)
(***************************************************************************)
Folds == (DetachNothing \/ WriteAcknowledged) /\ op.at = LastStore(op.env)

(***************************************************************************)
(* What a step does to the projection: nothing, or it folds the running    *)
(* write, or a restart rebuilds it from the journals.                      *)
(***************************************************************************)
LEMMA ProjectionSteps ==
  ASSUME [AppNext]_vars
  PROVE  \/ projection' = projection
         \/ Folds /\ op # NoOp /\ projection' = apply(projection, op.env)
         \/ Restart /\ projection' = Replayed'
<1>1. CASE UNCHANGED vars
  BY <1>1 DEF vars
<1>2. CASE Admits
  BY <1>2, AdmitsType
<1>3. CASE WriteUndetermined \/ WriteRefused \/ WriteAfterLanded \/ WritePanics
  BY <1>3 DEF WriteUndetermined, WriteRefused, WriteAfterLanded, WritePanics, Failed
<1>4. CASE WriteLands \/ ResyncStarts \/ ResyncStore \/ ResyncFails \/ OtherProcessWrites
  BY <1>4 DEF WriteLands, ResyncStarts, ResyncStore, ResyncFails, OtherProcessWrites
<1>5. CASE DetachNothing \/ WriteAcknowledged
  BY <1>5 DEF DetachNothing, WriteAcknowledged, Succeeded, Folds
<1>6. CASE Restart
  BY <1>6 DEF Restart, Reopen, Replayed
<1> QED BY <1>1, <1>2, <1>3, <1>4, <1>5, <1>6 DEF AppNext, Admits

Resident == projection \in Projection /\ Apart(projection)

LEMMA ResidentPreserved ==
  ASSUME Kinds, Kinds', Resident, [AppNext]_vars
  PROVE  Resident'
<1>1. CASE projection' = projection
  BY <1>1 DEF Resident, Apart
<1>2. CASE op # NoOp /\ projection' = apply(projection, op.env)
  <2>1. op.env \in Writes
    BY <1>2 DEF Kinds, OpKind
  <2>2. apply(projection, op.env) \in Projection /\ Apart(apply(projection, op.env))
    BY <2>1, AppliesType, AppliesApart DEF Resident
  <2> QED BY <1>2, <2>2 DEF Resident
<1>3. CASE projection' = Replayed'
  <2>1. /\ journal'["events"] \in Seq(Writes) /\ journal'["orgs"] \in Seq(OrgWrites)
        /\ journal'["teams"] \in Seq(TeamWrites)
    BY StoresAssumption DEF Kinds, JournalKinds, KindOf
  <2>2. Replayed' \in Projection /\ Apart(Replayed')
    BY <2>1, RebuiltApart DEF Replayed
  <2> QED BY <1>3, <2>2 DEF Resident
<1> QED BY <1>1, <1>2, <1>3, ProjectionSteps

LEMMA ForeignSteps ==
  ASSUME [AppNext]_vars
  PROVE  \/ foreign' = foreign
         \/ OtherProcessWrites /\ foreign' = "now"
         \/ Restart /\ foreign' \in {"never", "before"}
<1>1. CASE UNCHANGED vars
  BY <1>1 DEF vars
<1>2. CASE Admits
  BY <1>2, AdmitsType
<1>3. CASE \/ WriteLands \/ WriteUndetermined \/ DetachNothing \/ WriteRefused
           \/ WriteAcknowledged \/ WriteAfterLanded \/ WritePanics
           \/ ResyncStarts \/ ResyncStore \/ ResyncFails
  BY <1>3 DEF WriteLands, WriteUndetermined, DetachNothing, WriteRefused, WriteAcknowledged,
              WriteAfterLanded, WritePanics, ResyncStarts, ResyncStore, ResyncFails
<1>4. CASE OtherProcessWrites \/ Restart
  BY <1>4 DEF OtherProcessWrites, Restart
<1> QED BY <1>1, <1>2, <1>3, <1>4 DEF AppNext, Admits

(***************************************************************************)
(* A write runs only while the admission is open.                          *)
(***************************************************************************)
Admitted == op # NoOp => admission = "open"

LEMMA AdmittedPreserved ==
  ASSUME Admitted, [AppNext]_vars
  PROVE  Admitted'
<1>1. CASE Admits
  BY <1>1, AdmitsType DEF Admitted
<1>2. CASE WriteUndetermined \/ WriteRefused \/ WriteAfterLanded \/ WritePanics \/ Restart
  BY <1>2 DEF WriteUndetermined, WriteRefused, WriteAfterLanded, WritePanics, Restart,
              Failed, Admitted
<1>3. CASE DetachNothing \/ WriteAcknowledged
  BY <1>3 DEF DetachNothing, WriteAcknowledged, Admitted
<1>4. CASE \/ WriteLands \/ ResyncStarts \/ ResyncStore \/ ResyncFails
           \/ OtherProcessWrites \/ UNCHANGED vars
  BY <1>4 DEF WriteLands, ResyncStarts, ResyncStore, ResyncFails, OtherProcessWrites, vars,
              Admitted
<1> QED BY <1>1, <1>2, <1>3, <1>4 DEF AppNext, Admits

(***************************************************************************)
(* The invariant the theorems below rest on.                               *)
(***************************************************************************)
WriteInv == AppInv /\ AllBacked /\ Kinds /\ Resident /\ Admitted

LEMMA WriteInvInit == AppInit => Kinds /\ Resident /\ Admitted
<1> SUFFICES ASSUME AppInit PROVE Kinds /\ Resident /\ Admitted
  OBVIOUS
<1>1. Kinds
  <2>1. \A s \in Stores : journal[s] = <<>>
    BY DEF AppInit, Init
  <2>2. \A s \in Stores : <<>> \in Seq(KindOf(s))
    BY EmptySeq
  <2> QED BY <2>1, <2>2 DEF AppInit, Kinds, OpKind, JournalKinds
<1>2. Resident
  BY EmptyType DEF AppInit, Resident, EmptyProjection, Apart
<1>3. Admitted
  BY DEF AppInit, Admitted
<1> QED BY <1>1, <1>2, <1>3

LEMMA WriteInvariant == AppSpec => []WriteInv
<1>1. AppInit => OpType /\ DoubtIsHeld
  BY DEF AppInit, Init, OpType, DoubtIsHeld, OneWriter
<1>2. OpType /\ [AppNext]_vars => OpType'
  BY OpTypePreserved
<1>3. OpType /\ TypeOK /\ DoubtIsHeld /\ [AppNext]_vars => DoubtIsHeld'
  BY DoubtIsHeldPreserved DEF AppInv
<1>4. AppSpec => []TypeOK
  BY WritePathImplementsStores, TypesHold, PTL DEF StoreSpec
<1>5. OpType /\ TypeOK /\ Kinds /\ [AppNext]_vars => Kinds'
  BY KindsPreserved
<1>6. Kinds /\ Kinds' /\ Resident /\ [AppNext]_vars => Resident'
  BY ResidentPreserved
<1>7. Admitted /\ [AppNext]_vars => Admitted'
  BY AdmittedPreserved
<1>8. AppSpec => []AllBacked
  BY WritePathImplementsStores, BackedInvariant, PTL DEF StoreSpec
<1> QED BY <1>1, <1>2, <1>3, <1>4, <1>5, <1>6, <1>7, <1>8, WriteInvInit, PTL
        DEF AppSpec, WriteInv, AppInv

(***************************************************************************)
(* While the admission is open, a store that no write is in is settled.    *)
(***************************************************************************)
LEMMA IdleIsSettled ==
  ASSUME WriteInv, admission = "open", NEW s \in Stores, writing[s] = NoWrite
  PROVE  knowledge[s] = "Ready" /\ ~unsynced[s]
<1>1. knowledge[s] = "Ready"
  BY DEF WriteInv, AppInv, DoubtIsHeld
<1> QED BY <1>1 DEF WriteInv, AllBacked, Backed

(***************************************************************************)
(* The whole write path is well typed: the resident projection holds       *)
(* evidence where evidence belongs after any sequence of writes, failures, *)
(* resyncs and rebuilds from the journals (AppState, Projection::apply).   *)
(***************************************************************************)
THEOREM WritePathTypes == AppSpec => []AppTypeOK
<1> DEFINE F == foreign \in {"never", "before", "now"}
<1>1. AppInit => F
  BY DEF AppInit
<1>2. F /\ [AppNext]_vars => F'
  BY ForeignSteps
<1>3. WriteInv /\ F => AppTypeOK
  BY DEF WriteInv, AppInv, OpType, Resident, AppTypeOK
<1> QED BY <1>1, <1>2, <1>3, WriteInvariant, PTL DEF AppSpec

(***************************************************************************)
(* Nothing is live and gone at once, in the resident projection and in     *)
(* what a restart rebuilds from any journals (Projection::apply).          *)
(***************************************************************************)
THEOREM NothingIsLiveAndGone == AppSpec => []LiveOrGone
<1>1. WriteInv => LiveOrGone
  BY DEF WriteInv, Resident, Apart, LiveOrGone
<1> QED BY <1>1, WriteInvariant, PTL

-----------------------------------------------------------------------------
(***************************************************************************)
(* A fiber after one more envelope.                                        *)
(***************************************************************************)
LEMMA ActiveAppend ==
  ASSUME NEW j \in Seq(Envelope), NEW w \in Envelope, NEW k
  PROVE  is_active(Append(j, w), k) <=> IF w.key = k THEN ~w.detached ELSE is_active(j, k)
<1> DEFINE N == Len(j)
           q == Append(j, w)
<1>1. /\ N \in Nat /\ DOMAIN j = 1..N /\ DOMAIN q = 1..(N + 1)
      /\ q[N + 1] = w /\ \A i \in 1..N : q[i] = j[i]
  BY AppendProperties, LenProperties
<1> HIDE DEF N, q
<1>2. CASE w.key = k
  <2>1. \A i : LastOf(q, k, i) <=> i = N + 1
    <3>1. \A i \in 1..N : N + 1 \in DOMAIN q /\ N + 1 > i
      BY <1>1
    <3>2. \A n \in DOMAIN q : ~(n > N + 1)
      BY <1>1
    <3> QED BY <1>1, <1>2, <3>1, <3>2 DEF LastOf
  <2>2. is_active(q, k) <=> ~w.detached
    BY <1>1, <2>1 DEF is_active
  <2> QED BY <1>2, <2>2 DEF q
<1>3. CASE w.key # k
  <2>1. \A i : LastOf(q, k, i) <=> LastOf(j, k, i)
    BY <1>1, <1>3 DEF LastOf
  <2>2. is_active(q, k) <=> is_active(j, k)
    BY <1>1, <2>1 DEF is_active, LastOf
  <2> QED BY <1>3, <2>2 DEF q
<1> QED BY <1>2, <1>3

LEMMA WritesAreEnvelopes == Writes \subseteq Envelope
<1>1. DomainEvents = Events /\ OrgCaptures \subseteq Events /\ TeamCaptures \subseteq Events
  BY OpEvents, KeysAssumption
<1>2. RepoKeys \subseteq Keys /\ OrgKeys \subseteq Keys /\ TeamKeys \subseteq Keys
  BY KeysAssumption
<1>3. RepoWrites \subseteq Envelope
  BY <1>1, <1>2 DEF RepoWrites, Envelope
<1>4. OrgWrites \subseteq Envelope
  BY <1>1, <1>2 DEF OrgWrites, Envelope
<1>5. TeamWrites \subseteq Envelope
  BY <1>1, <1>2 DEF TeamWrites, Envelope
<1> QED BY <1>3, <1>4, <1>5 DEF Writes

(***************************************************************************)
(* A repository whose fiber is not active has no entry in the replay of    *)
(* the journal: that is why a void detach may be folded all the same.      *)
(***************************************************************************)
LEMMA InactiveIsAbsent ==
  ASSUME NEW E \in Seq(Writes), NEW k \in RepoKeys, ~is_active(E, k)
  PROVE  replay(FALSE, EmptyProjection, E).repositories[k] = Absent
<1> DEFINE x(j) == replay(FALSE, EmptyProjection, j)
           G == {j \in Seq(Writes) : is_active(j, k) \/ x(j).repositories[k] = Absent}
<1>1. <<>> \in G
  <2>1. x(<<>>) = EmptyProjection
    BY ReplayEmpty
  <2>2. EmptyProjection.repositories[k] = Absent
    BY DEF EmptyProjection
  <2> QED BY <2>1, <2>2, EmptySeq
<1>2. ASSUME NEW j \in Seq(Writes), NEW w \in Writes, j \in G
      PROVE  Append(j, w) \in G
  <2>1. /\ Append(j, w) \in Seq(Writes) /\ w \in Envelope /\ j \in Seq(Envelope)
    BY AppendProperties, WritesAreEnvelopes
  <2>2. is_active(Append(j, w), k) <=> IF w.key = k THEN ~w.detached ELSE is_active(j, k)
    BY <2>1, ActiveAppend
  <2>3. x(Append(j, w)) = apply(x(j), w)
    BY ReplayAppend DEF folds
  <2>4. x(j) \in Projection
    BY EmptyType, ReplayType
  <2>5. is_active(j, k) \/ x(j).repositories[k] = Absent
    BY <1>2
  <2> HIDE DEF x
  <2>6. x(j).repositories \in [RepoKeys -> RepoCaptures \cup {Absent}]
    BY <2>4 DEF Projection
  <2>7. CASE w.key = k /\ w.detached
    <3>1. w \in RepoWrites
      BY <2>7, KeysAssumption DEF Writes, OrgWrites, TeamWrites
    <3>2. apply(x(j), w).repositories = [x(j).repositories EXCEPT ![k] = Absent]
      BY <2>4, <2>7, <3>1, RepoApplies
    <3>3. apply(x(j), w).repositories[k] = Absent
      BY <2>6, <3>2
    <3> QED BY <2>1, <2>3, <3>3 DEF x
  <2>8. CASE w.key = k /\ ~w.detached
    BY <2>1, <2>2, <2>8
  <2>9. CASE w.key # k
    <3>1. apply(x(j), w).repositories[k] = x(j).repositories[k]
      <4>1. CASE w \in RepoWrites
        <5>1. \/ apply(x(j), w).repositories = [x(j).repositories EXCEPT ![w.key] = Absent]
              \/ apply(x(j), w).repositories = [x(j).repositories EXCEPT ![w.key] = w.event]
              \/ apply(x(j), w) = x(j)
          BY <2>4, <4>1, RepoApplies
        <5> QED BY <2>6, <2>9, <5>1
      <4>2. CASE w \in OrgWrites
        BY <2>4, <4>2, OrgApplies
      <4>3. CASE w \in TeamWrites
        BY <2>4, <4>3, TeamApplies
      <4> QED BY <4>1, <4>2, <4>3 DEF Writes
    <3>2. is_active(Append(j, w), k) \/ apply(x(j), w).repositories[k] = Absent
      BY <2>2, <2>5, <2>9, <3>1
    <3> QED BY <2>1, <2>3, <3>2 DEF x
  <2> QED BY <2>7, <2>8, <2>9
<1> HIDE DEF G
<1>3. Seq(Writes) \subseteq G
  BY <1>1, <1>2, SeqInduction
<1> QED BY <1>3 DEF G

(***************************************************************************)
(* The strengthening of ProjectionSurvivesRestart and of NoDowngrade.      *)
(* Leave out of the journals what the running or the last failed write put *)
(* there: from the rest, a restart would rebuild the resident              *)
(* repositories, deletions and organisation, and every complete roster as  *)
(* a complete one.                                                         *)
(***************************************************************************)
Landed(s) ==
  op # NoOp /\ IF op.at = s THEN writing[s] # NoWrite ELSE s = "events" /\ op.primary_landed

Held(j, s) ==
  /\ admission = "open" => journal[s] = IF Landed(s) THEN Append(j, op.env) ELSE j
  /\ (journal[s] = j /\ ~unsynced[s]) \/ \E w \in KindOf(s) : journal[s] = Append(j, w)

Mirrors(p, q) ==
  /\ Same(p, q)
  /\ \A k \in TeamKeys : RosterComplete(p.team_rosters[k]) => RosterComplete(q.team_rosters[k])

Kept ==
  foreign # "now" =>
    \E E \in Seq(Writes), O \in Seq(OrgWrites), T \in Seq(TeamWrites) :
      /\ Held(E, "events") /\ Held(O, "orgs") /\ Held(T, "teams")
      /\ Mirrors(projection, projection_from_stores(E, O, T))

LEMMA LastStores ==
  ASSUME NEW w \in Writes
  PROVE  /\ w \in RepoWrites => LastStore(w) = "events"
         /\ w \in OrgWrites => LastStore(w) = "orgs"
         /\ w \in TeamWrites => LastStore(w) = "teams"
BY KeysAssumption DEF LastStore, RepoWrites, OrgWrites, TeamWrites

(***************************************************************************)
(* Every other step of a process that writes alone, until it dies, leaves  *)
(* the projection alone and the journals as they were before the write.    *)
(***************************************************************************)
LEMMA OpFacts ==
  ASSUME WriteInv
  PROVE  /\ journal \in [Stores -> Seq(Envelope)] /\ unsynced \in [Stores -> BOOLEAN]
         /\ writing \in [Stores -> Envelope \cup {NoWrite}]
         /\ "events" \in Stores /\ "orgs" \in Stores /\ "teams" \in Stores
         /\ journal["events"] \in Seq(Writes) /\ journal["orgs"] \in Seq(OrgWrites)
         /\ journal["teams"] \in Seq(TeamWrites)
         /\ op # NoOp => /\ op \in Op /\ op.at \in Stores /\ op.env \in Writes
                         /\ op.env \in Envelope /\ op.env # NoWrite
                         /\ op.at \in {"events", LastStore(op.env)}
                         /\ op.env \in KindOf(op.at) /\ admission = "open"
         /\ OneWriter
<1>1. /\ journal \in [Stores -> Seq(Envelope)] /\ unsynced \in [Stores -> BOOLEAN]
      /\ writing \in [Stores -> Envelope \cup {NoWrite}]
      /\ "events" \in Stores /\ "orgs" \in Stores /\ "teams" \in Stores /\ OneWriter
  BY StoresAssumption DEF WriteInv, AppInv, TypeOK, DoubtIsHeld
<1>2. /\ journal["events"] \in Seq(Writes) /\ journal["orgs"] \in Seq(OrgWrites)
      /\ journal["teams"] \in Seq(TeamWrites)
  BY <1>1 DEF WriteInv, Kinds, JournalKinds, KindOf
<1>3. op # NoOp => /\ op \in Op /\ op.at \in Stores /\ op.env \in Writes
                   /\ op.env \in Envelope /\ op.env # NoWrite
                   /\ op.at \in {"events", LastStore(op.env)} /\ admission = "open"
  BY NoWriteAssumption DEF WriteInv, AppInv, OpType, Op, Kinds, OpKind, Admitted
<1>4. op # NoOp => op.env \in KindOf(op.at)
  BY <1>3, WritesKind
<1> QED BY <1>1, <1>2, <1>3, <1>4

LEMMA HeldPreserved ==
  ASSUME WriteInv, [AppNext]_vars, foreign' # "now", ~Restart, ~Folds,
         NEW s \in Stores, NEW j \in Seq(KindOf(s)), Held(j, s)
  PROVE  Held(j, s)'
<1>0. /\ journal \in [Stores -> Seq(Envelope)] /\ unsynced \in [Stores -> BOOLEAN]
      /\ writing \in [Stores -> Envelope \cup {NoWrite}]
      /\ op # NoOp => /\ op \in Op /\ op.at \in Stores /\ op.env # NoWrite
                      /\ op.at \in {"events", LastStore(op.env)}
                      /\ op.env \in KindOf(op.at) /\ admission = "open"
      /\ OneWriter
  BY OpFacts
<1>1. CASE UNCHANGED vars \/ ResyncStarts \/ ResyncStore \/ ResyncFails
  <2>1. /\ op' = op /\ journal' = journal /\ writing' = writing /\ unsynced' = unsynced
        /\ admission' = admission
    BY <1>1 DEF vars, storeVars, ResyncStarts, ResyncStore, ResyncFails,
                resync_from_authoritative
  <2> QED BY <2>1 DEF Held, Landed
<1>2. CASE OtherProcessWrites
  BY <1>2 DEF OtherProcessWrites
<1>3. CASE Admits
  <2>1. /\ op = NoOp /\ admission' = admission /\ journal' = journal /\ writing' = writing
        /\ unsynced' = unsynced /\ op'.at = "events"
    BY <1>3, AdmitsType, AdmitsKind DEF storeVars
  <2>2. ~Landed(s) /\ ~Landed(s)'
    BY <1>0, <2>1 DEF Landed, OneWriter
  <2> QED BY <2>1, <2>2 DEF Held
<1>4. CASE WriteRefused
  <2>1. /\ op # NoOp /\ op' = NoOp /\ writing[op.at] = NoWrite
        /\ journal' = journal /\ unsynced' = unsynced
        /\ admission' = "open" => admission = "open" /\ ~op.primary_landed
    BY <1>4 DEF WriteRefused, Failed, storeVars
  <2>2. ~Landed(s)' /\ (admission' = "open" => ~Landed(s))
    BY <2>1 DEF Landed
  <2> QED BY <2>1, <2>2 DEF Held
<1>5. CASE WriteUndetermined
  <2>1. /\ op # NoOp /\ writing[op.at] = NoWrite /\ admission' = "stopped"
        /\ unsynced' = unsynced
        /\ \/ journal' = [journal EXCEPT ![op.at] = Append(journal[op.at], op.env)]
           \/ journal' = journal
    BY <1>5 DEF WriteUndetermined, Undetermined, Appended, lock_knowledge, Failed
  <2>2. CASE s = op.at
    <3>1. journal[s] = j /\ ~unsynced[s]
      BY <1>0, <2>1, <2>2, IdleIsSettled DEF Held, Landed
    <3>2. journal'[s] = j \/ journal'[s] = Append(j, op.env)
      BY <1>0, <2>1, <2>2, <3>1
    <3> QED BY <1>0, <2>1, <2>2, <3>1, <3>2 DEF Held
  <2>3. CASE s # op.at
    BY <1>0, <2>1, <2>3 DEF Held
  <2> QED BY <2>2, <2>3
<1>6. CASE WriteAfterLanded \/ WritePanics
  <2>1. /\ op # NoOp /\ journal' = journal /\ admission' = "stopped"
        /\ \/ unsynced' = unsynced
           \/ /\ writing[op.at] # NoWrite
              /\ \E u \in BOOLEAN : unsynced' = [unsynced EXCEPT ![op.at] = u]
    BY <1>6 DEF WriteAfterLanded, WritePanics, AfterLanded, Panics, Failed, storeVars
  <2>2. CASE unsynced'[s] = unsynced[s]
    BY <2>1, <2>2 DEF Held
  <2>3. CASE s = op.at /\ writing[op.at] # NoWrite
    <3>1. journal[s] = Append(j, op.env)
      BY <1>0, <2>1, <2>3 DEF Held, Landed
    <3> QED BY <1>0, <2>1, <2>3, <3>1 DEF Held
  <2> QED BY <1>0, <2>1, <2>2, <2>3
<1>7. CASE WriteLands
  <2>1. /\ op # NoOp /\ op' = op /\ writing[op.at] = NoWrite /\ admission' = admission
        /\ journal' = [journal EXCEPT ![op.at] = Append(journal[op.at], op.env)]
        /\ writing' = [writing EXCEPT ![op.at] = op.env]
        /\ unsynced' = [unsynced EXCEPT ![op.at] = TRUE]
    BY <1>7 DEF WriteLands, Lands, Appended, lock_knowledge
  <2>2. CASE s = op.at
    <3>1. journal[s] = j /\ Landed(s)'
      BY <1>0, <2>1, <2>2 DEF Held, Landed
    <3>2. journal'[s] = Append(j, op'.env)
      BY <1>0, <2>1, <2>2, <3>1
    <3> QED BY <1>0, <2>1, <2>2, <3>1, <3>2 DEF Held
  <2>3. CASE s # op.at
    <3>1. /\ journal'[s] = journal[s] /\ writing'[s] = writing[s] /\ unsynced'[s] = unsynced[s]
      BY <1>0, <2>1, <2>3
    <3> QED BY <2>1, <2>3, <3>1 DEF Held, Landed
  <2> QED BY <2>2, <2>3
<1>8. CASE DetachNothing \/ WriteAcknowledged
  <2> DEFINE landed == writing[op.at] # NoWrite
  <2>1. /\ op # NoOp /\ admission' = admission /\ journal' = journal
        /\ unsynced'[s] => unsynced[s]
        /\ s # op.at => writing'[s] = writing[s]
        /\ Succeeded(landed)
    <3>1. CASE DetachNothing
      <4>1. ~landed
        BY <3>1 DEF DetachNothing, lock_knowledge
      <4>2. Succeeded(FALSE) <=> Succeeded(landed)
        BY <4>1 DEF Succeeded
      <4> QED BY <3>1, <4>2 DEF DetachNothing, storeVars
    <3>2. CASE WriteAcknowledged
      <4>1. landed
        BY <3>2 DEF WriteAcknowledged, Acknowledge
      <4>2. Succeeded(TRUE) <=> Succeeded(landed)
        BY <4>1 DEF Succeeded
      <4> QED BY <1>0, <3>2, <4>2 DEF WriteAcknowledged, Acknowledge
    <3> QED BY <1>8, <3>1, <3>2
  <2>2. op.at # LastStore(op.env) /\ op.at = "events"
    BY <1>0, <1>8, <2>1 DEF Folds
  <2>3. op' = [op EXCEPT !.at = LastStore(op.env), !.primary_landed = landed]
    BY <2>1, <2>2 DEF Succeeded
  <2>4. /\ op'.env = op.env /\ op'.at = LastStore(op.env) /\ op' # NoOp
        /\ op'.primary_landed <=> landed
    <3>1. LastStore(op.env) \in Stores
      BY StoresAssumption DEF LastStore
    <3>2. op' \in Op
      BY <1>0, <2>1, <2>3, <3>1 DEF Op
    <3> QED BY <1>0, <2>1, <2>3, <3>2, NoOpAssumption DEF Op
  <2>5. Landed(s)' <=> Landed(s)
    <3>1. CASE s = "events"
      BY <2>1, <2>2, <2>4, <3>1 DEF Landed
    <3>2. CASE s # "events"
      BY <1>0, <2>1, <2>2, <2>4, <3>2 DEF Landed, OneWriter
    <3> QED BY <3>1, <3>2
  <2> QED BY <2>1, <2>4, <2>5 DEF Held
<1> QED BY <1>1, <1>2, <1>3, <1>4, <1>5, <1>6, <1>7, <1>8 DEF AppNext, Admits

(***************************************************************************)
(* The fold: the projection catches up with the journals.                  *)
(***************************************************************************)
LEMMA FoldIsSame ==
  ASSUME NEW E \in Seq(Writes), NEW O \in Seq(OrgWrites), NEW T \in Seq(TeamWrites),
         NEW U \in Seq(TeamWrites), NEW w \in Writes, NEW p \in Projection,
         Same(p, projection_from_stores(E, O, T)), NEW e, NEW o,
         e = Append(E, w) \/ (e = E /\ w.detached /\ (w \in RepoWrites => ~is_active(E, w.key))),
         IF w \in OrgWrites THEN e = Append(E, w) /\ o = Append(O, w) ELSE o = O
  PROVE  Same(apply(p, w), projection_from_stores(e, o, U))
<1>1. Same(p, projection_from_stores(E, O, U))
  BY TeamJournalIsAside
<1>2. CASE w \in OrgWrites
  BY <1>1, <1>2, OrgAppended
<1>3. CASE w \in TeamWrites /\ w \notin OrgWrites
  <2>1. Same(apply(p, w), p)
    BY <1>3, TeamApplies DEF Same, SameRepos
  <2>2. Same(p, projection_from_stores(e, o, U))
    BY <1>1, <1>3, TeamAppended
  <2> QED BY <2>1, <2>2 DEF Same, SameRepos
<1>4. CASE w \in RepoWrites /\ w \notin OrgWrites /\ e = Append(E, w)
  BY <1>1, <1>4, RepoAppended
<1>5. CASE w \in RepoWrites /\ w \notin OrgWrites /\ e # Append(E, w)
  <2> DEFINE P == projection_from_stores(E, O, U)
  <2>1. e = E /\ o = O /\ w.detached /\ ~is_active(E, w.key) /\ w.key \in RepoKeys
    BY <1>5 DEF RepoWrites
  <2>2. replay(FALSE, EmptyProjection, E).repositories[w.key] = Absent
    BY <2>1, InactiveIsAbsent
  <2>3. P.repositories = replay(FALSE, EmptyProjection, E).repositories
    BY FromStores DEF SameRepos
  <2>4. p.repositories[w.key] = Absent
    BY <1>1, <2>2, <2>3 DEF Same, SameRepos
  <2>5. /\ apply(p, w).repositories = [p.repositories EXCEPT ![w.key] = Absent]
        /\ apply(p, w).deleted = p.deleted /\ apply(p, w).org_state = p.org_state
    BY <1>5, <2>1, RepoApplies
  <2>6. p.repositories \in [RepoKeys -> RepoCaptures \cup {Absent}]
    BY DEF Projection
  <2>7. apply(p, w).repositories = p.repositories
    BY <2>4, <2>5, <2>6
  <2> QED BY <1>1, <2>1, <2>5, <2>7 DEF Same, SameRepos
<1> QED BY <1>2, <1>3, <1>4, <1>5 DEF Writes

TeamLanded(w, E, e, T, t) ==
  /\ e = Append(E, w) \/ e = E
  /\ t = T \/ (w \in TeamWrites /\ t = Append(T, w))
  /\ (w \in TeamWrites /\ ~w.detached) => e = Append(E, w) /\ t = Append(T, w)

LEMMA FoldKeepsRosters ==
  ASSUME NEW E \in Seq(Writes), NEW O \in Seq(OrgWrites), NEW T \in Seq(TeamWrites),
         NEW w \in Writes, NEW p \in Projection, NEW k \in TeamKeys,
         RosterComplete(p.team_rosters[k]) =>
           RosterComplete(projection_from_stores(E, O, T).team_rosters[k]),
         NEW e, NEW o \in Seq(OrgWrites), NEW t \in Seq(TeamWrites),
         TeamLanded(w, E, e, T, t),
         RosterComplete(apply(p, w).team_rosters[k])
  PROVE  RosterComplete(projection_from_stores(e, o, t).team_rosters[k])
<1> DEFINE x == replay(FALSE, EmptyProjection, E)
           z == replay(FALSE, EmptyProjection, e)
<1>0. /\ e = Append(E, w) \/ e = E
      /\ t = T \/ (w \in TeamWrites /\ t = Append(T, w))
      /\ (w \in TeamWrites /\ ~w.detached) => e = Append(E, w) /\ t = Append(T, w)
  BY DEF TeamLanded
<1>1. e \in Seq(Writes)
  <2>1. Append(E, w) \in Seq(Writes)
    BY AppendProperties
  <2> QED BY <1>0, <2>1
<1>2. x \in Projection /\ z \in Projection
  BY <1>1, EmptyType, ReplayType
<1>3. z = x \/ (e = Append(E, w) /\ z = apply(x, w))
  BY <1>0, ReplayAppend DEF folds
<1>4. LiveComplete(T, k) => LiveComplete(t, k)
  BY <1>0, LiveCompleteAppend
<1>5. RosterComplete(projection_from_stores(E, O, T).team_rosters[k]) <=>
        (RosterComplete(x.team_rosters[k]) \/ LiveComplete(T, k))
  BY RebuiltRosters
<1>6. RosterComplete(projection_from_stores(e, o, t).team_rosters[k]) <=>
        (RosterComplete(z.team_rosters[k]) \/ LiveComplete(t, k))
  BY <1>1, RebuiltRosters
<1> HIDE DEF x, z
<1>7. ~RosterComplete(Absent)
  BY DEF RosterComplete
<1>8. CASE ~(w \in TeamWrites /\ w.key = k)
  <2>1. apply(p, w).team_rosters[k] = p.team_rosters[k]
    BY <1>8, RostersApply
  <2>2. z.team_rosters[k] = x.team_rosters[k]
    BY <1>2, <1>3, <1>8, RostersApply
  <2> QED BY <1>4, <1>5, <1>6, <2>1, <2>2
<1>9. CASE w \in TeamWrites /\ w.key = k /\ w.detached
  BY <1>7, <1>9, RostersApply
<1>10. CASE w \in TeamWrites /\ w.key = k /\ ~w.detached
  <2>1. RosterComplete(p.team_rosters[k]) \/ w.event.status = "Complete"
    BY <1>10, RostersApply
  <2>2. /\ RosterComplete(apply(x, w).team_rosters[k]) <=>
             (RosterComplete(x.team_rosters[k]) \/ w.event.status = "Complete")
    BY <1>2, <1>10, RostersApply
  <2>3. z = apply(x, w)
    BY <1>0, <1>10, ReplayAppend DEF folds, x, z
  <2> QED BY <1>4, <1>5, <1>6, <2>1, <2>2, <2>3
<1> QED BY <1>8, <1>9, <1>10

LEMMA FoldMirrors ==
  ASSUME WriteInv, Folds, op # NoOp,
         NEW E \in Seq(Writes), NEW O \in Seq(OrgWrites), NEW T \in Seq(TeamWrites),
         Held(E, "events"), Held(O, "orgs"), Held(T, "teams"),
         Mirrors(projection, projection_from_stores(E, O, T))
  PROVE  Mirrors(apply(projection, op.env), Replayed)
<1> DEFINE w == op.env
           e == journal["events"]
           o == journal["orgs"]
           t == journal["teams"]
<1>1. /\ w \in Writes /\ projection \in Projection /\ admission = "open"
      /\ e \in Seq(Writes) /\ o \in Seq(OrgWrites) /\ t \in Seq(TeamWrites)
      /\ op.at = LastStore(w)
      /\ (op.at # "events" /\ ~op.primary_landed) => w.detached
  BY OpFacts DEF WriteInv, Resident, Kinds, OpKind, Folds
<1>2. writing[op.at] = NoWrite => w.detached /\ ~is_active(journal[op.at], w.key)
  BY DEF Folds, DetachNothing, DetachIsVoid, WriteAcknowledged, Acknowledge
<1>3. /\ e = IF Landed("events") THEN Append(E, w) ELSE E
      /\ o = IF Landed("orgs") THEN Append(O, w) ELSE O
      /\ t = IF Landed("teams") THEN Append(T, w) ELSE T
  BY <1>1 DEF Held
<1>4. /\ w \in RepoWrites => op.at = "events"
      /\ w \in OrgWrites => op.at = "orgs" /\ ~w.detached
      /\ w \in TeamWrites => op.at = "teams"
  BY <1>1, LastStores DEF OrgWrites
<1>5. /\ Landed("events") \/ (w.detached /\ (w \in RepoWrites => ~is_active(E, w.key)))
      /\ Landed("orgs") <=> w \in OrgWrites
      /\ Landed("teams") => w \in TeamWrites
      /\ (w \in TeamWrites /\ ~w.detached) => Landed("events") /\ Landed("teams")
  <2>1. Landed("events") \/ (w.detached /\ (w \in RepoWrites => ~is_active(E, w.key)))
    BY <1>1, <1>2, <1>3, <1>4 DEF Landed
  <2>2. CASE w \in RepoWrites
    BY <1>4, <2>1, <2>2 DEF Landed
  <2>3. CASE w \in OrgWrites
    BY <1>2, <1>4, <2>1, <2>3 DEF Landed
  <2>4. CASE w \in TeamWrites
    BY <1>1, <1>2, <1>4, <2>1, <2>4 DEF Landed
  <2> QED BY <1>1, <2>1, <2>2, <2>3, <2>4 DEF Writes
<1>6. Same(projection, projection_from_stores(E, O, T))
  BY DEF Mirrors
<1>7. Same(apply(projection, w), projection_from_stores(e, o, t))
  <2>1. e = Append(E, w) \/ (e = E /\ w.detached /\ (w \in RepoWrites => ~is_active(E, w.key)))
    BY <1>3, <1>5
  <2>2. IF w \in OrgWrites THEN e = Append(E, w) /\ o = Append(O, w) ELSE o = O
    BY <1>3, <1>4, <1>5
  <2> HIDE DEF w, e, o, t
  <2> QED BY <1>1, <1>6, <2>1, <2>2, FoldIsSame
<1>8. ASSUME NEW k \in TeamKeys, RosterComplete(apply(projection, w).team_rosters[k])
      PROVE  RosterComplete(projection_from_stores(e, o, t).team_rosters[k])
  <2>1. RosterComplete(projection.team_rosters[k]) =>
          RosterComplete(projection_from_stores(E, O, T).team_rosters[k])
    BY DEF Mirrors
  <2>2. TeamLanded(w, E, e, T, t)
    BY <1>3, <1>5 DEF TeamLanded
  <2> HIDE DEF w, e, o, t
  <2> QED BY <1>1, <1>8, <2>1, <2>2, FoldKeepsRosters
<1> QED BY <1>7, <1>8 DEF Mirrors, Replayed

LEMMA KeptPreserved ==
  ASSUME WriteInv, WriteInv', Kept, [AppNext]_vars
  PROVE  Kept'
<1> SUFFICES ASSUME foreign' # "now"
             PROVE  Kept'
  BY DEF Kept
<1>1. /\ journal'["events"] \in Seq(Writes) /\ journal'["orgs"] \in Seq(OrgWrites)
      /\ journal'["teams"] \in Seq(TeamWrites)
  BY StoresAssumption DEF WriteInv, Kinds, JournalKinds, KindOf
<1>2. ASSUME op' = NoOp, Mirrors(projection', Replayed'), \A s \in Stores : ~unsynced'[s]
      PROVE  Kept'
  <2>1. \A s \in Stores : Held(journal[s], s)'
    BY <1>2 DEF Held, Landed
  <2>2. Held(journal["events"], "events")' /\ Held(journal["orgs"], "orgs")'
        /\ Held(journal["teams"], "teams")'
    BY <2>1, StoresAssumption
  <2> QED BY <1>1, <1>2, <2>2 DEF Kept, Replayed
<1>3. CASE Restart
  <2>1. /\ projection' = Replayed' /\ op' = NoOp /\ \A s \in Stores : ~unsynced'[s]
    BY <1>3 DEF Restart, Reopen, Replayed
  <2> QED BY <1>2, <2>1 DEF Mirrors, Same, SameRepos
<1>4. CASE Folds /\ ~Restart
  <2>1. /\ op # NoOp /\ op' = NoOp /\ journal' = journal /\ foreign # "now"
        /\ projection' = apply(projection, op.env)
        /\ \A s \in Stores : unsynced'[s] => unsynced[s] /\ writing[s] = NoWrite
    <3>2. CASE DetachNothing
      BY <1>4, <3>2, OpFacts DEF Folds, DetachNothing, lock_knowledge, Succeeded, storeVars,
                                 OneWriter
    <3>3. CASE WriteAcknowledged
      BY <1>4, <3>3, OpFacts DEF Folds, WriteAcknowledged, Acknowledge, Succeeded, OneWriter
    <3> QED BY <1>4, <3>2, <3>3 DEF Folds
  <2>2. \A s \in Stores : ~unsynced'[s]
    BY <2>1, IdleIsSettled, OpFacts
  <2>3. PICK E \in Seq(Writes), O \in Seq(OrgWrites), T \in Seq(TeamWrites) :
          /\ Held(E, "events") /\ Held(O, "orgs") /\ Held(T, "teams")
          /\ Mirrors(projection, projection_from_stores(E, O, T))
    BY <2>1 DEF Kept
  <2>4. Mirrors(apply(projection, op.env), Replayed)
    BY <1>4, <2>1, <2>3, FoldMirrors
  <2>5. Mirrors(projection', Replayed')
    BY <2>1, <2>4 DEF Replayed
  <2> QED BY <1>2, <2>1, <2>2, <2>5
<1>5. CASE ~Restart /\ ~Folds
  <2>1. projection' = projection /\ foreign # "now"
    BY <1>5, ProjectionSteps, ForeignSteps
  <2>2. PICK E \in Seq(Writes), O \in Seq(OrgWrites), T \in Seq(TeamWrites) :
          /\ Held(E, "events") /\ Held(O, "orgs") /\ Held(T, "teams")
          /\ Mirrors(projection, projection_from_stores(E, O, T))
    BY <2>1 DEF Kept
  <2>3. Held(E, "events")' /\ Held(O, "orgs")' /\ Held(T, "teams")'
    <3>1. E \in Seq(KindOf("events")) /\ O \in Seq(KindOf("orgs")) /\ T \in Seq(KindOf("teams"))
      BY DEF KindOf
    <3> QED BY <1>5, <2>2, <3>1, HeldPreserved, StoresAssumption
  <2> QED BY <2>1, <2>2, <2>3 DEF Kept
<1> QED BY <1>3, <1>4, <1>5

LEMMA KeptInvariant == AppSpec => []Kept
<1>1. AppInit => Kept
  <2> SUFFICES ASSUME AppInit PROVE Kept
    OBVIOUS
  <2>1. /\ journal["events"] = <<>> /\ journal["orgs"] = <<>> /\ journal["teams"] = <<>>
        /\ projection = EmptyProjection /\ op = NoOp
        /\ ~unsynced["events"] /\ ~unsynced["orgs"] /\ ~unsynced["teams"]
    BY StoresAssumption DEF AppInit, Init
  <2>2. \A p : replay(TRUE, p, <<>>) = p /\ replay(FALSE, p, <<>>) = p
    BY ReplayEmpty
  <2>3. projection_from_stores(<<>>, <<>>, <<>>) = EmptyProjection
    BY <2>2 DEF projection_from_stores, fold_events, fold_defined_events
  <2>4. <<>> \in Seq(Writes) /\ <<>> \in Seq(OrgWrites) /\ <<>> \in Seq(TeamWrites)
    BY EmptySeq
  <2>5. Held(<<>>, "events") /\ Held(<<>>, "orgs") /\ Held(<<>>, "teams")
    BY <2>1 DEF Held, Landed
  <2> QED BY <2>1, <2>3, <2>4, <2>5 DEF Kept, Mirrors, Same, SameRepos
<1>2. WriteInv /\ WriteInv' /\ Kept /\ [AppNext]_vars => Kept'
  BY KeptPreserved
<1> QED BY <1>1, <1>2, WriteInvariant, PTL DEF AppSpec

(***************************************************************************)
(* With no other writer and an open admission, the resident repositories,  *)
(* deletions and org state are what a restart would rebuild, for journals  *)
(* of every length: persist-then-fold neither loses nor invents state      *)
(* (admitted_write, projection_from_stores).                               *)
(***************************************************************************)
THEOREM ProjectionIsReplayable == AppSpec => []ProjectionSurvivesRestart
<1>1. WriteInv /\ Kept => ProjectionSurvivesRestart
  <2> SUFFICES ASSUME WriteInv, Kept, foreign # "now", admission = "open", op = NoOp
               PROVE  Same(projection, Replayed)
    BY DEF ProjectionSurvivesRestart, Same, SameRepos
  <2> QED BY DEF Kept, Held, Landed, Mirrors, Replayed
<1> QED BY <1>1, WriteInvariant, KeptInvariant, PTL

(***************************************************************************)
(* What a crash leaves of a journal holds what was held before the write   *)
(* in doubt, and that write or nothing.                                    *)
(***************************************************************************)
LEMMA CrashGrows ==
  ASSUME WriteInv, NEW s \in Stores, NEW j \in Seq(KindOf(s)), Held(j, s),
         NEW lost \in SUBSET {t \in Stores : unsynced[t]}
  PROVE  Grown(j, Surviving(lost)[s], KindOf(s))
<1>1. journal \in [Stores -> Seq(Envelope)]
  BY OpFacts
<1>2. CASE s \notin lost
  <2>1. Surviving(lost)[s] = journal[s]
    BY <1>1, <1>2 DEF Surviving
  <2> QED BY <2>1 DEF Held, Grown
<1>3. CASE s \in lost
  <2>1. PICK w \in KindOf(s) : journal[s] = Append(j, w)
    BY <1>3 DEF Held
  <2>2. /\ Len(j) \in Nat /\ Len(journal[s]) = Len(j) + 1
        /\ j = SubSeq(journal[s], 1, Len(j))
    BY <2>1, AppendLacksLast, LenProperties
  <2>3. Len(journal[s]) - 1 = Len(j)
    BY <2>2
  <2>4. Surviving(lost)[s] = j
    BY <1>1, <1>3, <2>2, <2>3 DEF Surviving
  <2> QED BY <2>4 DEF Grown
<1> QED BY <1>2, <1>3

(***************************************************************************)
(* No degraded capture ever replaces a complete one: not by a fold, and    *)
(* not by a restart that rebuilds the projection from journals of any      *)
(* length, with or without the write the crash left in doubt (CHE-0092 in  *)
(* EvidenceProjection::apply, projection_from_stores).                     *)
(***************************************************************************)
THEOREM NothingIsDowngraded == AppSpec => NoDowngrade
<1> DEFINE Keeps ==
             /\ \A k \in RepoKeys :
                  Complete(projection.repositories[k]) =>
                    projection'.repositories[k] = Absent \/ Complete(projection'.repositories[k])
             /\ Complete(projection.org_state) => Complete(projection'.org_state)
             /\ \A k \in TeamKeys :
                  RosterComplete(projection.team_rosters[k]) =>
                    \/ projection'.team_rosters[k] = Absent
                    \/ RosterComplete(projection'.team_rosters[k])
                    \/ ~is_active(journal'["events"], k)
<1>1. ASSUME WriteInv, Kept, [AppNext]_vars, foreign # "now"
      PROVE  Keeps
  <2>1. CASE projection' = projection
    BY <2>1
  <2>2. CASE op # NoOp /\ projection' = apply(projection, op.env)
    <3>1. op.env \in Writes /\ projection \in Projection
      BY <1>1, <2>2, OpFacts DEF WriteInv, Resident
    <3>2. \A k \in RepoKeys :
            Complete(projection.repositories[k]) =>
              projection'.repositories[k] = Absent \/ Complete(projection'.repositories[k])
      BY <2>2, <3>1, RepoKeeps
    <3>3. Complete(projection.org_state) => Complete(projection'.org_state)
      BY <2>2, <3>1, OrgKeeps
    <3>4. \A k \in TeamKeys :
            RosterComplete(projection.team_rosters[k]) =>
              projection'.team_rosters[k] = Absent \/ RosterComplete(projection'.team_rosters[k])
      BY <2>2, <3>1, RostersApply
    <3> QED BY <3>2, <3>3, <3>4
  <2>3. CASE Restart /\ projection' = Replayed'
    <3>1. PICK E \in Seq(Writes), O \in Seq(OrgWrites), T \in Seq(TeamWrites) :
            /\ Held(E, "events") /\ Held(O, "orgs") /\ Held(T, "teams")
            /\ Mirrors(projection, projection_from_stores(E, O, T))
      BY <1>1 DEF Kept
    <3>2. PICK lost \in SUBSET {t \in Stores : unsynced[t]} : journal' = Surviving(lost)
      BY <2>3 DEF Restart, Reopen
    <3> DEFINE e == journal'["events"]
               o == journal'["orgs"]
               t == journal'["teams"]
               P == projection_from_stores(E, O, T)
               Q == projection_from_stores(e, o, t)
    <3>3. Grown(E, e, Writes) /\ Grown(O, o, OrgWrites) /\ Grown(T, t, TeamWrites)
      <4>1. /\ "events" \in Stores /\ "orgs" \in Stores /\ "teams" \in Stores
            /\ KindOf("events") = Writes /\ KindOf("orgs") = OrgWrites
            /\ KindOf("teams") = TeamWrites
        BY StoresAssumption DEF KindOf
      <4>2. Grown(E, Surviving(lost)["events"], Writes)
        BY <1>1, <3>1, <4>1, CrashGrows
      <4>3. Grown(O, Surviving(lost)["orgs"], OrgWrites)
        BY <1>1, <3>1, <4>1, CrashGrows
      <4>4. Grown(T, Surviving(lost)["teams"], TeamWrites)
        BY <1>1, <3>1, <4>1, CrashGrows
      <4> QED BY <3>2, <4>2, <4>3, <4>4
    <3>4. projection' = Q /\ Mirrors(projection, P)
      BY <2>3, <3>1 DEF Replayed
    <3> HIDE DEF e, o, t
    <3>5. /\ \A k \in RepoKeys :
               Complete(P.repositories[k]) =>
                 Q.repositories[k] = Absent \/ Complete(Q.repositories[k])
          /\ Complete(P.org_state) => Complete(Q.org_state)
          /\ \A k \in TeamKeys :
               RosterComplete(P.team_rosters[k]) =>
                 \/ RosterComplete(Q.team_rosters[k])
                 \/ \E w \in Writes : e = Append(E, w) /\ w.key = k /\ w.detached
      BY <3>3, RebuildKeeps
    <3>6. ASSUME NEW k \in TeamKeys,
                 \E w \in Writes : e = Append(E, w) /\ w.key = k /\ w.detached
          PROVE  ~is_active(e, k)
      <4>1. PICK w \in Writes : e = Append(E, w) /\ w.key = k /\ w.detached
        BY <3>6
      <4>2. w \in Envelope /\ E \in Seq(Envelope)
        BY WritesAreEnvelopes
      <4> QED BY <4>1, <4>2, ActiveAppend
    <3> HIDE DEF P, Q
    <3> QED BY <3>4, <3>5, <3>6 DEF Mirrors, Same, SameRepos, e
  <2> QED BY <1>1, <2>1, <2>2, <2>3, ProjectionSteps
<1>2. WriteInv /\ Kept /\ [AppNext]_vars => [foreign # "now" => Keeps]_vars
  BY <1>1
<1> HIDE DEF Keeps
<1>3. AppSpec => [][foreign # "now" => Keeps]_vars
  BY <1>2, WriteInvariant, KeptInvariant, PTL DEF AppSpec
<1> QED BY <1>3 DEF NoDowngrade, Keeps

-----------------------------------------------------------------------------
(***************************************************************************)
(* Following the primary journal: the relation survives what is appended   *)
(* to the primary or to both and what is cut from the dedicated journal.   *)
(***************************************************************************)
FollowsBy(f, d, p) ==
  /\ f \in [DOMAIN d -> DOMAIN p]
  /\ \A i \in DOMAIN d : d[i].key = p[f[i]].key /\ d[i].detached = p[f[i]].detached
  /\ \A i, n \in DOMAIN d : (i < n /\ d[i].key = d[n].key) => f[i] < f[n]

LEMMA FollowsPick == \A d, p : Follows(d, p) <=> \E f : FollowsBy(f, d, p)
BY DEF Follows, FollowsBy

LEMMA FollowsAppend ==
  ASSUME NEW S, NEW d, NEW p \in Seq(S), NEW w \in S, Follows(d, p)
  PROVE  Follows(d, Append(p, w))
<1>1. PICK f : FollowsBy(f, d, p)
  BY FollowsPick
<1>2. \A i \in DOMAIN p : i \in DOMAIN Append(p, w) /\ Append(p, w)[i] = p[i]
  BY AppendProperties, LenProperties
<1>3. f \in [DOMAIN d -> DOMAIN Append(p, w)] /\ \A i \in DOMAIN d : Append(p, w)[f[i]] = p[f[i]]
  BY <1>1, <1>2 DEF FollowsBy
<1>4. FollowsBy(f, d, Append(p, w))
  BY <1>1, <1>3 DEF FollowsBy
<1> QED BY <1>4, FollowsPick

(***************************************************************************)
(* An envelope may be appended to a follower when the primary holds its    *)
(* counterpart at a place m behind every earlier one of the same fiber.    *)
(***************************************************************************)
Counterpart(m, w, f, d, p) ==
  /\ m \in DOMAIN p
  /\ p[m].key = w.key /\ p[m].detached = w.detached
  /\ \A i \in DOMAIN d : d[i].key = w.key => f[i] < m

LEMMA FollowsExtend ==
  ASSUME NEW S, NEW d \in Seq(S), NEW w \in S, NEW p, NEW f, FollowsBy(f, d, p),
         NEW m, Counterpart(m, w, f, d, p)
  PROVE  Follows(Append(d, w), p)
<1> DEFINE N == Len(d)
           q == Append(d, w)
           g == [i \in DOMAIN q |-> IF i = N + 1 THEN m ELSE f[i]]
<1>1. /\ N \in Nat /\ DOMAIN d = 1..N /\ DOMAIN q = 1..(N + 1)
      /\ q[N + 1] = w /\ \A i \in 1..N : q[i] = d[i]
  BY AppendProperties, LenProperties
<1> HIDE DEF N, q
<1>2. \A i \in DOMAIN q : i = N + 1 \/ (i \in DOMAIN d /\ i # N + 1 /\ q[i] = d[i])
  BY <1>1
<1>3. g \in [DOMAIN q -> DOMAIN p]
  BY <1>2 DEF FollowsBy, Counterpart
<1>4. \A i \in DOMAIN q : q[i].key = p[g[i]].key /\ q[i].detached = p[g[i]].detached
  BY <1>1, <1>2 DEF FollowsBy, Counterpart
<1>5. \A i, n \in DOMAIN q : (i < n /\ q[i].key = q[n].key) => g[i] < g[n]
  <2> SUFFICES ASSUME NEW i \in DOMAIN q, NEW n \in DOMAIN q, i < n, q[i].key = q[n].key
               PROVE  g[i] < g[n]
    OBVIOUS
  <2>1. i \in DOMAIN d /\ i # N + 1 /\ q[i] = d[i]
    BY <1>1
  <2>2. CASE n = N + 1
    BY <1>1, <2>1, <2>2 DEF Counterpart
  <2>3. CASE n # N + 1
    BY <1>2, <2>1, <2>3 DEF FollowsBy
  <2> QED BY <2>2, <2>3
<1>6. FollowsBy(g, q, p)
  BY <1>3, <1>4, <1>5 DEF FollowsBy
<1> QED BY <1>6, FollowsPick DEF q

LEMMA FollowsAppendBoth ==
  ASSUME NEW S, NEW R, NEW d \in Seq(S), NEW p \in Seq(R), NEW w \in S, w \in R, Follows(d, p)
  PROVE  Follows(Append(d, w), Append(p, w))
<1>1. PICK f : FollowsBy(f, d, p)
  BY FollowsPick
<1> DEFINE m == Len(p) + 1
           q == Append(p, w)
<1>2. /\ Len(p) \in Nat /\ DOMAIN p = 1..Len(p) /\ q \in Seq(R) /\ m \in DOMAIN q /\ q[m] = w
      /\ \A i \in DOMAIN p : i \in DOMAIN q /\ q[i] = p[i] /\ i < m
  BY AppendProperties, LenProperties
<1> HIDE DEF m, q
<1>3. f \in [DOMAIN d -> DOMAIN q] /\ \A i \in DOMAIN d : q[f[i]] = p[f[i]] /\ f[i] < m
  BY <1>1, <1>2 DEF FollowsBy
<1>4. FollowsBy(f, d, q)
  BY <1>1, <1>3 DEF FollowsBy
<1>5. m \in DOMAIN q /\ q[m].key = w.key /\ q[m].detached = w.detached
  BY <1>2
<1>6. \A i \in DOMAIN d : d[i].key = w.key => f[i] < m
  BY <1>3
<1>7. Counterpart(m, w, f, d, q)
  BY <1>5, <1>6 DEF Counterpart
<1>8. Follows(Append(d, w), q)
  BY <1>4, <1>7, FollowsExtend
<1> QED BY <1>8 DEF q

LEMMA FollowsCut ==
  ASSUME NEW S, NEW d \in Seq(S), NEW p, Follows(d, p)
  PROVE  Follows(SubSeq(d, 1, Len(d) - 1), p)
<1>1. PICK f : FollowsBy(f, d, p)
  BY FollowsPick
<1> DEFINE q == SubSeq(d, 1, Len(d) - 1)
           g == [i \in DOMAIN q |-> f[i]]
<1>2. \A i \in DOMAIN q : i \in DOMAIN d /\ q[i] = d[i]
  <2>1. Len(d) \in Nat /\ DOMAIN d = 1..Len(d)
    BY LenProperties
  <2>2. DOMAIN q = 1..(Len(d) - 1) /\ \A i \in 1..(Len(d) - 1) : q[i] = d[i]
    BY <2>1
  <2> QED BY <2>1, <2>2
<1> HIDE DEF q
<1>3. FollowsBy(g, q, p)
  BY <1>1, <1>2 DEF FollowsBy
<1> QED BY <1>3, FollowsPick DEF q

LEMMA FollowsEmpty ==
  ASSUME NEW p
  PROVE  Follows(<<>>, p)
<1> DEFINE f == [i \in DOMAIN <<>> |-> i]
<1>1. FollowsBy(f, <<>>, p)
  BY DEF FollowsBy
<1> QED BY <1>1, FollowsPick

(***************************************************************************)
(* A fiber that has envelopes has a last one.                              *)
(***************************************************************************)
LEMMA LastExists ==
  ASSUME NEW j \in Seq(Envelope), NEW k, NEW i \in DOMAIN j, j[i].key = k
  PROVE  \E m \in DOMAIN j : LastOf(j, k, m)
<1> DEFINE G == {q \in Seq(Envelope) :
                   (\E n \in DOMAIN q : q[n].key = k) => \E m \in DOMAIN q : LastOf(q, k, m)}
<1>1. <<>> \in G
  BY EmptySeq
<1>2. ASSUME NEW q \in Seq(Envelope), NEW w \in Envelope, q \in G
      PROVE  Append(q, w) \in G
  <2> DEFINE r == Append(q, w)
             N == Len(q)
  <2>1. /\ N \in Nat /\ DOMAIN q = 1..N /\ DOMAIN r = 1..(N + 1) /\ r \in Seq(Envelope)
        /\ r[N + 1] = w /\ \A n \in 1..N : r[n] = q[n]
    BY AppendProperties, LenProperties
  <2> HIDE DEF r, N
  <2>2. CASE w.key = k
    <3>1. LastOf(r, k, N + 1) /\ N + 1 \in DOMAIN r
      BY <2>1, <2>2 DEF LastOf
    <3>2. r \in G
      BY <2>1, <3>1
    <3> QED BY <3>2 DEF r
  <2>3. CASE w.key # k
    <3>1. \A m \in DOMAIN q : LastOf(q, k, m) => LastOf(r, k, m) /\ m \in DOMAIN r
      BY <2>1, <2>3 DEF LastOf
    <3>2. (\E n \in DOMAIN r : r[n].key = k) => \E n \in DOMAIN q : q[n].key = k
      BY <2>1, <2>3
    <3>3. r \in G
      BY <1>2, <2>1, <3>1, <3>2
    <3> QED BY <3>3 DEF r
  <2> QED BY <2>2, <2>3
<1> HIDE DEF G
<1>3. Seq(Envelope) \subseteq G
  BY <1>1, <1>2, SeqInduction
<1> QED BY <1>3 DEF G

(***************************************************************************)
(* A detach that was void in the primary journal, because the fiber is     *)
(* already detached there, but not in the dedicated one: the primary holds *)
(* its counterpart, behind every earlier envelope of the fiber.            *)
(***************************************************************************)
LEMMA FollowsLateDetach ==
  ASSUME NEW S \in SUBSET Envelope, NEW d \in Seq(S), NEW p \in Seq(Envelope), NEW w \in S,
         w.detached, Follows(d, p), is_active(d, w.key), ~is_active(p, w.key)
  PROVE  Follows(Append(d, w), p)
<1>1. PICK f : FollowsBy(f, d, p)
  BY FollowsPick
<1>2. PICK i \in DOMAIN d : LastOf(d, w.key, i) /\ ~d[i].detached
  BY DEF is_active
<1>3. /\ f[i] \in DOMAIN p /\ p[f[i]].key = w.key /\ ~p[f[i]].detached
  BY <1>1, <1>2 DEF FollowsBy, LastOf
<1>4. PICK m \in DOMAIN p : LastOf(p, w.key, m)
  BY <1>3, LastExists
<1>5. p[m].detached /\ p[m].key = w.key
  BY <1>4 DEF is_active, LastOf
<1>6. DOMAIN p \subseteq Nat /\ DOMAIN d \subseteq Nat
  BY LenProperties
<1>7. f[i] < m
  BY <1>3, <1>4, <1>5, <1>6 DEF LastOf
<1>8. \A n \in DOMAIN d : d[n].key = w.key => f[n] < m
  <2> SUFFICES ASSUME NEW n \in DOMAIN d, d[n].key = w.key PROVE f[n] < m
    OBVIOUS
  <2>1. n = i \/ n < i
    BY <1>2, <1>6 DEF LastOf
  <2>2. n < i => f[n] < f[i]
    BY <1>1, <1>2 DEF FollowsBy, LastOf
  <2>3. f[n] \in DOMAIN p
    BY <1>1 DEF FollowsBy
  <2> QED BY <1>3, <1>6, <1>7, <2>1, <2>2, <2>3
<1>9. p[m].detached = w.detached
  <2>1. p[m] \in Envelope /\ w \in Envelope
    BY ElementOfSeq, LenProperties
  <2> QED BY <1>5, <2>1 DEF Envelope
<1>10. Counterpart(m, w, f, d, p)
  BY <1>5, <1>8, <1>9 DEF Counterpart
<1> QED BY <1>1, <1>10, FollowsExtend

(***************************************************************************)
(* The strengthening of PrimaryLeads.  While the last primary envelope is  *)
(* in flight or may be lost, the dedicated journals follow the rest of the *)
(* primary; a write on its way to a dedicated journal has its counterpart  *)
(* at the end of the primary, or is a detach that was void there.          *)
(***************************************************************************)
Leads(s) ==
  /\ Follows(journal[s], journal["events"])
  /\ (unsynced["events"] \/ writing["events"] # NoWrite) =>
       \E E \in Seq(Writes), w \in Writes :
         journal["events"] = Append(E, w) /\ Follows(journal[s], E)
  /\ (op # NoOp /\ op.at = s /\ writing[s] = NoWrite) =>
       IF op.primary_landed
       THEN \E E \in Seq(Writes) :
              journal["events"] = Append(E, op.env) /\ Follows(journal[s], E)
       ELSE op.env.detached /\ ~is_active(journal["events"], op.env.key)

Led == foreign = "never" => \A s \in {"orgs", "teams"} : Leads(s)

(***************************************************************************)
(* A write at a dedicated store has left the primary store settled, and    *)
(* may land where it is.                                                   *)
(***************************************************************************)
LEMMA PrimaryIsSettled ==
  ASSUME WriteInv, op # NoOp, op.at # "events"
  PROVE  writing["events"] = NoWrite /\ ~unsynced["events"]
<1>1. "events" \in Stores /\ admission = "open"
  BY StoresAssumption DEF WriteInv, Admitted
<1>2. writing["events"] = NoWrite
  BY <1>1 DEF WriteInv, AppInv, DoubtIsHeld, OneWriter
<1> QED BY <1>1, <1>2, IdleIsSettled

LEMMA MayLand ==
  ASSUME WriteInv, NEW s \in {"orgs", "teams"}, Leads(s),
         op # NoOp, op.at = s, writing[s] = NoWrite,
         op.env.detached => is_active(journal[s], op.env.key)
  PROVE  Follows(Append(journal[s], op.env), journal["events"])
<1>1. s \in Stores /\ "events" \in Stores
  BY StoresAssumption
<1>2. /\ op.env \in Writes /\ op.env \in KindOf(s)
      /\ journal[s] \in Seq(KindOf(s)) /\ journal["events"] \in Seq(Envelope)
  BY <1>1, WritesKind DEF WriteInv, AppInv, TypeOK, Kinds, OpKind, JournalKinds
<1>3. KindOf(s) \in SUBSET Envelope
  BY WritesAreEnvelopes DEF KindOf, Writes
<1>4. CASE op.primary_landed
  <2>1. PICK E \in Seq(Writes) : journal["events"] = Append(E, op.env) /\ Follows(journal[s], E)
    BY <1>4 DEF Leads
  <2>2. Follows(Append(journal[s], op.env), Append(E, op.env))
    BY <1>2, <2>1, FollowsAppendBoth
  <2> QED BY <2>1, <2>2
<1>5. CASE ~op.primary_landed
  <2>1. /\ op.env.detached /\ ~is_active(journal["events"], op.env.key)
        /\ is_active(journal[s], op.env.key) /\ Follows(journal[s], journal["events"])
    BY <1>5 DEF Leads
  <2> QED BY <1>2, <1>3, <2>1, FollowsLateDetach
<1> QED BY <1>4, <1>5

LEMMA LeadsPreserved ==
  ASSUME WriteInv, NEW s \in {"orgs", "teams"}, Leads(s),
         [AppNext]_vars, foreign' = "never"
  PROVE  Leads(s)'
<1>0. /\ journal \in [Stores -> Seq(Envelope)] /\ unsynced \in [Stores -> BOOLEAN]
      /\ writing \in [Stores -> Envelope \cup {NoWrite}]
      /\ "events" \in Stores /\ s \in Stores /\ s # "events"
      /\ journal["events"] \in Seq(Writes) /\ journal[s] \in Seq(KindOf(s))
      /\ op # NoOp => /\ op \in Op /\ op.at \in Stores /\ op.env \in Writes
                      /\ op.env \in Envelope /\ op.env # NoWrite
                      /\ op.at \in {"events", LastStore(op.env)}
      /\ OneWriter /\ Backed("events")
  BY StoresAssumption, NoWriteAssumption
     DEF WriteInv, AppInv, TypeOK, OpType, Op, DoubtIsHeld, Kinds, OpKind, JournalKinds, KindOf,
         AllBacked
<1>1. CASE UNCHANGED vars \/ ResyncStarts \/ ResyncStore \/ ResyncFails
  <2>1. op' = op /\ journal' = journal /\ writing' = writing /\ unsynced' = unsynced
    BY <1>1 DEF vars, storeVars, ResyncStarts, ResyncStore, ResyncFails,
                resync_from_authoritative
  <2> QED BY <2>1 DEF Leads
<1>2. CASE OtherProcessWrites
  BY <1>2 DEF OtherProcessWrites
<1>3. CASE Admits
  <2>1. /\ journal' = journal /\ writing' = writing /\ unsynced' = unsynced
        /\ op'.at = "events"
    BY <1>3, AdmitsType, AdmitsKind DEF storeVars
  <2> QED BY <1>0, <2>1 DEF Leads
<1>4. CASE WriteRefused
  <2>1. op' = NoOp /\ journal' = journal /\ writing' = writing /\ unsynced' = unsynced
    BY <1>4 DEF WriteRefused, Failed, storeVars
  <2> QED BY <2>1 DEF Leads
<1>5. CASE WriteLands \/ WriteUndetermined
  <2>1. /\ op # NoOp /\ (op.env.detached => is_active(journal[op.at], op.env.key))
        /\ writing[op.at] = NoWrite /\ knowledge[op.at] = "Ready"
    BY <1>5 DEF WriteLands, WriteUndetermined, DetachIsVoid, Lands, Undetermined, lock_knowledge
  <2>2. /\ \/ journal' = [journal EXCEPT ![op.at] = Append(journal[op.at], op.env)]
           \/ journal' = journal
        /\ \/ /\ op' = NoOp /\ writing' = writing /\ unsynced' = unsynced
           \/ /\ op' = op /\ writing' = [writing EXCEPT ![op.at] = op.env]
              /\ unsynced' = [unsynced EXCEPT ![op.at] = TRUE]
              /\ journal' = [journal EXCEPT ![op.at] = Append(journal[op.at], op.env)]
    BY <1>5 DEF WriteLands, WriteUndetermined, Lands, Undetermined, Appended, Failed
  <2>3. CASE op.at = "events"
    <3>1. ~unsynced["events"] /\ writing["events"] = NoWrite
      BY <1>0, <2>1, <2>3 DEF Backed
    <3>2. /\ journal'[s] = journal[s]
          /\ journal'["events"] \in {journal["events"], Append(journal["events"], op.env)}
          /\ op' # NoOp => op'.at # s
          /\ (unsynced'["events"] \/ writing'["events"] # NoWrite) =>
               journal'["events"] = Append(journal["events"], op.env)
      BY <1>0, <2>1, <2>2, <2>3, <3>1
    <3>3. Follows(journal[s], Append(journal["events"], op.env))
      BY <1>0, <2>1, FollowsAppend DEF Leads
    <3> QED BY <1>0, <2>1, <3>2, <3>3 DEF Leads
  <2>4. CASE op.at = s
    <3>1. ~unsynced["events"] /\ writing["events"] = NoWrite
      BY <1>0, <2>1, <2>4, PrimaryIsSettled
    <3>2. Follows(Append(journal[s], op.env), journal["events"])
      BY <2>1, <2>4, MayLand
    <3>3. /\ journal'["events"] = journal["events"]
          /\ journal'[s] \in {journal[s], Append(journal[s], op.env)}
          /\ ~unsynced'["events"] /\ writing'["events"] = NoWrite
          /\ op' # NoOp => writing'[s] # NoWrite
      BY <1>0, <2>1, <2>2, <2>4, <3>1
    <3> QED BY <3>2, <3>3 DEF Leads
  <2>5. CASE op.at \notin {"events", s}
    <3>1. /\ journal'["events"] = journal["events"] /\ journal'[s] = journal[s]
          /\ unsynced'["events"] = unsynced["events"] /\ writing'["events"] = writing["events"]
          /\ op' # NoOp => op'.at # s
      BY <1>0, <2>1, <2>2, <2>5
    <3> QED BY <3>1 DEF Leads
  <2> QED BY <2>3, <2>4, <2>5
<1>6. CASE WriteAfterLanded \/ WritePanics
  <2>1. /\ op # NoOp /\ op' = NoOp /\ journal' = journal
        /\ \/ writing' = writing /\ unsynced' = unsynced
           \/ /\ writing[op.at] # NoWrite
              /\ writing' = [writing EXCEPT ![op.at] = NoWrite]
              /\ \/ unsynced' = unsynced
                 \/ \E u \in BOOLEAN : unsynced' = [unsynced EXCEPT ![op.at] = u]
    BY <1>6 DEF WriteAfterLanded, WritePanics, AfterLanded, Panics, Failed, storeVars
  <2>2. (unsynced'["events"] \/ writing'["events"] # NoWrite) =>
          (unsynced["events"] \/ writing["events"] # NoWrite)
    BY <1>0, <2>1
  <2> QED BY <2>1, <2>2 DEF Leads
<1>7. CASE WriteAcknowledged
  <2>1. /\ op # NoOp /\ journal' = journal /\ writing[op.at] # NoWrite /\ Succeeded(TRUE)
        /\ writing' = [writing EXCEPT ![op.at] = NoWrite]
        /\ unsynced' = [unsynced EXCEPT ![op.at] = FALSE]
    BY <1>7 DEF WriteAcknowledged, Acknowledge
  <2>2. (unsynced'["events"] \/ writing'["events"] # NoWrite) =>
          (unsynced["events"] \/ writing["events"] # NoWrite)
    BY <1>0, <2>1
  <2>3. CASE op' = NoOp
    BY <2>1, <2>2, <2>3 DEF Leads
  <2>4. CASE op' # NoOp
    <3>1. /\ op.at = "events"
          /\ op' = [op EXCEPT !.at = LastStore(op.env), !.primary_landed = TRUE]
      BY <1>0, <2>1, <2>4 DEF Succeeded
    <3>2. op'.env = op.env /\ op'.primary_landed
      BY <1>0, <2>1, <3>1 DEF Op
    <3>3. PICK E \in Seq(Writes), w \in Writes :
            journal["events"] = Append(E, w) /\ Follows(journal[s], E)
      BY <2>1, <3>1 DEF Leads
    <3>4. PICK j \in Seq(Envelope) : journal["events"] = Append(j, op.env)
      BY <1>0, <2>1, <3>1 DEF Backed, OneWriter
    <3>5. w = op.env
      <4>1. Len(journal["events"]) = Len(E) + 1 /\ journal["events"][Len(E) + 1] = w
        BY <3>3, AppendProperties
      <4>2. Len(journal["events"]) = Len(j) + 1 /\ journal["events"][Len(j) + 1] = op.env
        BY <1>0, <2>1, <3>4, AppendProperties
      <4> QED BY <4>1, <4>2
    <3> QED BY <2>1, <2>2, <3>2, <3>3, <3>5 DEF Leads
  <2> QED BY <2>3, <2>4
<1>8. CASE DetachNothing
  <2>1. /\ op # NoOp /\ journal' = journal /\ writing' = writing /\ unsynced' = unsynced
        /\ op.env.detached /\ ~is_active(journal[op.at], op.env.key) /\ Succeeded(FALSE)
    BY <1>8 DEF DetachNothing, DetachIsVoid, storeVars
  <2>2. CASE op' = NoOp
    BY <2>1, <2>2 DEF Leads
  <2>3. CASE op' # NoOp
    <3>1. /\ op.at = "events"
          /\ op' = [op EXCEPT !.at = LastStore(op.env), !.primary_landed = FALSE]
      BY <1>0, <2>1, <2>3 DEF Succeeded
    <3>2. op'.env = op.env /\ ~op'.primary_landed
      BY <1>0, <2>1, <3>1 DEF Op
    <3> QED BY <2>1, <3>1, <3>2 DEF Leads
  <2> QED BY <2>2, <2>3
<1>9. CASE Restart
  <2>1. PICK lost \in SUBSET {t \in Stores : unsynced[t]} : journal' = Surviving(lost)
    BY <1>9 DEF Restart, Reopen
  <2>2. /\ op' = NoOp /\ ~unsynced'["events"] /\ writing'["events"] = NoWrite
    BY <1>0, <1>9 DEF Restart, Reopen
  <2>3. Follows(journal[s], journal'["events"])
    <3>1. CASE "events" \notin lost
      <4>1. journal'["events"] = journal["events"]
        BY <1>0, <2>1, <3>1 DEF Surviving
      <4> QED BY <4>1 DEF Leads
    <3>2. CASE "events" \in lost
      <4>1. PICK E \in Seq(Writes), w \in Writes :
              journal["events"] = Append(E, w) /\ Follows(journal[s], E)
        BY <2>1, <3>2 DEF Leads
      <4>2. /\ Len(E) \in Nat /\ Len(journal["events"]) = Len(E) + 1
            /\ E = SubSeq(journal["events"], 1, Len(E))
        BY <4>1, AppendLacksLast, LenProperties
      <4>3. Len(journal["events"]) - 1 = Len(E)
        BY <4>2
      <4>4. journal'["events"] = E
        BY <1>0, <2>1, <3>2, <4>2, <4>3 DEF Surviving
      <4> QED BY <4>1, <4>4
    <3> QED BY <3>1, <3>2
  <2>4. Follows(journal'[s], journal'["events"])
    <3>1. CASE s \notin lost
      <4>1. journal'[s] = journal[s]
        BY <1>0, <2>1, <3>1 DEF Surviving
      <4> QED BY <2>3, <4>1
    <3>2. CASE s \in lost
      <4>1. journal'[s] = SubSeq(journal[s], 1, Len(journal[s]) - 1)
        BY <1>0, <2>1, <3>2 DEF Surviving
      <4> QED BY <1>0, <2>3, <4>1, FollowsCut
    <3> QED BY <3>1, <3>2
  <2> QED BY <2>2, <2>4 DEF Leads
<1> QED BY <1>1, <1>2, <1>3, <1>4, <1>5, <1>6, <1>7, <1>8, <1>9 DEF AppNext, Admits

(***************************************************************************)
(* As long as no other process wrote, the org and team journals hold       *)
(* nothing but orgs and teams, and each fiber's writes and detaches have   *)
(* their counterparts in the primary journal, in order, through every      *)
(* failure and crash (record_org, record_team, detach_team).               *)
(***************************************************************************)
THEOREM DedicatedFollowsPrimary == AppSpec => []PrimaryLeads
<1>1. AppInit => Led
  <2> SUFFICES ASSUME AppInit, NEW s \in {"orgs", "teams"} PROVE Leads(s)
    BY DEF AppInit, Led
  <2>1. /\ journal[s] = <<>> /\ ~unsynced["events"] /\ writing["events"] = NoWrite /\ op = NoOp
    BY StoresAssumption DEF AppInit, Init
  <2> QED BY <2>1, FollowsEmpty DEF Leads
<1>2. WriteInv /\ Led /\ [AppNext]_vars => Led'
  <2> SUFFICES ASSUME WriteInv, Led, [AppNext]_vars, foreign' = "never",
                      NEW s \in {"orgs", "teams"}
               PROVE  Leads(s)'
    BY DEF Led
  <2>1. foreign = "never"
    <3>1. CASE Restart
      BY <3>1 DEF Restart
    <3> QED BY <3>1, ForeignSteps
  <2> QED BY <2>1, LeadsPreserved DEF Led
<1>3. WriteInv /\ Led => PrimaryLeads
  <2> SUFFICES ASSUME WriteInv, Led, foreign = "never", NEW s \in {"orgs", "teams"}
               PROVE  /\ \A i \in DOMAIN journal[s] : LastStore(journal[s][i]) = s
                      /\ Follows(journal[s], journal["events"])
    BY DEF PrimaryLeads
  <2>1. journal[s] \in Seq(KindOf(s))
    BY StoresAssumption DEF WriteInv, Kinds, JournalKinds
  <2>2. \A i \in DOMAIN journal[s] : journal[s][i] \in KindOf(s)
    BY <2>1, ElementOfSeq, LenProperties
  <2>3. \A w \in KindOf(s) : LastStore(w) = s
    BY LastStores DEF KindOf, Writes
  <2> QED BY <2>2, <2>3 DEF Led, Leads
<1> QED BY <1>1, <1>2, <1>3, WriteInvariant, PTL DEF AppSpec
=============================================================================
