------------------------- MODULE ProjectionProofs -------------------------
(***************************************************************************)
(* What replaying a journal yields, for every journal.  The replay is a    *)
(* recursive function; that it exists and what it does on an appended      *)
(* envelope is proved here by the least counterexample, and everything     *)
(* else about it follows by induction over the journal.                    *)
(***************************************************************************)
EXTENDS EvidenceProjection, InductionProofs, SequenceTheorems, TLAPS

-----------------------------------------------------------------------------
(***************************************************************************)
(* The replay function of a journal: it exists, there is only one, and so  *)
(* the definition of replay means what it says.                            *)
(***************************************************************************)
Replays(g, skip, p, j) ==
  g = [i \in 0..Len(j) |-> IF i = 0 THEN p ELSE folds(skip, g[i - 1], j[i])]

LEMMA ReplaysAppend ==
  ASSUME NEW W, NEW j \in Seq(W), NEW w \in W, NEW skip, NEW p, NEW g, Replays(g, skip, p, j)
  PROVE  \E h : Replays(h, skip, p, Append(j, w))
<1> DEFINE N == Len(j)
           q == Append(j, w)
           h == [i \in 0..(N + 1) |-> IF i = N + 1 THEN folds(skip, g[N], w) ELSE g[i]]
<1>1. /\ N \in Nat /\ Len(q) = N + 1 /\ q[N + 1] = w /\ \A i \in 1..N : q[i] = j[i]
  BY AppendProperties, LenProperties
<1>2. \A i \in 0..N : g[i] = IF i = 0 THEN p ELSE folds(skip, g[i - 1], j[i])
  BY DEF Replays
<1> HIDE DEF N, q
<1>3. \A i \in 0..(N + 1) : h[i] = IF i = 0 THEN p ELSE folds(skip, h[i - 1], q[i])
  <2> SUFFICES ASSUME NEW i \in 0..(N + 1)
               PROVE  h[i] = IF i = 0 THEN p ELSE folds(skip, h[i - 1], q[i])
    OBVIOUS
  <2>1. CASE i = 0
    BY <1>1, <1>2, <2>1
  <2>2. CASE i \in 1..N
    <3>1. h[i] = g[i] /\ h[i - 1] = g[i - 1] /\ q[i] = j[i] /\ i # 0 /\ i \in 0..N
      BY <1>1, <2>2
    <3> QED BY <1>2, <3>1
  <2>3. CASE i = N + 1
    <3>1. h[i] = folds(skip, g[N], w) /\ h[i - 1] = g[N] /\ q[i] = w /\ i # 0
      BY <1>1, <2>3
    <3> QED BY <3>1
  <2> QED BY <1>1, <2>1, <2>2, <2>3
<1>4. h = [i \in 0..(N + 1) |-> IF i = 0 THEN p ELSE folds(skip, h[i - 1], q[i])]
  <2>1. h = [i \in 0..(N + 1) |-> h[i]]
    OBVIOUS
  <2> HIDE DEF h
  <2> QED BY <1>3, <2>1
<1>5. Replays(h, skip, p, q)
  <2> HIDE DEF h
  <2> QED BY <1>1, <1>4 DEF Replays
<1> QED BY <1>5 DEF q

LEMMA ReplaysExists ==
  ASSUME NEW W, NEW j \in Seq(W), NEW skip, NEW p
  PROVE  \E g : Replays(g, skip, p, j)
<1> DEFINE K == {q \in Seq(W) : \E g : Replays(g, skip, p, q)}
<1>1. <<>> \in K
  <2>1. <<>> \in Seq(W) /\ Len(<<>>) = 0
    BY EmptySeq
  <2>2. Replays([i \in 0..0 |-> p], skip, p, <<>>)
    BY <2>1 DEF Replays
  <2> QED BY <2>1, <2>2
<1>2. \A q \in Seq(W), w \in W : q \in K => Append(q, w) \in K
  BY ReplaysAppend, AppendProperties
<1> HIDE DEF K
<1>3. Seq(W) \subseteq K
  BY <1>1, <1>2, SeqInduction
<1> QED BY <1>3 DEF K

(***************************************************************************)
(* A replay of a longer journal passes through the replay of a shorter.    *)
(***************************************************************************)
LEMMA ReplaysAgree ==
  ASSUME NEW W, NEW j \in Seq(W), NEW w \in W, NEW skip, NEW p,
         NEW g, Replays(g, skip, p, j), NEW h, Replays(h, skip, p, Append(j, w))
  PROVE  h[Len(j)] = g[Len(j)]
<1> DEFINE N == Len(j)
           q == Append(j, w)
           T == {i \in 0..N : h[i] = g[i]}
<1>1. /\ N \in Nat /\ Len(q) = N + 1 /\ \A i \in 1..N : q[i] = j[i]
  BY AppendProperties, LenProperties
<1>2. \A i \in 0..N : g[i] = IF i = 0 THEN p ELSE folds(skip, g[i - 1], j[i])
  BY DEF Replays
<1>3. \A i \in 0..(N + 1) : h[i] = IF i = 0 THEN p ELSE folds(skip, h[i - 1], q[i])
  BY <1>1 DEF Replays
<1> HIDE DEF N, q
<1>4. 0 \in T
  BY <1>1, <1>2, <1>3
<1>5. \A i \in 1..N : i - 1 \in T => i \in T
  <2> SUFFICES ASSUME NEW i \in 1..N, h[i - 1] = g[i - 1]
               PROVE  h[i] = g[i]
    BY <1>1
  <2>1. /\ i \in 0..N /\ i \in 0..(N + 1) /\ i # 0 /\ q[i] = j[i]
    BY <1>1
  <2> QED BY <1>2, <1>3, <2>1
<1> HIDE DEF T
<1>6. N \in T
  <2>1. \A i \in 0..N : i \in T
    BY <1>1, <1>4, <1>5, IntervalInduction
  <2> QED BY <1>1, <2>1
<1> QED BY <1>6 DEF T, N

(***************************************************************************)
(* replay, without its recursion: nothing is folded from an empty journal, *)
(* and an appended envelope is folded last.                                *)
(***************************************************************************)
LEMMA ReplayIsReplays ==
  ASSUME NEW W, NEW j \in Seq(W), NEW skip, NEW p
  PROVE  \E g : Replays(g, skip, p, j) /\ replay(skip, p, j) = g[Len(j)]
<1> DEFINE G == CHOOSE g : Replays(g, skip, p, j)
<1>1. Replays(G, skip, p, j)
  BY ReplaysExists
<1>2. replay(skip, p, j) = G[Len(j)]
  BY DEF replay, Replays
<1> QED BY <1>1, <1>2

LEMMA ReplayEmpty ==
  ASSUME NEW skip, NEW p
  PROVE  replay(skip, p, <<>>) = p
<1>1. <<>> \in Seq({}) /\ Len(<<>>) = 0
  BY EmptySeq
<1>2. PICK g : Replays(g, skip, p, <<>>) /\ replay(skip, p, <<>>) = g[0]
  BY <1>1, ReplayIsReplays
<1> QED BY <1>1, <1>2 DEF Replays

LEMMA ReplayAppend ==
  ASSUME NEW W, NEW j \in Seq(W), NEW w \in W, NEW skip, NEW p
  PROVE  replay(skip, p, Append(j, w)) = folds(skip, replay(skip, p, j), w)
<1>1. /\ Append(j, w) \in Seq(W) /\ Len(j) \in Nat
      /\ Len(Append(j, w)) = Len(j) + 1 /\ Append(j, w)[Len(j) + 1] = w
  BY AppendProperties, LenProperties
<1>2. PICK g : Replays(g, skip, p, j) /\ replay(skip, p, j) = g[Len(j)]
  BY ReplayIsReplays
<1>3. PICK h : /\ Replays(h, skip, p, Append(j, w))
               /\ replay(skip, p, Append(j, w)) = h[Len(j) + 1]
  BY <1>1, ReplayIsReplays
<1>4. h[Len(j)] = g[Len(j)]
  BY <1>2, <1>3, ReplaysAgree
<1>5. h[Len(j) + 1] = folds(skip, h[Len(j)], w)
  <2>1. \A i \in 0..(Len(j) + 1) :
          h[i] = IF i = 0 THEN p ELSE folds(skip, h[i - 1], Append(j, w)[i])
    BY <1>1, <1>3 DEF Replays
  <2>2. Len(j) + 1 \in 0..(Len(j) + 1) /\ Len(j) + 1 # 0 /\ (Len(j) + 1) - 1 = Len(j)
    BY <1>1
  <2> QED BY <1>1, <2>1, <2>2
<1> QED BY <1>2, <1>3, <1>4, <1>5

-----------------------------------------------------------------------------
(***************************************************************************)
(* The envelopes the program writes, by the part of the projection they    *)
(* change.                                                                 *)
(***************************************************************************)
RepoWrites ==
  {w \in [key : RepoKeys, detached : BOOLEAN, event : DomainEvents] :
     IF w.detached THEN w.event = RepoTombstone
                   ELSE w.event \in RepoCaptures \cup {RepoDeleted}}
OrgWrites ==
  {w \in [key : OrgKeys, detached : BOOLEAN, event : OrgCaptures] : ~w.detached}
TeamWrites == [key : TeamKeys, detached : BOOLEAN, event : TeamCaptures]
Writes == RepoWrites \cup OrgWrites \cup TeamWrites

(***************************************************************************)
(* What each kind of envelope does to a projection.                        *)
(***************************************************************************)
LEMMA RepoApplies ==
  ASSUME NEW p \in Projection, NEW w \in RepoWrites
  PROVE  /\ apply(p, w) \in Projection
         /\ apply(p, w).org_state = p.org_state
         /\ apply(p, w).team_rosters = p.team_rosters
         /\ apply(p, w).team_ghosts = p.team_ghosts
         /\ IF w.detached
            THEN /\ apply(p, w).repositories = [p.repositories EXCEPT ![w.key] = Absent]
                 /\ apply(p, w).deleted = p.deleted
            ELSE IF w.event = RepoDeleted
            THEN /\ apply(p, w).repositories = [p.repositories EXCEPT ![w.key] = Absent]
                 /\ apply(p, w).deleted = p.deleted \cup {w.key}
            ELSE IF upserts(Complete(p.repositories[w.key]), w.event.complete)
            THEN /\ apply(p, w).repositories = [p.repositories EXCEPT ![w.key] = w.event]
                 /\ apply(p, w).deleted = p.deleted \ {w.key}
            ELSE apply(p, w) = p
<1>1. /\ w.key \in RepoKeys
      /\ IF w.detached THEN w.event = RepoTombstone
                       ELSE w.event \in RepoCaptures \cup {RepoDeleted}
  BY DEF RepoWrites
<1>2. CASE w.detached
  <2>1. w.event.type = "RepositoryStateCaptured"
    BY <1>1, <1>2 DEF RepoTombstone
  <2>2. apply(p, w) = [p EXCEPT !.repositories[w.key] = Absent]
    BY <1>2, <2>1 DEF apply, apply_repo
  <2> QED BY <1>1, <1>2, <2>2 DEF Projection
<1>3. CASE ~w.detached /\ w.event = RepoDeleted
  <2>1. w.event.type = "RepositoryDeleted"
    BY <1>3 DEF RepoDeleted
  <2> DEFINE m == [p.repositories EXCEPT ![w.key] = Absent]
             d == p.deleted \cup {w.key}
  <2>2. apply(p, w) = [p EXCEPT !.repositories = m, !.deleted = d]
    BY <2>1 DEF apply, apply_deleted
  <2>3. m \in [RepoKeys -> RepoCaptures \cup {Absent}] /\ d \in SUBSET RepoKeys
    BY <1>1 DEF Projection
  <2> HIDE DEF m, d
  <2>4. /\ apply(p, w) \in Projection /\ apply(p, w).org_state = p.org_state
        /\ apply(p, w).team_rosters = p.team_rosters
        /\ apply(p, w).team_ghosts = p.team_ghosts
        /\ apply(p, w).repositories = m /\ apply(p, w).deleted = d
    BY <2>2, <2>3 DEF Projection
  <2> QED BY <1>3, <2>4 DEF m, d
<1>4. CASE ~w.detached /\ w.event # RepoDeleted
  <2>1. w.event \in RepoCaptures /\ w.event.type = "RepositoryStateCaptured"
    BY <1>1, <1>4 DEF RepoCaptures, RepoCaptured
  <2> DEFINE m == [p.repositories EXCEPT ![w.key] = w.event]
             d == p.deleted \ {w.key}
             u == upserts(Complete(p.repositories[w.key]), w.event.complete)
  <2>2. apply(p, w) = IF u THEN [p EXCEPT !.repositories = m, !.deleted = d] ELSE p
    BY <1>4, <2>1 DEF apply, apply_repo
  <2>3. m \in [RepoKeys -> RepoCaptures \cup {Absent}] /\ d \in SUBSET RepoKeys
    BY <1>1, <2>1 DEF Projection
  <2> HIDE DEF m, d, u
  <2>4. CASE u
    <3>1. /\ apply(p, w) \in Projection /\ apply(p, w).org_state = p.org_state
          /\ apply(p, w).team_rosters = p.team_rosters
          /\ apply(p, w).team_ghosts = p.team_ghosts
          /\ apply(p, w).repositories = m /\ apply(p, w).deleted = d
      BY <2>2, <2>3, <2>4 DEF Projection
    <3> QED BY <1>4, <2>4, <3>1 DEF m, d, u
  <2>5. CASE ~u
    BY <1>4, <2>2, <2>5 DEF u
  <2> QED BY <2>4, <2>5
<1> QED BY <1>2, <1>3, <1>4

LEMMA OrgApplies ==
  ASSUME NEW p \in Projection, NEW w \in OrgWrites
  PROVE  /\ apply(p, w) \in Projection
         /\ apply(p, w).repositories = p.repositories /\ apply(p, w).deleted = p.deleted
         /\ apply(p, w).team_rosters = p.team_rosters
         /\ apply(p, w).team_ghosts = p.team_ghosts
         /\ apply(p, w).org_state = IF upserts(Complete(p.org_state), w.event.complete)
                                    THEN w.event ELSE p.org_state
<1>1. w.event \in OrgCaptures /\ w.event.type = "OrgStateCaptured" /\ ~w.detached
  BY DEF OrgWrites, OrgCaptures, OrgCaptured
<1>2. apply(p, w) = IF upserts(Complete(p.org_state), w.event.complete)
                    THEN [p EXCEPT !.org_state = w.event] ELSE p
  BY <1>1 DEF apply, apply_org_state
<1> QED BY <1>1, <1>2 DEF Projection

LEMMA TeamApplies ==
  ASSUME NEW p \in Projection, NEW w \in TeamWrites
  PROVE  /\ apply(p, w) \in Projection
         /\ apply(p, w).repositories = p.repositories /\ apply(p, w).deleted = p.deleted
         /\ apply(p, w).org_state = p.org_state
         /\ apply(p, w).team_rosters =
              [p.team_rosters EXCEPT ![w.key] =
                 IF w.detached THEN Absent
                 ELSE IF upserts(RosterComplete(@), w.event.status = "Complete")
                      THEN w.event ELSE @]
         /\ apply(p, w).team_ghosts =
              [p.team_ghosts EXCEPT ![w.key] =
                 IF w.detached /\ w.event.status = "Deleted" THEN w.event ELSE Absent]
<1>1. /\ w.key \in TeamKeys /\ w.event \in TeamCaptures
      /\ w.event.type = "TeamStateCaptured" /\ w.detached \in BOOLEAN
  BY DEF TeamWrites, TeamCaptures, TeamCaptured
<1>2. apply(p, w) = apply_team(p, w.key, w.detached, w.event)
  BY <1>1 DEF apply
<1> DEFINE t == [p.team_rosters EXCEPT ![w.key] =
                   IF w.detached THEN Absent
                   ELSE IF upserts(RosterComplete(@), w.event.status = "Complete")
                        THEN w.event ELSE @]
           g == [p.team_ghosts EXCEPT ![w.key] =
                   IF w.detached /\ w.event.status = "Deleted" THEN w.event ELSE Absent]
<1>3. apply(p, w) = [p EXCEPT !.team_rosters = t, !.team_ghosts = g]
  <2>1. CASE w.detached
    BY <1>1, <1>2, <2>1 DEF apply_team, Projection
  <2>2. CASE ~w.detached
    BY <1>1, <1>2, <2>2 DEF apply_team, Projection
  <2> QED BY <2>1, <2>2
<1>4. /\ t \in [TeamKeys -> TeamCaptures \cup {Absent}]
      /\ g \in [TeamKeys -> TeamCaptures \cup {Absent}]
  BY <1>1 DEF Projection
<1> HIDE DEF t, g
<1>5. /\ apply(p, w) \in Projection
      /\ apply(p, w).repositories = p.repositories /\ apply(p, w).deleted = p.deleted
      /\ apply(p, w).org_state = p.org_state
      /\ apply(p, w).team_rosters = t /\ apply(p, w).team_ghosts = g
  BY <1>3, <1>4 DEF Projection
<1> QED BY <1>5 DEF t, g

LEMMA AppliesType ==
  ASSUME NEW p \in Projection, NEW w \in Writes
  PROVE  apply(p, w) \in Projection
BY RepoApplies, OrgApplies, TeamApplies DEF Writes

LEMMA FoldsType ==
  ASSUME NEW p \in Projection, NEW w \in Writes, NEW skip \in BOOLEAN
  PROVE  folds(skip, p, w) \in Projection
BY AppliesType DEF folds

(***************************************************************************)
(* A set of projections that every fold step stays in is not left by a     *)
(* replay.                                                                 *)
(***************************************************************************)
LEMMA ReplayStaysIn ==
  ASSUME NEW W, NEW skip, NEW K, NEW p \in K, NEW j \in Seq(W),
         \A q \in K, w \in W : folds(skip, q, w) \in K
  PROVE  replay(skip, p, j) \in K
<1> DEFINE G == {q \in Seq(W) : replay(skip, p, q) \in K}
<1>1. <<>> \in G
  BY EmptySeq, ReplayEmpty
<1>2. \A q \in Seq(W), w \in W : q \in G => Append(q, w) \in G
  <2> SUFFICES ASSUME NEW q \in Seq(W), NEW w \in W, replay(skip, p, q) \in K
               PROVE  Append(q, w) \in G
    OBVIOUS
  <2>1. replay(skip, p, Append(q, w)) = folds(skip, replay(skip, p, q), w)
    BY ReplayAppend
  <2>2. Append(q, w) \in Seq(W)
    BY AppendProperties
  <2> QED BY <2>1, <2>2
<1> HIDE DEF G
<1>3. Seq(W) \subseteq G
  BY <1>1, <1>2, SeqInduction
<1> QED BY <1>3 DEF G

LEMMA EmptyType == EmptyProjection \in Projection
BY DEF EmptyProjection, Projection

LEMMA ReplayType ==
  ASSUME NEW W \in SUBSET Writes, NEW skip \in BOOLEAN, NEW p \in Projection,
         NEW j \in Seq(W)
  PROVE  replay(skip, p, j) \in Projection
<1>1. \A q \in Projection, w \in W : folds(skip, q, w) \in Projection
  BY FoldsType
<1> QED BY <1>1, ReplayStaysIn

-----------------------------------------------------------------------------
(***************************************************************************)
(* A fold step on the repositories looks at the repositories only, one on  *)
(* the organisation at the organisation only.                              *)
(***************************************************************************)
SameRepos(p, q) == p.repositories = q.repositories /\ p.deleted = q.deleted

LEMMA RepoLocal ==
  ASSUME NEW p \in Projection, NEW q \in Projection, NEW w \in Writes, SameRepos(p, q)
  PROVE  SameRepos(apply(p, w), apply(q, w))
<1>1. CASE w \in RepoWrites
  <2>1. /\ p.repositories = q.repositories
        /\ p.deleted = q.deleted
    BY DEF SameRepos
  <2> DEFINE u == upserts(Complete(p.repositories[w.key]), w.event.complete)
  <2>2. CASE w.detached
    <3>1. /\ apply(p, w).repositories = [p.repositories EXCEPT ![w.key] = Absent]
          /\ apply(p, w).deleted = p.deleted
      BY <1>1, <2>2, RepoApplies
    <3>2. /\ apply(q, w).repositories = [q.repositories EXCEPT ![w.key] = Absent]
          /\ apply(q, w).deleted = q.deleted
      BY <1>1, <2>2, RepoApplies
    <3> QED BY <2>1, <3>1, <3>2 DEF SameRepos
  <2>3. CASE ~w.detached /\ w.event = RepoDeleted
    BY <1>1, <2>1, <2>3, RepoApplies DEF SameRepos
  <2>4. CASE ~w.detached /\ w.event # RepoDeleted /\ u
    BY <1>1, <2>1, <2>4, RepoApplies DEF SameRepos
  <2>5. CASE ~w.detached /\ w.event # RepoDeleted /\ ~u
    BY <1>1, <2>1, <2>5, RepoApplies DEF SameRepos
  <2> QED BY <2>2, <2>3, <2>4, <2>5
<1>2. CASE w \in OrgWrites
  BY <1>2, OrgApplies DEF SameRepos
<1>3. CASE w \in TeamWrites
  BY <1>3, TeamApplies DEF SameRepos
<1> QED BY <1>1, <1>2, <1>3 DEF Writes

LEMMA OrgLocal ==
  ASSUME NEW p \in Projection, NEW q \in Projection, NEW w \in Writes,
         p.org_state = q.org_state
  PROVE  apply(p, w).org_state = apply(q, w).org_state
<1>1. CASE w \in RepoWrites
  BY <1>1, RepoApplies
<1>2. CASE w \in OrgWrites
  BY <1>2, OrgApplies
<1>3. CASE w \in TeamWrites
  BY <1>3, TeamApplies
<1> QED BY <1>1, <1>2, <1>3 DEF Writes

(***************************************************************************)
(* Org journals hold no detached envelope: all of it is folded.            *)
(***************************************************************************)
LEMMA OrgFolds ==
  ASSUME NEW p, NEW w \in OrgWrites
  PROVE  folds(TRUE, p, w) = apply(p, w)
BY DEF folds, OrgWrites

(***************************************************************************)
(* The rebuild from the three journals: repositories come from the primary *)
(* journal alone, the organisation from the primary and then its own.      *)
(***************************************************************************)
LEMMA FromStores ==
  ASSUME NEW E \in Seq(Writes), NEW O \in Seq(OrgWrites), NEW T \in Seq(TeamWrites)
  PROVE  LET x == replay(FALSE, EmptyProjection, E)
             y == replay(TRUE, x, O)
             P == projection_from_stores(E, O, T)
         IN /\ x \in Projection /\ y \in Projection /\ P \in Projection
            /\ P = replay(TRUE, y, T)
            /\ SameRepos(P, x)
            /\ P.org_state = y.org_state
            /\ y.team_rosters = x.team_rosters /\ y.team_ghosts = x.team_ghosts
<1> DEFINE x == replay(FALSE, EmptyProjection, E)
           y == replay(TRUE, x, O)
           P == projection_from_stores(E, O, T)
<1>1. P = replay(TRUE, y, T)
  BY DEF projection_from_stores, fold_defined_events, fold_events
<1>2. OrgWrites \in SUBSET Writes /\ TeamWrites \in SUBSET Writes /\ Writes \in SUBSET Writes
  BY DEF Writes
<1>3. x \in Projection
  BY <1>2, EmptyType, ReplayType
<1> HIDE DEF x
<1> DEFINE K == {q \in Projection : /\ SameRepos(q, x) /\ q.team_rosters = x.team_rosters
                                    /\ q.team_ghosts = x.team_ghosts}
<1>4. y \in K
  <2>1. x \in K
    BY <1>3 DEF SameRepos
  <2>2. ASSUME NEW q \in K, NEW w \in OrgWrites
        PROVE  folds(TRUE, q, w) \in K
    <3>1. q \in Projection
      OBVIOUS
    <3>2. folds(TRUE, q, w) = apply(q, w)
      BY OrgFolds
    <3>3. /\ apply(q, w) \in Projection
          /\ SameRepos(apply(q, w), q)
          /\ apply(q, w).team_rosters = q.team_rosters
          /\ apply(q, w).team_ghosts = q.team_ghosts
      BY <3>1, OrgApplies DEF SameRepos
    <3> QED BY <3>2, <3>3 DEF SameRepos
  <2> HIDE DEF K
  <2> QED BY <2>1, <2>2, ReplayStaysIn
<1>5. y \in Projection /\ SameRepos(y, x) /\ y.team_rosters = x.team_rosters
      /\ y.team_ghosts = x.team_ghosts
  BY <1>4
<1> HIDE DEF y, P, K
<1> DEFINE L == {q \in Projection : SameRepos(q, y) /\ q.org_state = y.org_state}
<1>6. P \in L
  <2>1. y \in L
    BY <1>5 DEF SameRepos
  <2>2. \A q \in L, w \in TeamWrites : folds(TRUE, q, w) \in L
    BY TeamApplies DEF SameRepos, folds
  <2> HIDE DEF L
  <2> QED BY <1>1, <2>1, <2>2, ReplayStaysIn
<1>7. SameRepos(P, x) /\ P.org_state = y.org_state /\ P \in Projection
  BY <1>5, <1>6 DEF SameRepos
<1> QED BY <1>1, <1>3, <1>5, <1>7 DEF x, y, P

(***************************************************************************)
(* Two replays of an org journal: they agree if they start from the same   *)
(* organisation, and an envelope that one of them started with makes no    *)
(* difference once it is folded last in both.                              *)
(***************************************************************************)
LEMMA OrgReplayAppend ==
  ASSUME NEW O \in Seq(OrgWrites), NEW w \in OrgWrites, NEW p \in Projection
  PROVE  /\ replay(TRUE, p, O) \in Projection
         /\ Append(O, w) \in Seq(OrgWrites)
         /\ replay(TRUE, p, Append(O, w)) = apply(replay(TRUE, p, O), w)
<1>1. OrgWrites \in SUBSET Writes
  BY DEF Writes
<1>2. replay(TRUE, p, O) \in Projection
  BY <1>1, ReplayType
<1>3. replay(TRUE, p, Append(O, w)) = apply(replay(TRUE, p, O), w)
  <2>1. replay(TRUE, p, Append(O, w)) = folds(TRUE, replay(TRUE, p, O), w)
    BY ReplayAppend
  <2> QED BY <2>1, OrgFolds
<1> QED BY <1>2, <1>3, AppendProperties

LEMMA OrgReplayLocal ==
  ASSUME NEW p \in Projection, NEW q \in Projection, p.org_state = q.org_state,
         NEW O \in Seq(OrgWrites)
  PROVE  replay(TRUE, p, O).org_state = replay(TRUE, q, O).org_state
<1> DEFINE G == {o \in Seq(OrgWrites) :
                   replay(TRUE, p, o).org_state = replay(TRUE, q, o).org_state}
<1>1. <<>> \in G
  BY EmptySeq, ReplayEmpty
<1>2. ASSUME NEW o \in Seq(OrgWrites), NEW w \in OrgWrites, o \in G
      PROVE  Append(o, w) \in G
  <2>1. w \in Writes
    BY DEF Writes
  <2>2. /\ replay(TRUE, p, o) \in Projection
        /\ replay(TRUE, p, Append(o, w)) = apply(replay(TRUE, p, o), w)
        /\ Append(o, w) \in Seq(OrgWrites)
    BY OrgReplayAppend
  <2>3. /\ replay(TRUE, q, o) \in Projection
        /\ replay(TRUE, q, Append(o, w)) = apply(replay(TRUE, q, o), w)
    BY OrgReplayAppend
  <2>4. replay(TRUE, p, o).org_state = replay(TRUE, q, o).org_state
    BY <1>2
  <2>5. apply(replay(TRUE, p, o), w).org_state = apply(replay(TRUE, q, o), w).org_state
    BY <2>1, <2>2, <2>3, <2>4, OrgLocal
  <2> QED BY <2>2, <2>3, <2>5
<1> HIDE DEF G
<1>3. Seq(OrgWrites) \subseteq G
  BY <1>1, <1>2, SeqInduction
<1> QED BY <1>3 DEF G

LEMMA OrgAbsorbs ==
  ASSUME NEW p \in Projection, NEW e \in OrgWrites, NEW O \in Seq(OrgWrites)
  PROVE  apply(replay(TRUE, apply(p, e), O), e).org_state
           = apply(replay(TRUE, p, O), e).org_state
<1> DEFINE a(o) == replay(TRUE, apply(p, e), o)
           b(o) == replay(TRUE, p, o)
           Alike(o) == \/ a(o).org_state = b(o).org_state
                       \/ ~Complete(a(o).org_state) /\ ~Complete(b(o).org_state)
           G == {o \in Seq(OrgWrites) : Alike(o)}
<1>1. apply(p, e) \in Projection
  BY OrgApplies
<1>2. a(O) \in Projection /\ b(O) \in Projection
  BY <1>1, OrgReplayAppend
<1>3. CASE e.event.complete
  <2>1. \A q \in Projection : apply(q, e).org_state = e.event
    BY <1>3, OrgApplies DEF upserts
  <2> QED BY <1>2, <2>1
<1>4. CASE ~e.event.complete
  <2>1. Alike(<<>>)
    <3>1. a(<<>>) = apply(p, e) /\ b(<<>>) = p
      BY ReplayEmpty
    <3>2. apply(p, e).org_state = p.org_state
          \/ (apply(p, e).org_state = e.event /\ ~Complete(p.org_state))
      BY <1>4, OrgApplies DEF upserts
    <3> QED BY <1>4, <3>1, <3>2 DEF Complete
  <2>2. ASSUME NEW o \in Seq(OrgWrites), NEW w \in OrgWrites, Alike(o)
        PROVE  Alike(Append(o, w))
    <3>1. /\ a(o) \in Projection /\ a(Append(o, w)) = apply(a(o), w)
          /\ b(o) \in Projection /\ b(Append(o, w)) = apply(b(o), w)
      BY <1>1, OrgReplayAppend
    <3> HIDE DEF a, b
    <3>2. a(Append(o, w)).org_state = b(Append(o, w)).org_state
      BY <2>2, <3>1, OrgApplies DEF upserts
    <3> QED BY <3>2
  <2>3. <<>> \in G
    BY <2>1, EmptySeq
  <2>4. \A o \in Seq(OrgWrites), w \in OrgWrites : o \in G => Append(o, w) \in G
    <3> HIDE DEF Alike
    <3> QED BY <2>2, AppendProperties
  <2>5. Alike(O)
    <3> HIDE DEF G
    <3>1. Seq(OrgWrites) \subseteq G
      BY <2>3, <2>4, SeqInduction
    <3> QED BY <3>1 DEF G
  <2> HIDE DEF a, b
  <2>6. apply(a(O), e).org_state = apply(b(O), e).org_state
    BY <1>2, <2>5, OrgApplies DEF upserts
  <2> QED BY <2>6 DEF a, b
<1> QED BY <1>3, <1>4

-----------------------------------------------------------------------------
(***************************************************************************)
(* What ProjectionSurvivesRestart compares, and what one more envelope     *)
(* does to both sides: the resident projection folds it, the rebuild finds *)
(* it at the end of a journal.                                             *)
(***************************************************************************)
Same(p, q) == SameRepos(p, q) /\ p.org_state = q.org_state

LEMMA RepoAppended ==
  ASSUME NEW E \in Seq(Writes), NEW O \in Seq(OrgWrites), NEW T \in Seq(TeamWrites),
         NEW w \in RepoWrites, NEW p \in Projection,
         Same(p, projection_from_stores(E, O, T))
  PROVE  Same(apply(p, w), projection_from_stores(Append(E, w), O, T))
<1> DEFINE x == replay(FALSE, EmptyProjection, E)
           P == projection_from_stores(E, O, T)
           z == replay(FALSE, EmptyProjection, Append(E, w))
           Q == projection_from_stores(Append(E, w), O, T)
<1>1. w \in Writes /\ Append(E, w) \in Seq(Writes)
  BY AppendProperties DEF Writes
<1>2. z = apply(x, w)
  BY <1>1, ReplayAppend DEF folds
<1>3. /\ x \in Projection /\ SameRepos(P, x)
      /\ P.org_state = replay(TRUE, x, O).org_state
  BY FromStores
<1>4. /\ z \in Projection /\ SameRepos(Q, z)
      /\ Q.org_state = replay(TRUE, z, O).org_state
  BY <1>1, FromStores
<1> HIDE DEF x, P, z, Q
<1>5. SameRepos(p, x) /\ p.org_state = P.org_state
  BY <1>3 DEF Same, SameRepos, P
<1>6. SameRepos(apply(p, w), z)
  BY <1>1, <1>2, <1>3, <1>5, RepoLocal
<1>7. z.org_state = x.org_state /\ apply(p, w).org_state = p.org_state
  BY <1>2, <1>3, RepoApplies
<1>8. replay(TRUE, z, O).org_state = replay(TRUE, x, O).org_state
  BY <1>3, <1>4, <1>7, OrgReplayLocal
<1> QED BY <1>3, <1>4, <1>5, <1>6, <1>7, <1>8 DEF Same, SameRepos, Q

LEMMA TeamAppended ==
  ASSUME NEW E \in Seq(Writes), NEW O \in Seq(OrgWrites), NEW T \in Seq(TeamWrites),
         NEW w \in TeamWrites, NEW p \in Projection,
         Same(p, projection_from_stores(E, O, T))
  PROVE  /\ Same(p, projection_from_stores(Append(E, w), O, T))
         /\ Same(apply(p, w), projection_from_stores(E, O, T))
<1> DEFINE x == replay(FALSE, EmptyProjection, E)
           P == projection_from_stores(E, O, T)
           z == replay(FALSE, EmptyProjection, Append(E, w))
           Q == projection_from_stores(Append(E, w), O, T)
<1>1. w \in Writes /\ Append(E, w) \in Seq(Writes)
  BY AppendProperties DEF Writes
<1>2. z = apply(x, w)
  BY <1>1, ReplayAppend DEF folds
<1>3. /\ x \in Projection /\ SameRepos(P, x)
      /\ P.org_state = replay(TRUE, x, O).org_state
  BY FromStores
<1>4. /\ z \in Projection /\ SameRepos(Q, z)
      /\ Q.org_state = replay(TRUE, z, O).org_state
  BY <1>1, FromStores
<1> HIDE DEF x, P, z, Q
<1>5. SameRepos(z, x) /\ z.org_state = x.org_state
  BY <1>2, <1>3, TeamApplies DEF SameRepos
<1>6. replay(TRUE, z, O).org_state = replay(TRUE, x, O).org_state
  BY <1>3, <1>4, <1>5, OrgReplayLocal
<1>7. Same(Q, P)
  BY <1>3, <1>4, <1>5, <1>6 DEF Same, SameRepos
<1>8. Same(apply(p, w), p)
  BY TeamApplies DEF Same, SameRepos
<1> QED BY <1>7, <1>8 DEF Same, SameRepos, P, Q

LEMMA TeamJournalIsAside ==
  ASSUME NEW E \in Seq(Writes), NEW O \in Seq(OrgWrites), NEW T \in Seq(TeamWrites),
         NEW U \in Seq(TeamWrites), NEW p \in Projection,
         Same(p, projection_from_stores(E, O, T))
  PROVE  Same(p, projection_from_stores(E, O, U))
<1> DEFINE x == replay(FALSE, EmptyProjection, E)
           P == projection_from_stores(E, O, T)
           Q == projection_from_stores(E, O, U)
<1>1. SameRepos(P, x) /\ P.org_state = replay(TRUE, x, O).org_state
  BY FromStores
<1>2. SameRepos(Q, x) /\ Q.org_state = replay(TRUE, x, O).org_state
  BY FromStores
<1> HIDE DEF x, P, Q
<1> QED BY <1>1, <1>2 DEF Same, SameRepos, P, Q

LEMMA OrgAppended ==
  ASSUME NEW E \in Seq(Writes), NEW O \in Seq(OrgWrites), NEW T \in Seq(TeamWrites),
         NEW w \in OrgWrites, NEW p \in Projection,
         Same(p, projection_from_stores(E, O, T))
  PROVE  Same(apply(p, w), projection_from_stores(Append(E, w), Append(O, w), T))
<1> DEFINE x == replay(FALSE, EmptyProjection, E)
           P == projection_from_stores(E, O, T)
           z == replay(FALSE, EmptyProjection, Append(E, w))
           Q == projection_from_stores(Append(E, w), Append(O, w), T)
<1>1. w \in Writes /\ Append(E, w) \in Seq(Writes) /\ Append(O, w) \in Seq(OrgWrites)
  BY AppendProperties DEF Writes
<1>2. z = apply(x, w)
  BY <1>1, ReplayAppend DEF folds
<1>3. /\ x \in Projection /\ SameRepos(P, x)
      /\ P.org_state = replay(TRUE, x, O).org_state
  BY FromStores
<1>4. /\ z \in Projection /\ SameRepos(Q, z)
      /\ Q.org_state = replay(TRUE, z, Append(O, w)).org_state
  BY <1>1, FromStores
<1> HIDE DEF x, P, z, Q
<1>5. SameRepos(z, x) /\ SameRepos(apply(p, w), p)
  BY <1>2, <1>3, OrgApplies DEF SameRepos
<1>6. replay(TRUE, z, Append(O, w)) = apply(replay(TRUE, z, O), w)
  BY <1>4, OrgReplayAppend
<1>7. replay(TRUE, x, O) \in Projection
  BY <1>3, OrgReplayAppend
<1>8. apply(replay(TRUE, z, O), w).org_state = apply(replay(TRUE, x, O), w).org_state
  BY <1>2, <1>3, OrgAbsorbs
<1>9. p.org_state = replay(TRUE, x, O).org_state /\ SameRepos(p, x)
  BY <1>3 DEF Same, SameRepos, P
<1>10. apply(p, w).org_state = apply(replay(TRUE, x, O), w).org_state
  BY <1>1, <1>7, <1>9, OrgLocal
<1> QED BY <1>4, <1>5, <1>6, <1>8, <1>9, <1>10 DEF Same, SameRepos, Q

-----------------------------------------------------------------------------
(***************************************************************************)
(* Nothing is live and gone at once, in any projection a fold or a rebuild *)
(* yields.                                                                 *)
(***************************************************************************)
Apart(p) ==
  /\ \A k \in p.deleted : p.repositories[k] = Absent
  /\ \A k \in TeamKeys : p.team_ghosts[k] # Absent => p.team_rosters[k] = Absent

LEMMA AppliesApart ==
  ASSUME NEW p \in Projection, NEW w \in Writes, Apart(p)
  PROVE  Apart(apply(p, w))
<1>0. /\ p.repositories \in [RepoKeys -> RepoCaptures \cup {Absent}]
      /\ p.deleted \in SUBSET RepoKeys
      /\ p.team_rosters \in [TeamKeys -> TeamCaptures \cup {Absent}]
      /\ p.team_ghosts \in [TeamKeys -> TeamCaptures \cup {Absent}]
  BY DEF Projection
<1>1. CASE w \in RepoWrites
  <2>1. /\ apply(p, w).team_rosters = p.team_rosters
        /\ apply(p, w).team_ghosts = p.team_ghosts
        /\ \/ /\ apply(p, w).repositories = [p.repositories EXCEPT ![w.key] = Absent]
              /\ apply(p, w).deleted \in {p.deleted, p.deleted \cup {w.key}}
           \/ /\ apply(p, w).repositories = [p.repositories EXCEPT ![w.key] = w.event]
              /\ apply(p, w).deleted = p.deleted \ {w.key}
           \/ apply(p, w) = p
    BY <1>1, RepoApplies
  <2>2. w.key \in RepoKeys
    BY <1>1 DEF RepoWrites
  <2>3. \A k \in apply(p, w).deleted : apply(p, w).repositories[k] = Absent
    BY <1>0, <2>1, <2>2 DEF Apart
  <2> QED BY <2>1, <2>3 DEF Apart
<1>2. CASE w \in OrgWrites
  BY <1>2, OrgApplies DEF Apart
<1>3. CASE w \in TeamWrites
  <2> DEFINE r == apply(p, w).team_rosters
             g == apply(p, w).team_ghosts
  <2>1. /\ apply(p, w).repositories = p.repositories /\ apply(p, w).deleted = p.deleted
        /\ w.key \in TeamKeys
    BY <1>3, TeamApplies DEF TeamWrites
  <2>2. /\ \A k \in TeamKeys \ {w.key} : r[k] = p.team_rosters[k] /\ g[k] = p.team_ghosts[k]
        /\ w.detached => r[w.key] = Absent
        /\ ~w.detached => g[w.key] = Absent
    <3>1. /\ r = [p.team_rosters EXCEPT ![w.key] =
                    IF w.detached THEN Absent
                    ELSE IF upserts(RosterComplete(@), w.event.status = "Complete")
                         THEN w.event ELSE @]
          /\ g = [p.team_ghosts EXCEPT ![w.key] =
                    IF w.detached /\ w.event.status = "Deleted" THEN w.event ELSE Absent]
      BY <1>3, TeamApplies
    <3> HIDE DEF r, g
    <3> QED BY <1>0, <2>1, <3>1
  <2> HIDE DEF r, g
  <2>3. \A k \in TeamKeys : g[k] # Absent => r[k] = Absent
    BY <2>2 DEF Apart
  <2> QED BY <2>1, <2>3 DEF Apart, r, g
<1> QED BY <1>1, <1>2, <1>3 DEF Writes

LEMMA RebuiltApart ==
  ASSUME NEW E \in Seq(Writes), NEW O \in Seq(OrgWrites), NEW T \in Seq(TeamWrites)
  PROVE  /\ projection_from_stores(E, O, T) \in Projection
         /\ Apart(projection_from_stores(E, O, T))
<1> DEFINE G == {p \in Projection : Apart(p)}
<1>1. EmptyProjection \in G
  BY EmptyType DEF EmptyProjection, Apart
<1>2. ASSUME NEW skip \in BOOLEAN, NEW p \in G, NEW w \in Writes
      PROVE  folds(skip, p, w) \in G
  BY AppliesApart, AppliesType DEF folds
<1>3. OrgWrites \subseteq Writes /\ TeamWrites \subseteq Writes
  BY DEF Writes
<1> HIDE DEF G
<1>4. replay(FALSE, EmptyProjection, E) \in G
  BY <1>1, <1>2, ReplayStaysIn
<1>5. replay(TRUE, replay(FALSE, EmptyProjection, E), O) \in G
  BY <1>2, <1>3, <1>4, ReplayStaysIn
<1>6. replay(TRUE, replay(TRUE, replay(FALSE, EmptyProjection, E), O), T) \in G
  BY <1>2, <1>3, <1>5, ReplayStaysIn
<1>7. projection_from_stores(E, O, T) \in G
  BY <1>6 DEF projection_from_stores, fold_events, fold_defined_events
<1> QED BY <1>7 DEF G

-----------------------------------------------------------------------------
(***************************************************************************)
(* The anti-downgrade rule of one fold step: a complete entry stays        *)
(* complete or disappears, and only a detach makes a roster disappear.     *)
(***************************************************************************)
LEMMA RepoKeeps ==
  ASSUME NEW p \in Projection, NEW w \in Writes, NEW k \in RepoKeys, Complete(p.repositories[k])
  PROVE  apply(p, w).repositories[k] = Absent \/ Complete(apply(p, w).repositories[k])
<1>1. p.repositories \in [RepoKeys -> RepoCaptures \cup {Absent}]
  BY DEF Projection
<1>2. CASE w \in RepoWrites
  <2>1. w.key \in RepoKeys
    BY <1>2 DEF RepoWrites
  <2>2. \/ apply(p, w).repositories = [p.repositories EXCEPT ![w.key] = Absent]
        \/ /\ apply(p, w).repositories = [p.repositories EXCEPT ![w.key] = w.event]
           /\ upserts(Complete(p.repositories[w.key]), w.event.complete)
        \/ apply(p, w) = p
    BY <1>2, RepoApplies
  <2> QED BY <1>1, <2>1, <2>2 DEF upserts, Complete
<1>3. CASE w \in OrgWrites
  BY <1>3, OrgApplies
<1>4. CASE w \in TeamWrites
  BY <1>4, TeamApplies
<1> QED BY <1>2, <1>3, <1>4 DEF Writes

LEMMA OrgCompletes ==
  ASSUME NEW p \in Projection, NEW w \in OrgWrites
  PROVE  Complete(apply(p, w).org_state) <=> (Complete(p.org_state) \/ w.event.complete)
<1>1. w.event \in OrgCaptures /\ w.event # Absent
  BY AbsentAssumption DEF OrgWrites
<1> QED BY <1>1, OrgApplies DEF upserts, Complete

LEMMA OrgKeeps ==
  ASSUME NEW p \in Projection, NEW w \in Writes, Complete(p.org_state)
  PROVE  Complete(apply(p, w).org_state)
<1>1. CASE w \in RepoWrites
  BY <1>1, RepoApplies
<1>2. CASE w \in OrgWrites
  BY <1>2, OrgCompletes
<1>3. CASE w \in TeamWrites
  BY <1>3, TeamApplies
<1> QED BY <1>1, <1>2, <1>3 DEF Writes

LEMMA RostersApply ==
  ASSUME NEW p \in Projection, NEW w \in Writes, NEW k \in TeamKeys
  PROVE  /\ ~(w \in TeamWrites /\ w.key = k) =>
              apply(p, w).team_rosters[k] = p.team_rosters[k]
         /\ (w \in TeamWrites /\ w.key = k /\ w.detached) => apply(p, w).team_rosters[k] = Absent
         /\ (w \in TeamWrites /\ w.key = k /\ ~w.detached) =>
              (RosterComplete(apply(p, w).team_rosters[k])
                 <=> (RosterComplete(p.team_rosters[k]) \/ w.event.status = "Complete"))
<1>1. p.team_rosters \in [TeamKeys -> TeamCaptures \cup {Absent}]
  BY DEF Projection
<1>2. CASE w \in RepoWrites /\ w \notin TeamWrites
  BY <1>2, RepoApplies
<1>3. CASE w \in OrgWrites /\ w \notin TeamWrites
  BY <1>3, OrgApplies
<1>4. CASE w \in TeamWrites
  <2> DEFINE r == apply(p, w).team_rosters
             u == IF w.detached THEN Absent
                  ELSE IF upserts(RosterComplete(p.team_rosters[w.key]),
                                  w.event.status = "Complete")
                       THEN w.event ELSE p.team_rosters[w.key]
  <2>1. w.key \in TeamKeys /\ w.event \in TeamCaptures /\ w.event # Absent
    BY <1>4, AbsentAssumption DEF TeamWrites
  <2>2. r = [p.team_rosters EXCEPT ![w.key] = u]
    BY <1>4, TeamApplies
  <2>3. r[w.key] = u /\ \A l \in TeamKeys \ {w.key} : r[l] = p.team_rosters[l]
    <3> HIDE DEF r, u
    <3> QED BY <1>1, <2>1, <2>2
  <2>4. CASE w.key # k
    BY <1>4, <2>3, <2>4
  <2>5. CASE w.key = k /\ w.detached
    BY <1>4, <2>3, <2>5
  <2>6. CASE w.key = k /\ ~w.detached
    <3>1. RosterComplete(u) <=> (RosterComplete(p.team_rosters[k]) \/ w.event.status = "Complete")
      BY <2>1, <2>6 DEF upserts, RosterComplete
    <3> HIDE DEF u
    <3> QED BY <1>4, <2>3, <2>6, <3>1
  <2> QED BY <2>4, <2>5, <2>6
<1> QED BY <1>2, <1>3, <1>4 DEF Writes

(***************************************************************************)
(* Replays keep completeness: an organisation that is complete after one   *)
(* replay is complete after a replay that starts no worse, and a roster is *)
(* complete after the team journal just if it was complete before or the   *)
(* journal holds a complete capture, whatever detaches it holds.           *)
(***************************************************************************)
LEMMA OrgReplayKeeps ==
  ASSUME NEW p \in Projection, NEW q \in Projection, NEW O \in Seq(OrgWrites),
         Complete(p.org_state) => Complete(q.org_state),
         Complete(replay(TRUE, p, O).org_state)
  PROVE  Complete(replay(TRUE, q, O).org_state)
<1> DEFINE G == {o \in Seq(OrgWrites) : Complete(replay(TRUE, p, o).org_state) =>
                                          Complete(replay(TRUE, q, o).org_state)}
<1>1. <<>> \in G
  BY EmptySeq, ReplayEmpty
<1>2. ASSUME NEW o \in Seq(OrgWrites), NEW w \in OrgWrites, o \in G
      PROVE  Append(o, w) \in G
  <2>1. /\ replay(TRUE, p, o) \in Projection
        /\ replay(TRUE, p, Append(o, w)) = apply(replay(TRUE, p, o), w)
        /\ Append(o, w) \in Seq(OrgWrites)
    BY OrgReplayAppend
  <2>2. /\ replay(TRUE, q, o) \in Projection
        /\ replay(TRUE, q, Append(o, w)) = apply(replay(TRUE, q, o), w)
    BY OrgReplayAppend
  <2>3. Complete(apply(replay(TRUE, p, o), w).org_state) =>
          Complete(apply(replay(TRUE, q, o), w).org_state)
    BY <1>2, <2>1, <2>2, OrgCompletes
  <2> QED BY <2>1, <2>2, <2>3
<1> HIDE DEF G
<1>3. Seq(OrgWrites) \subseteq G
  BY <1>1, <1>2, SeqInduction
<1> QED BY <1>3 DEF G

LiveComplete(j, k) ==
  \E i \in DOMAIN j : j[i].key = k /\ ~j[i].detached /\ j[i].event.status = "Complete"

LEMMA LiveCompleteAppend ==
  ASSUME NEW S, NEW j \in Seq(S), NEW w \in S, NEW k
  PROVE  LiveComplete(Append(j, w), k) <=>
           (LiveComplete(j, k) \/ (w.key = k /\ ~w.detached /\ w.event.status = "Complete"))
<1> DEFINE q == Append(j, w)
           N == Len(j)
<1>1. /\ N \in Nat /\ DOMAIN j = 1..N /\ DOMAIN q = 1..(N + 1)
      /\ q[N + 1] = w /\ \A i \in 1..N : q[i] = j[i]
  BY AppendProperties, LenProperties
<1> HIDE DEF q, N
<1>2. \A i \in DOMAIN q : i = N + 1 \/ (i \in DOMAIN j /\ q[i] = j[i])
  BY <1>1
<1>3. \A i \in DOMAIN j : i \in DOMAIN q /\ q[i] = j[i]
  BY <1>1
<1>4. N + 1 \in DOMAIN q
  BY <1>1
<1>5. LiveComplete(q, k) <=>
        (LiveComplete(j, k) \/ (w.key = k /\ ~w.detached /\ w.event.status = "Complete"))
  BY <1>1, <1>2, <1>3, <1>4 DEF LiveComplete
<1> QED BY <1>5 DEF q

LEMMA RosterReplay ==
  ASSUME NEW p \in Projection, NEW T \in Seq(TeamWrites), NEW k \in TeamKeys
  PROVE  RosterComplete(replay(TRUE, p, T).team_rosters[k]) <=>
           (RosterComplete(p.team_rosters[k]) \/ LiveComplete(T, k))
<1> DEFINE c(t) == RosterComplete(replay(TRUE, p, t).team_rosters[k])
           G == {t \in Seq(TeamWrites) :
                   c(t) <=> (RosterComplete(p.team_rosters[k]) \/ LiveComplete(t, k))}
<1>1. <<>> \in G
  <2>1. ~LiveComplete(<<>>, k)
    BY DEF LiveComplete
  <2>2. c(<<>>) <=> RosterComplete(p.team_rosters[k])
    BY ReplayEmpty
  <2> QED BY <2>1, <2>2, EmptySeq
<1>2. ASSUME NEW t \in Seq(TeamWrites), NEW w \in TeamWrites, t \in G
      PROVE  Append(t, w) \in G
  <2> DEFINE x == replay(TRUE, p, t)
  <2>1. w \in Writes /\ Append(t, w) \in Seq(TeamWrites) /\ TeamWrites \in SUBSET Writes
    BY AppendProperties DEF Writes
  <2>2. x \in Projection
    BY <2>1, ReplayType
  <2>3. replay(TRUE, p, Append(t, w)) = folds(TRUE, x, w)
    BY ReplayAppend
  <2>4. LiveComplete(Append(t, w), k) <=>
          (LiveComplete(t, k) \/ (w.key = k /\ ~w.detached /\ w.event.status = "Complete"))
    BY LiveCompleteAppend
  <2>5. c(t) <=> RosterComplete(x.team_rosters[k])
    OBVIOUS
  <2> HIDE DEF x
  <2>6. CASE w.detached
    <3>1. folds(TRUE, x, w) = x
      BY <2>6 DEF folds
    <3>2. c(Append(t, w)) <=> c(t)
      BY <2>3, <2>5, <3>1
    <3> QED BY <1>2, <2>1, <2>4, <2>6, <3>2
  <2>7. CASE ~w.detached
    <3>1. folds(TRUE, x, w) = apply(x, w)
      BY <2>7 DEF folds
    <3>2. RosterComplete(apply(x, w).team_rosters[k]) <=>
            (RosterComplete(x.team_rosters[k]) \/ (w.key = k /\ w.event.status = "Complete"))
      BY <2>1, <2>2, <2>7, RostersApply
    <3>3. c(Append(t, w)) <=> (c(t) \/ (w.key = k /\ w.event.status = "Complete"))
      BY <2>3, <2>5, <3>1, <3>2
    <3> HIDE DEF c
    <3> QED BY <1>2, <2>1, <2>4, <2>7, <3>3
  <2> QED BY <2>6, <2>7
<1> HIDE DEF G
<1>3. Seq(TeamWrites) \subseteq G
  BY <1>1, <1>2, SeqInduction
<1> QED BY <1>3 DEF G

LEMMA RebuiltRosters ==
  ASSUME NEW E \in Seq(Writes), NEW O \in Seq(OrgWrites), NEW T \in Seq(TeamWrites),
         NEW k \in TeamKeys
  PROVE  RosterComplete(projection_from_stores(E, O, T).team_rosters[k]) <=>
           (RosterComplete(replay(FALSE, EmptyProjection, E).team_rosters[k])
              \/ LiveComplete(T, k))
<1> DEFINE x == replay(FALSE, EmptyProjection, E)
           y == replay(TRUE, x, O)
<1>1. /\ y \in Projection /\ projection_from_stores(E, O, T) = replay(TRUE, y, T)
      /\ y.team_rosters = x.team_rosters
  BY FromStores
<1> HIDE DEF y
<1>2. RosterComplete(replay(TRUE, y, T).team_rosters[k]) <=>
        (RosterComplete(y.team_rosters[k]) \/ LiveComplete(T, k))
  BY <1>1, RosterReplay
<1> QED BY <1>1, <1>2

(***************************************************************************)
(* Two rebuilds, the second from journals that are each one envelope       *)
(* longer at most: what was complete in the first is complete or absent in *)
(* the second, and a roster is lost only to a detach in the primary.       *)
(***************************************************************************)
Grown(j, q, W) == q = j \/ \E w \in W : q = Append(j, w)

LEMMA GrownType ==
  ASSUME NEW W, NEW j \in Seq(W), NEW q, Grown(j, q, W)
  PROVE  q \in Seq(W)
BY AppendProperties DEF Grown

LEMMA PrimaryGrown ==
  ASSUME NEW E \in Seq(Writes), NEW e, Grown(E, e, Writes)
  PROVE  LET x == replay(FALSE, EmptyProjection, E)
             z == replay(FALSE, EmptyProjection, e)
         IN /\ \A k \in RepoKeys :
                 Complete(x.repositories[k]) =>
                   z.repositories[k] = Absent \/ Complete(z.repositories[k])
            /\ Complete(x.org_state) => Complete(z.org_state)
            /\ \A k \in TeamKeys :
                 RosterComplete(x.team_rosters[k]) =>
                   \/ RosterComplete(z.team_rosters[k])
                   \/ \E w \in Writes : e = Append(E, w) /\ w.key = k /\ w.detached
<1> DEFINE x == replay(FALSE, EmptyProjection, E)
           z == replay(FALSE, EmptyProjection, e)
<1>1. x \in Projection
  BY EmptyType, ReplayType
<1>2. CASE e = E
  BY <1>2
<1>3. CASE \E w \in Writes : e = Append(E, w)
  <2>1. PICK w \in Writes : e = Append(E, w)
    BY <1>3
  <2>2. z = apply(x, w)
    BY <2>1, ReplayAppend DEF folds
  <2> HIDE DEF x, z
  <2>3. \A k \in RepoKeys : Complete(x.repositories[k]) =>
          z.repositories[k] = Absent \/ Complete(z.repositories[k])
    BY <1>1, <2>2, RepoKeeps
  <2>4. Complete(x.org_state) => Complete(z.org_state)
    BY <1>1, <2>2, OrgKeeps
  <2>5. ASSUME NEW k \in TeamKeys, RosterComplete(x.team_rosters[k])
        PROVE  RosterComplete(z.team_rosters[k]) \/ (w.key = k /\ w.detached)
    BY <1>1, <2>2, <2>5, RostersApply
  <2> QED BY <2>1, <2>3, <2>4, <2>5 DEF x, z
<1> QED BY <1>2, <1>3 DEF Grown

LEMMA RebuildKeeps ==
  ASSUME NEW E \in Seq(Writes), NEW O \in Seq(OrgWrites), NEW T \in Seq(TeamWrites),
         NEW e, NEW o, NEW t,
         Grown(E, e, Writes), Grown(O, o, OrgWrites), Grown(T, t, TeamWrites)
  PROVE  LET P == projection_from_stores(E, O, T)
             Q == projection_from_stores(e, o, t)
         IN /\ \A k \in RepoKeys :
                 Complete(P.repositories[k]) =>
                   Q.repositories[k] = Absent \/ Complete(Q.repositories[k])
            /\ Complete(P.org_state) => Complete(Q.org_state)
            /\ \A k \in TeamKeys :
                 RosterComplete(P.team_rosters[k]) =>
                   \/ RosterComplete(Q.team_rosters[k])
                   \/ \E w \in Writes : e = Append(E, w) /\ w.key = k /\ w.detached
<1> DEFINE x == replay(FALSE, EmptyProjection, E)
           z == replay(FALSE, EmptyProjection, e)
           P == projection_from_stores(E, O, T)
           Q == projection_from_stores(e, o, t)
<1>1. e \in Seq(Writes) /\ o \in Seq(OrgWrites) /\ t \in Seq(TeamWrites)
  BY GrownType
<1>2. x \in Projection /\ SameRepos(P, x) /\ P.org_state = replay(TRUE, x, O).org_state
  BY FromStores
<1>3. z \in Projection /\ SameRepos(Q, z) /\ Q.org_state = replay(TRUE, z, o).org_state
  BY <1>1, FromStores
<1>4. \A k \in TeamKeys : RosterComplete(P.team_rosters[k]) <=>
                           (RosterComplete(x.team_rosters[k]) \/ LiveComplete(T, k))
  BY RebuiltRosters
<1>5. \A k \in TeamKeys : RosterComplete(Q.team_rosters[k]) <=>
                           (RosterComplete(z.team_rosters[k]) \/ LiveComplete(t, k))
  BY <1>1, RebuiltRosters
<1>6. \A k : LiveComplete(T, k) => LiveComplete(t, k)
  <2>1. ASSUME NEW k, LiveComplete(T, k), NEW w \in TeamWrites
        PROVE  LiveComplete(Append(T, w), k)
    BY <2>1, LiveCompleteAppend
  <2> QED BY <2>1 DEF Grown
<1>7. /\ \A k \in RepoKeys :
           Complete(x.repositories[k]) =>
             z.repositories[k] = Absent \/ Complete(z.repositories[k])
      /\ Complete(x.org_state) => Complete(z.org_state)
      /\ \A k \in TeamKeys :
           RosterComplete(x.team_rosters[k]) =>
             \/ RosterComplete(z.team_rosters[k])
             \/ \E w \in Writes : e = Append(E, w) /\ w.key = k /\ w.detached
  BY PrimaryGrown
<1> HIDE DEF x, z, P, Q
<1>8. Complete(P.org_state) => Complete(Q.org_state)
  <2>1. Complete(replay(TRUE, x, O).org_state) => Complete(replay(TRUE, z, O).org_state)
    BY <1>2, <1>3, <1>7, OrgReplayKeeps
  <2>2. Complete(replay(TRUE, z, O).org_state) => Complete(replay(TRUE, z, o).org_state)
    <3>1. ASSUME NEW w \in OrgWrites, Complete(replay(TRUE, z, O).org_state)
          PROVE  Complete(replay(TRUE, z, Append(O, w)).org_state)
      BY <1>3, <3>1, OrgReplayAppend, OrgCompletes
    <3> QED BY <3>1 DEF Grown
  <2> QED BY <1>2, <1>3, <2>1, <2>2
<1>9. \A k \in RepoKeys :
        Complete(P.repositories[k]) => Q.repositories[k] = Absent \/ Complete(Q.repositories[k])
  BY <1>2, <1>3, <1>7 DEF SameRepos
<1>10. \A k \in TeamKeys :
         RosterComplete(P.team_rosters[k]) =>
           \/ RosterComplete(Q.team_rosters[k])
           \/ \E w \in Writes : e = Append(E, w) /\ w.key = k /\ w.detached
  BY <1>4, <1>5, <1>6, <1>7
<1> QED BY <1>8, <1>9, <1>10 DEF P, Q
=============================================================================
