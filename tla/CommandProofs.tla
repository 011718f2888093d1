--------------------------- MODULE CommandProofs ----------------------------
(***************************************************************************)
(* Proofs about the commands built on the release operations: canary,      *)
(* rename, prune, plan and apply, multi-install, and purge.                *)
(*                                                                         *)
(* The first five share the releases of ReleaseWorld.  WorldInv types      *)
(* them; one lemma for each operation says what it leaves of a history,    *)
(* and each command adds the invariant its promise rests on:               *)
(*   PlanInv     the operation runs only what the digests agreed on;       *)
(*   MultiInv    what an install found, and who will undo it;              *)
(*   CanaryInv   what the revision to go back to holds;                    *)
(*   RenameInv   under which of the two names a revision read is kept;     *)
(*   PruneInv    the revisions newer than all that is to go.               *)
(* PurgeInv is that of purge: its scope, the order of its drain, and what  *)
(* of a release found is left.                                             *)
(***************************************************************************)
EXTENDS Canary, HistoryCommands, PlanApply, MultiInstall, Purge,
        FiniteSetTheorems, NaturalsInduction, WellFoundedInduction, TLAPS

-----------------------------------------------------------------------------
(* Releases under the commands.                                            *)

(* A set of naturals that is not empty has a least element.                *)
LEMMA LeastOf ==
  ASSUME NEW S \in SUBSET Nat, S # {}
  PROVE  \E v \in S : \A w \in S : v <= w
<1>1. PICK v \in S : \A w \in S : ~(<<w, v>> \in OpToRel(<, Nat))
  BY NatLessThanWellFounded, WFMin
<1>2. ASSUME NEW w \in S, w < v PROVE FALSE
  <2>1. <<w, v>> \in Nat \X Nat /\ <<w, v>>[1] < <<w, v>>[2]
    BY <1>2
  <2>2. <<w, v>> \in OpToRel(<, Nat)
    BY <2>1, Zenon DEF OpToRel
  <2> QED BY <1>1, <2>2
<1> QED BY <1>2

(* A set of naturals with an upper bound has a greatest element.           *)
LEMMA GreatestOf ==
  ASSUME NEW S \in SUBSET Nat, S # {}, NEW k \in Nat, \A v \in S : v <= k
  PROVE  \E v \in S : \A w \in S : w <= v
<1> DEFINE T == {u \in Nat : \A v \in S : v <= u}
<1>1. T \in SUBSET Nat /\ T # {}
  OBVIOUS
<1>2. PICK u \in T : \A w \in T : u <= w
  <2> HIDE DEF T
  <2> QED BY <1>1, LeastOf
<1>3. u \in S
  <2> SUFFICES ASSUME u \notin S PROVE FALSE
    OBVIOUS
  <2>1. u \in Nat /\ \A v \in S : v \in Nat /\ v < u
    BY <1>2
  <2>2. u - 1 \in Nat /\ \A v \in S : v <= u - 1
    <3>1. PICK x \in S : x \in Nat /\ x < u
      BY <2>1
    <3>2. u - 1 \in Nat
      BY <2>1, <3>1
    <3>3. ASSUME NEW v \in S PROVE v <= u - 1
      BY <2>1
    <3> QED BY <3>2, <3>3
  <2>3. u - 1 \in T
    BY <2>2
  <2>4. u <= u - 1
    BY <1>2, <2>3
  <2> QED BY <2>1, <2>4
<1> QED BY <1>2, <1>3

(* So has a finite one: a least set without one, by number of elements,    *)
(* would still be without one when an element is taken out.                *)
LEMMA FiniteGreatest ==
  ASSUME NEW S \in SUBSET Nat, S # {}, IsFiniteSet(S)
  PROVE  \E v \in S : \A w \in S : w <= v
<1> DEFINE Bad(X) == X # {} /\ ~\E v \in X : \A w \in X : w <= v
           Sizes == {Cardinality(X) : X \in {Y \in SUBSET S : Bad(Y)}}
<1> SUFFICES ASSUME Bad(S) PROVE FALSE
  OBVIOUS
<1>1. \A X \in SUBSET S : IsFiniteSet(X) /\ Cardinality(X) \in Nat
  BY FS_Subset, FS_CardinalityType
<1>2. Sizes \in SUBSET Nat /\ Sizes # {}
  BY <1>1
<1>3. PICK k \in Sizes : \A j \in Sizes : k <= j
  <2> HIDE DEF Sizes
  <2> QED BY <1>2, LeastOf
<1>4. PICK X \in SUBSET S : Bad(X) /\ Cardinality(X) = k
  BY <1>3
<1>5. PICK x \in X : TRUE
  BY <1>4
<1> DEFINE Y == X \ {x}
<1>6. Y \in SUBSET S /\ Cardinality(Y) < Cardinality(X)
  BY <1>1, <1>5, FS_RemoveElement
<1>7. CASE Y = {}
  <2>1. \A w \in X : w <= x
    BY <1>7
  <2> QED BY <1>4, <2>1
<1>8. CASE \E v \in Y : \A w \in Y : w <= v
  <2>1. PICK v \in Y : \A w \in Y : w <= v
    BY <1>8
  <2>2. v \in X /\ x \in X /\ v \in Nat /\ x \in Nat
    BY <1>5, <2>1
  <2>3. CASE x <= v
    <3>1. \A w \in X : w <= v
      BY <2>1, <2>3
    <3> QED BY <1>4, <2>2, <3>1
  <2>4. CASE v < x
    <3>1. \A w \in X : w <= x
      BY <2>1, <2>2, <2>4
    <3> QED BY <1>4, <2>2, <3>1
  <2> QED BY <2>2, <2>3, <2>4
<1>9. CASE Bad(Y)
  <2>1. Cardinality(Y) \in Sizes
    BY <1>6, <1>9
  <2>2. k <= Cardinality(Y)
    BY <1>3, <2>1
  <2>3. Cardinality(Y) \in Nat /\ k \in Nat
    BY <1>1, <1>4, <1>6
  <2> HIDE DEF Y
  <2> QED BY <1>4, <1>6, <2>2, <2>3
<1> QED BY <1>7, <1>8, <1>9

(* The records of a release: of distinct revisions, and not without end.   *)
History(h) ==
    /\ h \in SUBSET Record
    /\ \A r, s \in h : r.rev = s.rev => r = s
    /\ \E k \in Nat : \A r \in h : r.rev <= k

(* The types of the variables the commands share.                          *)
WorldInv ==
    /\ hist \in [ReleaseName -> SUBSET Record] /\ \A n \in ReleaseName : History(hist[n])
    /\ live \in [ReleaseName -> Content \cup {Nothing, Torn}]
    /\ owner \in [ReleaseName -> ReleaseName]
    /\ wfaults \in 0 .. MaxWorldFaults /\ others \in 0 .. MaxOthers

(* Those types are the ones the runs check.                                *)
LEMMA WorldTyped == WorldInv => WorldTypeOK
<1> SUFFICES ASSUME WorldInv PROVE WorldTypeOK
  OBVIOUS
<1>1. ASSUME NEW n \in ReleaseName
      PROVE  /\ \A r \in hist[n] : r.rev \in Nat \ {0} /\ r.status \in WStatus /\ r.content \in Content
             /\ \A r, s \in hist[n] : r.rev = s.rev => r = s
  BY DEF WorldInv, History, Record
<1> QED BY <1>1 DEF WorldInv, WorldTypeOK

(* The first state of a command.                                           *)
LEMMA InitWorld == WorldInit => WorldInv
<1> SUFFICES ASSUME WorldInit PROVE WorldInv
  OBVIOUS
<1>1. ASSUME NEW n \in ReleaseName PROVE History(hist[n])
  <2>1. /\ hist[n] \in SUBSET Record /\ IsFiniteSet(hist[n])
        /\ \A r, s \in hist[n] : r.rev = s.rev => r = s
    BY DEF WorldInit, Sound
  <2> DEFINE f == [r \in hist[n] |-> r.rev]
             S == {r.rev : r \in hist[n]}
  <2>2. f \in Surjection(hist[n], S)
    BY DEF Surjection
  <2>3. IsFiniteSet(S)
    <3> HIDE DEF f, S
    <3> QED BY <2>1, <2>2, FS_Surjection
  <2>4. S \in SUBSET Nat
    BY <2>1 DEF Record
  <2>5. \E k \in Nat : \A v \in S : v <= k
    <3>1. CASE S = {}
      BY <3>1
    <3>2. CASE S # {}
      <4> HIDE DEF S
      <4> QED BY <2>3, <2>4, <3>2, FiniteGreatest
    <3> QED BY <3>1, <3>2
  <2> QED BY <2>1, <2>5 DEF History
<1>2. owner \in [ReleaseName -> ReleaseName]
  BY DEF WorldInit
<1>3. MaxWorldFaults \in 0 .. MaxWorldFaults /\ MaxOthers \in 0 .. MaxOthers
  BY ReleaseWorldAssumption
<1> QED BY <1>1, <1>2, <1>3 DEF WorldInit, WorldInv

(* A job is a record of the fields its command works with.                 *)
Fields(j, names) == j = [f \in names |-> j[f]]

(* LastRev and Latest are about the newest record.                         *)
LEMMA NewestRecord ==
  ASSUME WorldInv, NEW n \in ReleaseName
  PROVE  /\ LastRev(n) \in Nat /\ \A r \in hist[n] : r.rev <= LastRev(n)
         /\ hist[n] # {} => /\ Latest(n) \in hist[n] /\ Latest(n).rev = LastRev(n)
                            /\ LastRev(n) \in Nat \ {0}
<1>1. History(hist[n]) /\ \A r \in hist[n] : r \in Record
  BY DEF WorldInv, History
<1>2. CASE hist[n] = {}
  BY <1>2 DEF LastRev
<1>3. CASE hist[n] # {}
  <2>1. Revs(n) \in SUBSET Nat /\ Revs(n) # {} /\ \E k \in Nat : \A v \in Revs(n) : v <= k
    BY <1>1, <1>3 DEF Revs, History, Record
  <2>2. PICK m \in Revs(n) : \A w \in Revs(n) : w <= m
    BY <2>1, GreatestOf
  <2>3. Max(Revs(n)) \in Revs(n) /\ \A w \in Revs(n) : Max(Revs(n)) >= w
    BY <2>1, <2>2 DEF Max
  <2>4. LastRev(n) = Max(Revs(n))
    BY <1>3 DEF LastRev
  <2>5. LastRev(n) \in Revs(n) /\ LastRev(n) \in Nat /\ \A r \in hist[n] : r.rev \in Nat /\ r.rev <= LastRev(n)
    BY <2>1, <2>3, <2>4 DEF Revs
  <2>6. PICK l \in hist[n] : l.rev = LastRev(n)
    BY <2>5 DEF Revs
  <2>7. Latest(n) \in hist[n] /\ \A s \in hist[n] : s.rev <= Latest(n).rev
    BY <2>5, <2>6 DEF Latest
  <2>8. Latest(n).rev = LastRev(n)
    BY <2>5, <2>6, <2>7
  <2> QED BY <1>1, <2>5, <2>7, <2>8 DEF Record
<1> QED BY <1>2, <1>3

(* A record and the contents it keeps.                                     *)
LEMMA RecTyped ==
  ASSUME NEW v \in Nat \ {0}, NEW s \in WStatus, NEW c \in Content
  PROVE  Rec(v, s, c) \in Record /\ Rec(v, s, c).rev = v /\ Rec(v, s, c).status = s
         /\ Rec(v, s, c).content = c
BY DEF Rec, Record

(* What is in g is in h, with the status it may have by then.              *)
Kept(g, h) == \A r \in g : \E s \in h : s.rev = r.rev /\ s.content = r.content

LEMMA KeptKeys ==
  ASSUME NEW g, NEW h
  PROVE  Kept(g, h) <=> Keys(g) \subseteq Keys(h)
<1>1. ASSUME Kept(g, h), NEW k \in Keys(g) PROVE k \in Keys(h)
  BY <1>1 DEF Kept, Keys
<1>2. ASSUME Keys(g) \subseteq Keys(h), NEW r \in g
      PROVE  \E s \in h : s.rev = r.rev /\ s.content = r.content
  <2>1. <<r.rev, r.content>> \in Keys(h)
    BY <1>2 DEF Keys
  <2>2. PICK s \in h : <<r.rev, r.content>> = <<s.rev, s.content>>
    BY <2>1 DEF Keys
  <2> QED BY <2>2
<1> QED BY <1>1, <1>2 DEF Kept

(* Superseding leaves the revisions and their contents, and none deployed. *)
LEMMA SupersededHistory ==
  ASSUME NEW h, History(h)
  PROVE  /\ History(Superseded(h)) /\ Kept(h, Superseded(h)) /\ Kept(Superseded(h), h)
         /\ \A r \in Superseded(h) : r.status # "deployed"
<1> DEFINE g(r) == IF r.status = "deployed" THEN [r EXCEPT !.status = "superseded"] ELSE r
<1>1. ASSUME NEW r \in h
      PROVE  /\ g(r) \in Record /\ g(r).rev = r.rev /\ g(r).content = r.content
             /\ g(r).status # "deployed" /\ g(r) \in Superseded(h)
  <2>1. r \in Record
    BY DEF History
  <2>2. g(r) \in Superseded(h)
    BY DEF Superseded
  <2> QED BY <2>1, <2>2 DEF Record, WStatus
<1>2. \A s \in Superseded(h) : \E r \in h : s = g(r)
  BY DEF Superseded
<1> HIDE DEF g
<1>3. \A s \in Superseded(h) : s \in Record /\ s.status # "deployed"
  BY <1>1, <1>2
<1>4. \A s, t \in Superseded(h) : s.rev = t.rev => s = t
  BY <1>1, <1>2 DEF History
<1>5. \E k \in Nat : \A s \in Superseded(h) : s.rev <= k
  BY <1>1, <1>2 DEF History
<1>6. Kept(h, Superseded(h)) /\ Kept(Superseded(h), h)
  BY <1>1, <1>2 DEF Kept
<1> QED BY <1>3, <1>4, <1>5, <1>6 DEF History

(* One record more, of a free revision; and some less.                     *)
LEMMA AddedHistory ==
  ASSUME NEW h, History(h), NEW r \in Record, \A s \in h : s.rev # r.rev
  PROVE  History(h \cup {r}) /\ Kept(h, h \cup {r})
<1>1. PICK k \in Nat : \A s \in h : s.rev <= k
  BY DEF History
<1>2. PICK j \in Nat : k <= j /\ r.rev <= j
  <2>1. r.rev \in Nat
    BY DEF Record
  <2> QED BY <2>1
<1>3. \A s \in h \cup {r} : s.rev <= j
  BY <1>1, <1>2 DEF History, Record
<1> QED BY <1>3 DEF History, Kept

LEMMA LessHistory ==
  ASSUME NEW h, History(h), NEW g \in SUBSET h
  PROVE  History(g)
BY DEF History

(* A step of an operation on release n alone.                              *)
LEMMA WorldMoves ==
  ASSUME WorldInv, NEW n \in ReleaseName, NEW h, History(h), Records(n, h),
         NEW c \in Content \cup {Nothing, Torn},
         Lives(n, c) \/ UNCHANGED <<live, owner>>,
         NoFault \/ WFault, others' \in 0 .. MaxOthers
  PROVE  /\ WorldInv' /\ hist'[n] = h
         /\ \A m \in ReleaseName \ {n} : hist'[m] = hist[m] /\ live'[m] = live[m] /\ owner'[m] = owner[m]
         /\ Lives(n, c) => live'[n] = c /\ owner'[n] = n
<1>1. h \in SUBSET Record
  BY DEF History
<1>2. /\ hist' \in [ReleaseName -> SUBSET Record] /\ hist'[n] = h
      /\ \A m \in ReleaseName \ {n} : hist'[m] = hist[m]
  BY <1>1 DEF WorldInv, Records
<1>3. /\ live' \in [ReleaseName -> Content \cup {Nothing, Torn}]
      /\ owner' \in [ReleaseName -> ReleaseName]
      /\ \A m \in ReleaseName \ {n} : live'[m] = live[m] /\ owner'[m] = owner[m]
      /\ Lives(n, c) => live'[n] = c /\ owner'[n] = n
  BY DEF WorldInv, Lives
<1>4. wfaults' \in 0 .. MaxWorldFaults
  BY ReleaseWorldAssumption DEF WorldInv, NoFault, WFault
<1>5. \A m \in ReleaseName : History(hist'[m])
  BY <1>2 DEF WorldInv
<1> QED BY <1>2, <1>3, <1>4, <1>5 DEF WorldInv

(* A step that leaves the releases alone.                                  *)
LEMMA WorldStays ==
  ASSUME WorldInv, UNCHANGED world, NoFault \/ WFault, others' \in 0 .. MaxOthers
  PROVE  WorldInv'
<1>1. wfaults' \in 0 .. MaxWorldFaults
  BY ReleaseWorldAssumption DEF WorldInv, NoFault, WFault
<1> QED BY <1>1 DEF WorldInv, world

(* The history once a new revision is the only one deployed.               *)
Replaced(n, c) == Superseded(hist[n]) \cup {Rec(LastRev(n) + 1, "deployed", c)}

LEMMA ReplacedHistory ==
  ASSUME WorldInv, NEW n \in ReleaseName, NEW c \in Content
  PROVE  /\ History(Replaced(n, c)) /\ Kept(hist[n], Replaced(n, c))
         /\ \A r \in Replaced(n, c) :
              r.status = "deployed" => r = Rec(LastRev(n) + 1, "deployed", c)
<1> DEFINE r == Rec(LastRev(n) + 1, "deployed", c)
           h == Superseded(hist[n])
<1>1. LastRev(n) \in Nat /\ \A s \in hist[n] : s.rev <= LastRev(n)
  BY NewestRecord
<1>2. /\ History(h) /\ Kept(hist[n], h) /\ Kept(h, hist[n])
      /\ \A s \in h : s.status # "deployed"
  BY SupersededHistory DEF WorldInv
<1>3. r \in Record /\ r.rev = LastRev(n) + 1
  BY <1>1, RecTyped DEF WStatus
<1>4. \A s \in h : s.rev # r.rev
  BY <1>1, <1>2, <1>3 DEF Kept
<1>5. Replaced(n, c) = h \cup {r}
  BY DEF Replaced
<1> HIDE DEF h, r
<1>6. History(h \cup {r}) /\ Kept(h, h \cup {r})
  BY <1>2, <1>3, <1>4, AddedHistory
<1>7. Kept(hist[n], h \cup {r})
  BY <1>2, <1>6 DEF Kept
<1> QED BY <1>2, <1>5, <1>6, <1>7 DEF r

(* Upgrade, with or without success: contents stay with their revisions.   *)
LEMMA UpgradeWorld ==
  ASSUME WorldInv, NEW n \in ReleaseName, NEW c \in Content, others' \in 0 .. MaxOthers,
         WUpgradeOk(n, c)
  PROVE  /\ WorldInv' /\ Kept(hist[n], hist'[n])
         /\ hist'[n] = Replaced(n, c) /\ hist[n] # {}
         /\ owner[n] = n /\ live'[n] = c /\ owner' = owner
         /\ \A m \in ReleaseName \ {n} : hist'[m] = hist[m] /\ live'[m] = live[m]
<1>1. History(Replaced(n, c)) /\ Kept(hist[n], Replaced(n, c))
  BY ReplacedHistory
<1>2. Records(n, Replaced(n, c)) /\ Lives(n, c) /\ NoFault /\ owner[n] = n /\ hist[n] # {}
  BY DEF WUpgradeOk, Replaced
<1>3. /\ WorldInv' /\ hist'[n] = Replaced(n, c) /\ live'[n] = c
      /\ \A m \in ReleaseName \ {n} : hist'[m] = hist[m] /\ live'[m] = live[m] /\ owner'[m] = owner[m]
  BY <1>1, <1>2, WorldMoves
<1>4. owner' = owner
  BY <1>2 DEF Lives, WorldInv
<1> QED BY <1>1, <1>2, <1>3, <1>4

LEMMA UpgradeFailsWorld ==
  ASSUME WorldInv, NEW n \in ReleaseName, NEW c \in Content, others' \in 0 .. MaxOthers,
         WUpgradeFails(n, c)
  PROVE  WorldInv' /\ Kept(hist[n], hist'[n]) /\ (hist[n] = {} => UNCHANGED world)
<1>1. CASE UNCHANGED world
  BY <1>1, WorldStays DEF WUpgradeFails, world, Kept
<1>2. CASE /\ hist[n] # {}
           /\ Records(n, (hist[n] \ {Latest(n)}) \cup {[Latest(n) EXCEPT !.status = "deployed"],
                                                        Rec(LastRev(n) + 1, "failed", c)})
           /\ Lives(n, Latest(n).content)
  <2> DEFINE l == Latest(n)
             d == [Latest(n) EXCEPT !.status = "deployed"]
             r == Rec(LastRev(n) + 1, "failed", c)
             g == hist[n] \ {l}
             h == g \cup {d, r}
  <2>1. /\ LastRev(n) \in Nat /\ l \in hist[n] /\ l.rev = LastRev(n) /\ l \in Record
        /\ \A s \in hist[n] : s.rev <= LastRev(n)
    BY <1>2, NewestRecord DEF WorldInv, History
  <2>2. d \in Record /\ d.rev = l.rev /\ d.content = l.content /\ l.content \in Content
    BY <2>1 DEF Record, WStatus
  <2>3. r \in Record /\ r.rev = LastRev(n) + 1
    BY <2>1, RecTyped DEF WStatus
  <2>4. History(g)
    BY LessHistory DEF WorldInv
  <2>5. \A s \in g : s.rev # d.rev
    BY <2>1, <2>2 DEF WorldInv, History
  <2> HIDE DEF d, r
  <2>6. History(g \cup {d})
    BY <2>2, <2>4, <2>5, AddedHistory
  <2>7. \A s \in g \cup {d} : s.rev # r.rev
    BY <2>1, <2>2, <2>3
  <2>8. History((g \cup {d}) \cup {r})
    BY <2>3, <2>6, <2>7, AddedHistory
  <2>9. h = (g \cup {d}) \cup {r}
    OBVIOUS
  <2>10. Kept(hist[n], h)
    BY <2>2 DEF Kept
  <2>11. Records(n, h) /\ Lives(n, l.content)
    BY <1>2 DEF d, r
  <2> HIDE DEF h, l
  <2> QED BY <1>2, <2>2, <2>8, <2>9, <2>10, <2>11, WorldMoves DEF WUpgradeFails
<1> QED BY <1>1, <1>2 DEF WUpgradeFails

(* Install needs a free revision 1 to change anything.                     *)
LEMMA InstallWorld ==
  ASSUME WorldInv, NEW n \in ReleaseName, NEW c \in Content, others' \in 0 .. MaxOthers,
         WInstallOk(n, c)
  PROVE  /\ WorldInv' /\ Kept(hist[n], hist'[n])
         /\ hist'[n] = hist[n] \cup {Rec(1, "deployed", c)}
         /\ 1 \notin Revs(n) /\ live'[n] = c
         /\ \A m \in ReleaseName \ {n} : hist'[m] = hist[m] /\ live'[m] = live[m]
<1> DEFINE r == Rec(1, "deployed", c)
<1>1. r \in Record /\ r.rev = 1
  BY RecTyped DEF WStatus
<1>2. \A s \in hist[n] : s.rev # r.rev
  BY <1>1 DEF WInstallOk, Revs
<1> HIDE DEF r
<1>3. History(hist[n] \cup {r}) /\ Kept(hist[n], hist[n] \cup {r})
  BY <1>1, <1>2, AddedHistory DEF WorldInv
<1>4. Records(n, hist[n] \cup {r}) /\ Lives(n, c) /\ NoFault /\ 1 \notin Revs(n)
  BY DEF WInstallOk, r
<1> QED BY <1>3, <1>4, WorldMoves DEF r

LEMMA InstallFailsWorld ==
  ASSUME WorldInv, NEW n \in ReleaseName, NEW c \in Content, others' \in 0 .. MaxOthers,
         WInstallFails(n, c)
  PROVE  /\ WorldInv' /\ Kept(hist[n], hist'[n])
         /\ \/ UNCHANGED world
            \/ /\ hist'[n] = hist[n] \cup {Rec(1, "failed", c)}
               /\ 1 \notin Revs(n) /\ live'[n] = Nothing
               /\ \A m \in ReleaseName \ {n} : hist'[m] = hist[m] /\ live'[m] = live[m]
<1> DEFINE r == Rec(1, "failed", c)
<1>1. CASE UNCHANGED world
  BY <1>1, WorldStays DEF WInstallFails, world, Kept
<1>2. CASE WFault /\ 1 \notin Revs(n) /\ Records(n, hist[n] \cup {r}) /\ Lives(n, Nothing)
  <2>1. r \in Record /\ r.rev = 1
    BY RecTyped DEF WStatus
  <2>2. \A s \in hist[n] : s.rev # r.rev
    BY <1>2, <2>1 DEF Revs
  <2> HIDE DEF r
  <2>3. History(hist[n] \cup {r}) /\ Kept(hist[n], hist[n] \cup {r})
    BY <2>1, <2>2, AddedHistory DEF WorldInv
  <2> QED BY <1>2, <2>3, WorldMoves DEF r
<1> QED BY <1>1, <1>2 DEF WInstallFails

(* A revision that is stored is one record.                                *)
LEMMA RecordStored ==
  ASSUME WorldInv, NEW n \in ReleaseName, NEW rev \in Revs(n)
  PROVE  /\ RecordOf(hist[n], rev) \in hist[n] /\ RecordOf(hist[n], rev).rev = rev
         /\ RecordOf(hist[n], rev).content \in Content
<1>1. RecordOf(hist[n], rev) \in hist[n] /\ RecordOf(hist[n], rev).rev = rev
  BY DEF RecordOf, Revs
<1> QED BY <1>1 DEF WorldInv, Record

(* Rollback to a revision, with or without success.                        *)
LEMMA RollbackWorld ==
  ASSUME WorldInv, NEW n \in ReleaseName, NEW rev, others' \in 0 .. MaxOthers,
         WRollbackOk(n, rev)
  PROVE  /\ WorldInv' /\ rev \in Revs(n)
         /\ hist'[n] = Replaced(n, RecordOf(hist[n], rev).content)
         /\ live'[n] = RecordOf(hist[n], rev).content
<1> DEFINE c == RecordOf(hist[n], rev).content
<1>1. rev \in Revs(n) /\ Records(n, Replaced(n, c)) /\ Lives(n, c) /\ NoFault
  BY DEF WRollbackOk, Replaced
<1>2. c \in Content
  BY <1>1, RecordStored
<1> HIDE DEF c
<1>3. History(Replaced(n, c))
  BY <1>2, ReplacedHistory
<1>4. WorldInv' /\ hist'[n] = Replaced(n, c) /\ live'[n] = c
  BY <1>1, <1>2, <1>3, WorldMoves
<1> QED BY <1>1, <1>4 DEF c

LEMMA RollbackFailsWorld ==
  ASSUME WorldInv, NEW n \in ReleaseName, NEW rev, others' \in 0 .. MaxOthers,
         WRollbackFails(n, rev)
  PROVE  WorldInv'
<1> DEFINE c == RecordOf(hist[n], rev).content
           r == Rec(LastRev(n) + 1, "failed", c)
<1>1. CASE UNCHANGED world
  BY <1>1, WorldStays DEF WRollbackFails
<1>2. CASE WFault /\ rev \in Revs(n) /\ Records(n, hist[n] \cup {r}) /\ Lives(n, Torn)
  <2>1. c \in Content
    BY <1>2, RecordStored
  <2>2. LastRev(n) \in Nat /\ \A s \in hist[n] : s.rev <= LastRev(n)
    BY NewestRecord
  <2>3. r \in Record /\ r.rev = LastRev(n) + 1
    BY <2>1, <2>2, RecTyped DEF WStatus
  <2>4. \A s \in hist[n] : s.rev # r.rev
    BY <2>2, <2>3
  <2> HIDE DEF r
  <2>5. History(hist[n] \cup {r})
    BY <2>3, <2>4, AddedHistory DEF WorldInv
  <2> QED BY <1>2, <2>5, WorldMoves
<1> QED BY <1>1, <1>2 DEF WRollbackFails

(* Uninstall, with or without success.                                     *)
LEMMA UninstallWorld ==
  ASSUME WorldInv, NEW n \in ReleaseName, others' \in 0 .. MaxOthers,
         WUninstallOk(n)
  PROVE  /\ WorldInv' /\ hist'[n] = {} /\ live'[n] = Nothing
         /\ \A m \in ReleaseName \ {n} : hist'[m] = hist[m] /\ live'[m] = live[m]
<1>1. History({})
  BY DEF History
<1> QED BY <1>1, WorldMoves DEF WUninstallOk

LEMMA UninstallFailsWorld ==
  ASSUME WorldInv, NEW n \in ReleaseName, others' \in 0 .. MaxOthers,
         WUninstallFails(n)
  PROVE  /\ WorldInv' /\ hist' = hist
         /\ \A m \in ReleaseName \ {n} : live'[m] = live[m]
<1>1. CASE UNCHANGED world
  BY <1>1, WorldStays DEF WUninstallFails, world
<1>2. CASE WFault /\ Lives(n, Torn) /\ UNCHANGED hist
  <2>1. Records(n, hist[n]) /\ History(hist[n])
    BY <1>2 DEF Records, WorldInv
  <2> QED BY <1>2, <2>1, WorldMoves
<1> QED BY <1>1, <1>2 DEF WUninstallFails

(* The calls on the store.                                                 *)
LEMMA CreateWorld ==
  ASSUME WorldInv, NEW n \in ReleaseName, NEW r \in Record, others' \in 0 .. MaxOthers,
         WCreateOk(n, r)
  PROVE  /\ WorldInv' /\ hist'[n] = hist[n] \cup {r} /\ r.rev \notin Revs(n)
         /\ UNCHANGED <<live, owner>>
         /\ \A m \in ReleaseName \ {n} : hist'[m] = hist[m]
<1>1. \A s \in hist[n] : s.rev # r.rev
  BY DEF WCreateOk, Revs
<1>2. History(hist[n] \cup {r})
  BY <1>1, AddedHistory DEF WorldInv
<1> QED BY <1>2, WorldMoves DEF WCreateOk

LEMMA CreateFailsWorld ==
  ASSUME WorldInv, NEW n \in ReleaseName, NEW r \in Record, others' \in 0 .. MaxOthers,
         WCreateFails(n, r)
  PROVE  /\ WorldInv' /\ hist'[n] \in {hist[n], hist[n] \cup {r}}
         /\ UNCHANGED <<live, owner>>
         /\ \A m \in ReleaseName \ {n} : hist'[m] = hist[m]
<1>1. CASE UNCHANGED world
  BY <1>1, WorldStays DEF WCreateFails, world
<1>2. CASE WFault /\ r.rev \notin Revs(n) /\ Records(n, hist[n] \cup {r}) /\ UNCHANGED <<live, owner>>
  <2>1. \A s \in hist[n] : s.rev # r.rev
    BY <1>2 DEF Revs
  <2>2. History(hist[n] \cup {r})
    BY <2>1, AddedHistory DEF WorldInv
  <2> QED BY <1>2, <2>2, WorldMoves
<1> QED BY <1>1, <1>2 DEF WCreateFails

LEMMA DeleteWorld ==
  ASSUME WorldInv, NEW n \in ReleaseName, NEW rev, others' \in 0 .. MaxOthers,
         WDeleteOk(n, rev) \/ WDeleteFails(n, rev)
  PROVE  /\ WorldInv' /\ UNCHANGED <<live, owner>>
         /\ hist'[n] = {r \in hist[n] : r.rev # rev} \/ (WDeleteFails(n, rev) /\ hist'[n] = hist[n])
         /\ \A m \in ReleaseName \ {n} : hist'[m] = hist[m]
<1> DEFINE h == {r \in hist[n] : r.rev # rev}
<1>1. History(h)
  <2>1. h \in SUBSET hist[n]
    OBVIOUS
  <2> HIDE DEF h
  <2> QED BY <2>1, LessHistory DEF WorldInv
<1>2. CASE hist' = hist /\ WDeleteFails(n, rev)
  BY <1>2, WorldStays DEF WDeleteFails, world
<1>3. CASE Records(n, h) /\ (NoFault \/ WFault)
  BY <1>1, <1>3, WorldMoves DEF WDeleteOk, WDeleteFails
<1> QED BY <1>2, <1>3 DEF WDeleteOk, WDeleteFails, Records

(* The upgrades of others.                                                 *)
LEMMA OthersWorld ==
  ASSUME WorldInv, OthersStep
  PROVE  /\ WorldInv' /\ UNCHANGED <<job, owner>> /\ others' < others /\ job.pc \notin Ended
         /\ \A n \in ReleaseName : Kept(hist[n], hist'[n])
         /\ \A n \in ReleaseName :
              hist'[n] = hist[n] \/ (\E c \in Content : owner[n] = n /\ hist'[n] = Replaced(n, c))
<1>1. PICK n \in ReleaseName, c \in Content : OtherUpgrade(n, c)
  BY DEF OthersStep
<1>2. others > 0 /\ others' = others - 1 /\ WUpgradeOk(n, c) /\ UNCHANGED job /\ job.pc \notin Ended
  BY <1>1 DEF OtherUpgrade, OthersStep
<1>3. others' \in 0 .. MaxOthers /\ others' < others
  BY <1>2, ReleaseWorldAssumption DEF WorldInv
<1>4. /\ WorldInv' /\ Kept(hist[n], hist'[n]) /\ hist'[n] = Replaced(n, c)
      /\ owner[n] = n /\ owner' = owner /\ \A m \in ReleaseName \ {n} : hist'[m] = hist[m]
  BY <1>2, <1>3, UpgradeWorld
<1>5. \A m \in ReleaseName : Kept(hist[m], hist'[m])
  BY <1>4 DEF Kept
<1> QED BY <1>2, <1>3, <1>4, <1>5

-----------------------------------------------------------------------------
(* canary.                                                                 *)

CanaryFields == {"cmd", "pc", "stage", "base", "blind", "before", "alone", "clean"}

(* The revision to go back to holds what was live before the first stage,  *)
(* or what the first stage made of a release that was not there.           *)
Baseline ==
    IF job.base = 0 THEN job.stage = 1 /\ job.before = Nothing
    ELSE \E r \in hist[Canaried] :
            /\ r.rev = job.base
            /\ job.clean => r.content = job.before \/ (job.before = Nothing /\ r.content = Stages[1])

CanaryInv ==
    /\ WorldInv /\ Fields(job, CanaryFields) /\ job.cmd = "canary"
    /\ job.pc \in {"begin", "stage", "bake", "recover"} \cup Ended
    /\ job.stage \in 1 .. Len(Stages) /\ job.base \in Nat /\ job.blind \in BOOLEAN
    /\ job.alone \in Nat /\ others <= job.alone
    /\ job.pc = "bake" => job.stage < Len(Stages)
    /\ CanaryAlone /\ ~job.blind =>
         /\ job.pc = "begin" => /\ Sound(hist[Canaried], live[Canaried])
                                /\ job.stage = 1 /\ job.before = live[Canaried]
                                /\ job.clean <=> hist[Canaried] = {} \/ Latest(Canaried).status = "deployed"
         /\ job.pc \in {"stage", "bake", "recover"} => Baseline
         /\ job.pc = "bake" => job.base # 0
    /\ CanaryGoesBack

(* The first state of a canary.                                            *)
LEMMA InitCanary ==
  ASSUME WorldInit, job = CanaryJob("begin")
  PROVE  CanaryInv
<1>1. WorldInv
  BY InitWorld
<1>2. /\ Fields(job, CanaryFields) /\ job.cmd = "canary" /\ job.pc = "begin" /\ job.stage = 1
      /\ job.base = 0 /\ ~job.blind /\ job.blind \in BOOLEAN /\ job.alone = others
      /\ job.before = live[Canaried]
      /\ job.clean <=> hist[Canaried] = {} \/ Latest(Canaried).status = "deployed"
  BY DEF CanaryJob, Fields, CanaryFields
<1>3. others \in Nat /\ 1 \in 1 .. Len(Stages)
  BY <1>1, CanaryAssumption, ReleaseWorldAssumption DEF WorldInv
<1>4. Sound(hist[Canaried], live[Canaried])
  BY CanaryAssumption DEF WorldInit
<1> QED BY <1>1, <1>2, <1>3, <1>4 DEF CanaryInv, CanaryGoesBack, CanaryAlone

(* An upgrade by others: the canary is not alone from then on.             *)
LEMMA OthersCanary ==
  ASSUME CanaryInv, OthersStep
  PROVE  CanaryInv'
<1>1. WorldInv' /\ job' = job /\ others' < others /\ job.pc \notin Ended
  BY OthersWorld DEF CanaryInv
<1>2. others \in Nat /\ others' \in Nat
  BY <1>1, ReleaseWorldAssumption DEF CanaryInv, WorldInv
<1>3. others' <= job.alone /\ ~CanaryAlone'
  BY <1>1, <1>2 DEF CanaryInv, CanaryAlone
<1>4. CanaryGoesBack'
  BY <1>3 DEF CanaryGoesBack
<1> QED BY <1>1, <1>3, <1>4 DEF CanaryInv, Fields

(* A step of the canary's own.                                             *)
LEMMA StepCanary ==
  ASSUME CanaryInv, WorldInv', others' = others, Fields(job', CanaryFields),
         job'.cmd = "canary", job'.alone = job.alone, job'.clean = job.clean, job'.before = job.before,
         job'.pc \in {"stage", "bake", "recover"} \cup Ended,
         job'.stage \in 1 .. Len(Stages), job'.base \in Nat, job'.blind \in BOOLEAN,
         job'.pc = "bake" => job'.stage < Len(Stages),
         CanaryAlone /\ ~job'.blind =>
            /\ job'.pc \in {"stage", "bake", "recover"} => Baseline'
            /\ job'.pc = "bake" => job'.base # 0
            /\ job'.pc = "restored" => CanaryGoesBack'
  PROVE  CanaryInv'
<1>1. CanaryAlone' <=> CanaryAlone
  BY DEF CanaryAlone
<1>2. CanaryGoesBack'
  BY <1>1 DEF CanaryGoesBack
<1> QED BY <1>1, <1>2 DEF CanaryInv, Ended

(* The baseline is read, or its reading fails.                             *)
LEMMA BeginCanary ==
  ASSUME CanaryInv, CanaryBegin
  PROVE  CanaryInv'
<1>1. WorldInv /\ Fields(job, CanaryFields) /\ others \in 0 .. MaxOthers /\ Canaried \in ReleaseName
  BY CanaryAssumption DEF CanaryInv, WorldInv
<1>2. WorldInv' /\ others' = others /\ hist' = hist /\ live' = live
  BY <1>1, WorldStays DEF CanaryBegin, world
<1>3. /\ Fields(job', CanaryFields) /\ job'.cmd = "canary" /\ job'.alone = job.alone
      /\ job'.clean = job.clean /\ job'.before = job.before /\ job'.pc = "stage"
      /\ job'.stage = job.stage
      /\ \/ job'.blind = TRUE /\ job'.base = job.base
         \/ job'.blind = job.blind /\ job'.base = LastRev(Canaried)
  BY <1>1 DEF CanaryBegin, CanaryInv, Fields, CanaryFields
<1>4. /\ LastRev(Canaried) \in Nat
      /\ hist[Canaried] = {} => LastRev(Canaried) = 0
      /\ hist[Canaried] # {} => /\ Latest(Canaried) \in hist[Canaried]
                                /\ Latest(Canaried).rev = LastRev(Canaried) /\ LastRev(Canaried) # 0
                                /\ \A s \in hist[Canaried] : s.rev <= Latest(Canaried).rev
  BY <1>1, NewestRecord DEF LastRev
<1>5. ASSUME CanaryAlone, ~job'.blind PROVE Baseline'
  <2>1. /\ Sound(hist[Canaried], live[Canaried]) /\ job.stage = 1 /\ job.before = live[Canaried]
        /\ job.clean <=> hist[Canaried] = {} \/ Latest(Canaried).status = "deployed"
    BY <1>3, <1>5 DEF CanaryInv, CanaryBegin
  <2>2. job'.base = LastRev(Canaried)
    BY <1>3, <1>5
  <2>3. CASE hist[Canaried] = {}
    BY <1>2, <1>3, <1>4, <2>1, <2>2, <2>3 DEF Baseline, Sound
  <2>4. CASE hist[Canaried] # {}
    <3>1. job.clean => Latest(Canaried).content = job.before
      BY <1>4, <2>1, <2>4 DEF Sound
    <3> QED BY <1>2, <1>3, <1>4, <2>2, <2>4, <3>1 DEF Baseline
  <2> QED BY <2>3, <2>4
<1>6. job'.stage \in 1 .. Len(Stages) /\ job'.base \in Nat /\ job'.blind \in BOOLEAN
  BY <1>3, <1>4 DEF CanaryInv
<1> QED BY <1>2, <1>3, <1>5, <1>6, StepCanary

(* A stage.  What the baseline is stays where it is.                       *)
LEMMA StageCanary ==
  ASSUME CanaryInv, CanaryStage
  PROVE  CanaryInv'
<1>1. /\ WorldInv /\ Fields(job, CanaryFields) /\ others' \in 0 .. MaxOthers /\ others' = others
      /\ Canaried \in ReleaseName /\ job.pc = "stage" /\ job.stage \in 1 .. Len(Stages) /\ job.base \in Nat
      /\ Len(Stages) \in Nat
  BY CanaryAssumption DEF CanaryInv, WorldInv, CanaryStage
<1> DEFINE c == Stages[job.stage]
<1>2. c \in Content
  BY <1>1, CanaryAssumption
<1>3. LastRev(Canaried) \in Nat /\ (hist[Canaried] = {} => LastRev(Canaried) = 0)
  BY <1>1, NewestRecord DEF LastRev
<1>4. CASE StageOk(c) /\ job' = [job EXCEPT !.base = BaselineAfter,
                                            !.pc = IF job.stage = Len(Stages) THEN "ok" ELSE "bake"]
  <2>1. /\ Fields(job', CanaryFields) /\ job'.cmd = "canary" /\ job'.alone = job.alone
        /\ job'.clean = job.clean /\ job'.before = job.before /\ job'.stage = job.stage
        /\ job'.blind = job.blind /\ job'.base = BaselineAfter
        /\ job'.pc = IF job.stage = Len(Stages) THEN "ok" ELSE "bake"
    BY <1>1, <1>4 DEF CanaryInv, Fields, CanaryFields
  <2>2. BaselineAfter \in Nat \ {0} /\ (job.base # 0 => BaselineAfter = job.base)
        /\ (job.base = 0 => BaselineAfter = LastRev(Canaried) + 1)
    BY <1>1, <1>3 DEF BaselineAfter
  <2>3. /\ WorldInv' /\ Kept(hist[Canaried], hist'[Canaried])
        /\ \E r \in hist'[Canaried] : r.rev = LastRev(Canaried) + 1 /\ r.content = c
    <3>1. CASE WUpgradeOk(Canaried, c)
      <4>1. WorldInv' /\ Kept(hist[Canaried], hist'[Canaried]) /\ hist'[Canaried] = Replaced(Canaried, c)
        BY <1>1, <1>2, <3>1, UpgradeWorld
      <4>2. Rec(LastRev(Canaried) + 1, "deployed", c) \in hist'[Canaried]
        BY <4>1 DEF Replaced
      <4>3. /\ Rec(LastRev(Canaried) + 1, "deployed", c).rev = LastRev(Canaried) + 1
            /\ Rec(LastRev(Canaried) + 1, "deployed", c).content = c
        BY DEF Rec
      <4> QED BY <4>1, <4>2, <4>3
    <3>2. CASE hist[Canaried] = {} /\ WInstallOk(Canaried, c)
      <4>1. /\ WorldInv' /\ Kept(hist[Canaried], hist'[Canaried])
            /\ hist'[Canaried] = hist[Canaried] \cup {Rec(1, "deployed", c)}
        BY <1>1, <1>2, <3>2, InstallWorld
      <4> QED BY <1>3, <3>2, <4>1 DEF Rec
    <3> QED BY <1>4, <3>1, <3>2 DEF StageOk
  <2>4. ASSUME CanaryAlone, ~job.blind PROVE Baseline'
    <3>1. Baseline
      BY <1>1, <2>4 DEF CanaryInv
    <3>2. CASE job.base = 0
      <4>1. job.before = Nothing /\ c = Stages[1]
        BY <3>1, <3>2 DEF Baseline
      <4> QED BY <2>1, <2>2, <2>3, <3>2, <4>1 DEF Baseline
    <3>3. CASE job.base # 0
      <4>1. PICK r \in hist[Canaried] :
              /\ r.rev = job.base
              /\ job.clean => r.content = job.before \/ (job.before = Nothing /\ r.content = Stages[1])
        BY <3>1, <3>3 DEF Baseline
      <4>2. PICK s \in hist'[Canaried] : s.rev = r.rev /\ s.content = r.content
        BY <2>3 DEF Kept
      <4> QED BY <2>1, <2>2, <3>3, <4>1, <4>2 DEF Baseline
    <3> QED BY <3>2, <3>3
  <2>5. /\ job'.stage \in 1 .. Len(Stages) /\ job'.base \in Nat /\ job'.base # 0 /\ job'.blind \in BOOLEAN
        /\ job'.pc \in {"ok", "bake"} /\ (job'.pc = "bake" => job'.stage < Len(Stages))
    BY <1>1, <2>1, <2>2 DEF CanaryInv
  <2> HIDE DEF c
  <2> QED BY <1>1, <2>1, <2>3, <2>4, <2>5, StepCanary DEF Ended
<1>5. CASE StageFails(c) /\ job' = [job EXCEPT !.pc = "recover"]
  <2>1. /\ Fields(job', CanaryFields) /\ job'.cmd = "canary" /\ job'.alone = job.alone
        /\ job'.clean = job.clean /\ job'.before = job.before /\ job'.stage = job.stage
        /\ job'.blind = job.blind /\ job'.base = job.base /\ job'.pc = "recover"
    BY <1>1, <1>5 DEF CanaryInv, Fields, CanaryFields
  <2>2. WorldInv' /\ Kept(hist[Canaried], hist'[Canaried])
    <3>1. CASE WUpgradeFails(Canaried, c)
      BY <1>1, <1>2, <3>1, UpgradeFailsWorld
    <3>2. CASE UNCHANGED world /\ NoFault
      BY <1>1, <3>2, WorldStays DEF world, Kept
    <3>3. CASE WInstallFails(Canaried, c)
      BY <1>1, <1>2, <3>3, InstallFailsWorld
    <3> QED BY <1>5, <3>1, <3>2, <3>3 DEF StageFails
  <2>3. ASSUME CanaryAlone, ~job.blind PROVE Baseline'
    <3>1. Baseline
      BY <1>1, <2>3 DEF CanaryInv
    <3>2. CASE job.base = 0
      BY <2>1, <3>1, <3>2 DEF Baseline
    <3>3. CASE job.base # 0
      <4>1. PICK r \in hist[Canaried] :
              /\ r.rev = job.base
              /\ job.clean => r.content = job.before \/ (job.before = Nothing /\ r.content = Stages[1])
        BY <3>1, <3>3 DEF Baseline
      <4>2. PICK s \in hist'[Canaried] : s.rev = r.rev /\ s.content = r.content
        BY <2>2 DEF Kept
      <4> QED BY <2>1, <3>3, <4>1, <4>2 DEF Baseline
    <3> QED BY <3>2, <3>3
  <2>4. job'.stage \in 1 .. Len(Stages) /\ job'.base \in Nat /\ job'.blind \in BOOLEAN
    BY <1>1, <2>1 DEF CanaryInv
  <2> QED BY <1>1, <2>1, <2>2, <2>3, <2>4, StepCanary
<1> QED BY <1>4, <1>5 DEF CanaryStage

(* The pause before the next stage.                                        *)
LEMMA BakeCanary ==
  ASSUME CanaryInv, CanaryBake
  PROVE  CanaryInv'
<1>1. /\ WorldInv /\ Fields(job, CanaryFields) /\ others \in 0 .. MaxOthers
      /\ job.pc = "bake" /\ job.stage \in 1 .. Len(Stages) /\ job.stage < Len(Stages)
  BY DEF CanaryInv, WorldInv, CanaryBake
<1>2. WorldInv' /\ others' = others /\ hist' = hist /\ live' = live
  BY <1>1, WorldStays DEF CanaryBake, world
<1>3. /\ Fields(job', CanaryFields) /\ job'.cmd = "canary" /\ job'.alone = job.alone
      /\ job'.clean = job.clean /\ job'.before = job.before /\ job'.blind = job.blind
      /\ job'.base = job.base
      /\ \/ job'.pc = "stage" /\ job'.stage = job.stage + 1
         \/ job'.pc = "aborted" /\ job'.stage = job.stage
  BY <1>1 DEF CanaryBake, CanaryInv, Fields, CanaryFields
<1>4. ASSUME CanaryAlone, ~job.blind PROVE Baseline'
  BY <1>1, <1>2, <1>3, <1>4 DEF CanaryInv, Baseline
<1>5. job'.stage \in 1 .. Len(Stages) /\ job'.base \in Nat /\ job'.blind \in BOOLEAN
  BY <1>1, <1>3, CanaryAssumption DEF CanaryInv
<1> QED BY <1>2, <1>3, <1>4, <1>5, StepCanary DEF Ended

(* Back to the baseline: one deployed revision, with its content live; or  *)
(* nothing, when there was nothing.                                        *)
LEMMA RecoverCanary ==
  ASSUME CanaryInv, CanaryRecover
  PROVE  CanaryInv'
<1>1. /\ WorldInv /\ Fields(job, CanaryFields) /\ others' \in 0 .. MaxOthers /\ others' = others
      /\ Canaried \in ReleaseName /\ job.pc = "recover" /\ job.stage \in 1 .. Len(Stages)
      /\ job.base \in Nat /\ job.blind \in BOOLEAN
  BY CanaryAssumption DEF CanaryInv, WorldInv, CanaryRecover
<1>2. /\ Fields(job', CanaryFields) /\ job'.cmd = "canary" /\ job'.alone = job.alone
      /\ job'.clean = job.clean /\ job'.before = job.before /\ job'.blind = job.blind
      /\ job'.base = job.base /\ job'.stage = job.stage /\ job'.pc \in {"restored", "broken"}
      /\ job'.pc = "restored" =>
           IF job.base > 0 THEN WRollbackOk(Canaried, job.base) ELSE WUninstallOk(Canaried)
      /\ job'.pc = "broken" =>
           IF job.base > 0 THEN WRollbackFails(Canaried, job.base) ELSE WUninstallFails(Canaried)
  BY <1>1 DEF CanaryRecover, CanaryInv, Fields, CanaryFields
<1>3. WorldInv'
  BY <1>1, <1>2, RollbackWorld, RollbackFailsWorld, UninstallWorld, UninstallFailsWorld
<1>4. ASSUME CanaryAlone, ~job.blind, job'.pc = "restored" PROVE CanaryGoesBack'
  <2>1. Baseline
    BY <1>1, <1>4 DEF CanaryInv
  <2>2. CASE job.base > 0
    <3> DEFINE r == RecordOf(hist[Canaried], job.base)
    <3>1. /\ job.base \in Revs(Canaried) /\ live'[Canaried] = r.content
          /\ hist'[Canaried] = Replaced(Canaried, r.content)
      BY <1>1, <1>2, <1>4, <2>2, RollbackWorld
    <3>2. r \in hist[Canaried] /\ r.rev = job.base /\ r.content \in Content
      BY <1>1, <3>1, RecordStored
    <3>3. PICK s \in hist[Canaried] :
            /\ s.rev = job.base
            /\ job.clean => s.content = job.before \/ (job.before = Nothing /\ s.content = Stages[1])
      BY <1>1, <2>1, <2>2 DEF Baseline
    <3>4. s = r
      BY <1>1, <3>2, <3>3 DEF WorldInv, History
    <3> DEFINE d == Rec(LastRev(Canaried) + 1, "deployed", r.content)
    <3>5. d \in hist'[Canaried] /\ d.status = "deployed"
      BY <3>1 DEF Replaced, Rec
    <3>6. \A x \in hist'[Canaried] : x.status = "deployed" => x = d
      BY <1>1, <3>1, <3>2, ReplacedHistory
    <3> HIDE DEF d
    <3>7. DeployedOf(Canaried)' = {d}
      BY <3>5, <3>6 DEF DeployedOf
    <3>8. Cardinality(DeployedOf(Canaried)') <= 1
      BY <3>7, FS_Singleton
    <3> QED BY <1>2, <3>1, <3>3, <3>4, <3>8 DEF CanaryGoesBack
  <2>3. CASE ~(job.base > 0)
    <3>1. hist'[Canaried] = {} /\ live'[Canaried] = Nothing
      BY <1>1, <1>2, <1>4, <2>3, UninstallWorld
    <3>2. DeployedOf(Canaried)' = {}
      BY <3>1 DEF DeployedOf
    <3>3. Cardinality(DeployedOf(Canaried)') <= 1
      BY <3>2, FS_EmptySet
    <3>4. job.before = Nothing
      BY <1>1, <2>1, <2>3 DEF Baseline
    <3> QED BY <1>2, <3>1, <3>3, <3>4 DEF CanaryGoesBack
  <2> QED BY <2>2, <2>3
<1> QED BY <1>1, <1>2, <1>3, <1>4, StepCanary DEF Ended

(* Every step of a canary.                                                 *)
LEMMA NextCanary ==
  ASSUME CanaryInv, [CanaryStep \/ OthersStep]_worldVars
  PROVE  CanaryInv'
<1>1. CASE UNCHANGED worldVars
  <2>1. /\ hist' = hist /\ live' = live /\ owner' = owner /\ wfaults' = wfaults
        /\ others' = others /\ job' = job
    BY <1>1 DEF worldVars, world
  <2>2. WorldInv' /\ (CanaryAlone' <=> CanaryAlone) /\ (Baseline' <=> Baseline)
    BY <2>1 DEF CanaryInv, WorldInv, CanaryAlone, Baseline
  <2>3. CanaryGoesBack' /\ Latest(Canaried)' = Latest(Canaried)
    BY <2>1 DEF CanaryInv, CanaryGoesBack, CanaryAlone, DeployedOf, Latest
  <2> QED BY <2>1, <2>2, <2>3 DEF CanaryInv, Fields
<1>2. CASE CanaryStep
  BY <1>2, BeginCanary, StageCanary, BakeCanary, RecoverCanary DEF CanaryStep
<1>3. CASE OthersStep
  BY <1>3, OthersCanary
<1> QED BY <1>1, <1>2, <1>3

(* What holds in every state of a canary.                                  *)
LEMMA CanaryInvariant == CanarySpec => []CanaryInv
<1>1. WorldInit /\ job = CanaryJob("begin") => CanaryInv
  BY InitCanary
<1>2. CanaryInv /\ [CanaryStep \/ OthersStep]_worldVars => CanaryInv'
  BY NextCanary
<1> QED BY <1>1, <1>2, PTL DEF CanarySpec

(* canary.go: a failed stage leaves what was live before the first one.    *)
THEOREM CanaryRestores == CanarySpec => []CanaryGoesBack
<1>1. CanaryInv => CanaryGoesBack
  BY DEF CanaryInv
<1> QED BY <1>1, CanaryInvariant, PTL

-----------------------------------------------------------------------------
(* rename.                                                                 *)

RenameFields == {"cmd", "pc", "keepOld", "read", "todo", "copied", "had"}

(* What was read stays under the old name until the objects carry the new  *)
(* one; by then the new name has it all.  What is undone is only what this *)
(* command has put there.                                                  *)
RenameInv ==
    /\ WorldInv /\ Fields(job, RenameFields) /\ job.keepOld \in BOOLEAN
    /\ job.read \subseteq Record /\ job.todo \subseteq Record /\ job.copied \subseteq Record
    /\ owner[From] \in {From, To} /\ (job.pc = "begin" => job.copied = {})
    /\ Kept(job.had, hist[To])
    /\ owner[From] = From => Kept(job.read, hist[From])
    /\ owner[From] = To => Kept(job.read, hist[To])
    /\ job.pc \in {"begin", "copy", "uncopy", "stamp"} => owner[From] = From
    /\ job.pc \in {"delete", "ok"} => owner[From] = To
    /\ job.pc \in {"copy", "uncopy"} =>
         \A r \in job.had : \A s \in (IF job.pc = "copy" THEN job.copied ELSE job.todo) : r.rev # s.rev
    /\ job.pc = "copy" => job.read = job.todo \cup job.copied /\ Kept(job.copied, hist[To])
    /\ job.pc = "stamp" => Kept(job.read, hist[To])
    /\ job.pc \in {"delete", "ok"} /\ ~job.keepOld =>
         \A r \in job.read, s \in hist[From] :
            r.rev = s.rev /\ r.content = s.content => job.pc = "delete" /\ r \in job.todo
    /\ job.pc = "delete" => ~job.keepOld /\ job.todo \subseteq job.read

(* The first state of a rename.                                            *)
LEMMA InitRename ==
  ASSUME WorldInit, NEW keepOld \in BOOLEAN, job = RenameJob(keepOld)
  PROVE  RenameInv
<1>1. WorldInv
  BY InitWorld
<1>2. Fields(job, RenameFields)
  BY DEF RenameJob, Fields, RenameFields
<1>3. /\ job.pc = "begin" /\ job.keepOld = keepOld /\ job.read = {} /\ job.todo = {} /\ job.copied = {}
      /\ job.had = hist[To]
  BY DEF RenameJob
<1>4. owner[From] = From
  BY HistoryAssumption DEF WorldInit
<1> QED BY <1>1, <1>2, <1>3, <1>4, HistoryAssumption DEF RenameInv, Kept

(* What is kept stays kept.                                                *)
LEMMA KeptOn ==
  ASSUME NEW f, NEW g, NEW h, Kept(f, g), Kept(g, h)
  PROVE  Kept(f, h)
BY DEF Kept

(* Upgrades by others, under the old name only until it is stamped.        *)
LEMMA OthersRename ==
  ASSUME RenameInv, OthersStep
  PROVE  RenameInv'
<1>1. /\ WorldInv' /\ job' = job /\ owner' = owner /\ job.pc \notin Ended
      /\ \A n \in ReleaseName : Kept(hist[n], hist'[n])
      /\ owner[From] = To => hist'[From] = hist[From]
  BY OthersWorld, HistoryAssumption DEF RenameInv
<1>2. Kept(hist[From], hist'[From]) /\ Kept(hist[To], hist'[To])
  BY <1>1, HistoryAssumption
<1>3. \A x : /\ Kept(x, hist[From]) => Kept(x, hist'[From])
             /\ Kept(x, hist[To]) => Kept(x, hist'[To])
  BY <1>2, KeptOn
<1>4. /\ Kept(job.had, hist'[To])
      /\ owner[From] = From => Kept(job.read, hist'[From])
      /\ owner[From] = To => Kept(job.read, hist'[To])
      /\ job.pc = "copy" => Kept(job.copied, hist'[To])
      /\ job.pc = "stamp" => Kept(job.read, hist'[To])
  BY <1>3 DEF RenameInv
<1> QED BY <1>1, <1>4 DEF RenameInv, Fields, Ended

(* Both histories are read.                                                *)
LEMMA BeginRename ==
  ASSUME RenameInv, RenameBegin
  PROVE  RenameInv'
<1>1. /\ WorldInv /\ Fields(job, RenameFields) /\ others \in 0 .. MaxOthers /\ job.pc = "begin"
      /\ hist[From] \subseteq Record /\ owner[From] = From /\ From # To
  BY HistoryAssumption DEF RenameInv, WorldInv, RenameBegin
<1>2. WorldInv' /\ hist' = hist /\ owner' = owner
  BY <1>1, WorldStays DEF RenameBegin, world
<1>3. CASE job' = [job EXCEPT !.pc = "copy", !.read = hist[From], !.todo = hist[From]]
  <2>1. /\ Fields(job', RenameFields) /\ job'.pc = "copy" /\ job'.read = hist[From]
        /\ job'.todo = hist[From] /\ job'.copied = job.copied /\ job'.had = job.had
        /\ job'.keepOld = job.keepOld
    BY <1>1, <1>3 DEF Fields, RenameFields
  <2> QED BY <1>1, <1>2, <2>1 DEF RenameInv, Kept
<1>4. CASE job' = [job EXCEPT !.pc = "refused"]
  <2>1. /\ Fields(job', RenameFields) /\ job'.pc = "refused" /\ job'.read = job.read
        /\ job'.todo = job.todo /\ job'.copied = job.copied /\ job'.had = job.had
        /\ job'.keepOld = job.keepOld
    BY <1>1, <1>4 DEF Fields, RenameFields
  <2> QED BY <1>1, <1>2, <2>1 DEF RenameInv
<1> QED BY <1>3, <1>4 DEF RenameBegin

(* A record is copied, or the copies are undone.                           *)
LEMMA CopyRename ==
  ASSUME RenameInv, RenameCopy
  PROVE  RenameInv'
<1>1. /\ WorldInv /\ Fields(job, RenameFields) /\ others' \in 0 .. MaxOthers /\ job.pc = "copy"
      /\ From \in ReleaseName /\ To \in ReleaseName /\ From # To /\ owner[From] = From
      /\ Kept(job.read, hist[From]) /\ Kept(job.copied, hist[To]) /\ Kept(job.had, hist[To])
      /\ job.read = job.todo \cup job.copied /\ job.copied \subseteq Record
      /\ job.todo \subseteq Record
  BY HistoryAssumption DEF RenameInv, WorldInv, RenameCopy
<1>2. CASE job.todo = {} /\ job' = [job EXCEPT !.pc = "stamp"] /\ UNCHANGED world /\ NoFault
  <2>1. /\ Fields(job', RenameFields) /\ job'.pc = "stamp" /\ job'.read = job.read
        /\ job'.todo = job.todo /\ job'.copied = job.copied /\ job'.had = job.had
        /\ job'.keepOld = job.keepOld
    BY <1>1, <1>2 DEF Fields, RenameFields
  <2>2. WorldInv' /\ hist' = hist /\ owner' = owner
    BY <1>1, <1>2, WorldStays DEF world
  <2>3. job.read = job.copied
    BY <1>1, <1>2
  <2> QED BY <1>1, <2>1, <2>2, <2>3 DEF RenameInv
<1>3. ASSUME NEW r \in Oldest(job.todo), WCreateOk(To, r),
             job' = [job EXCEPT !.todo = @ \ {r}, !.copied = @ \cup {r}]
      PROVE  RenameInv'
  <2>1. /\ Fields(job', RenameFields) /\ job'.pc = "copy" /\ job'.read = job.read
        /\ job'.todo = job.todo \ {r} /\ job'.copied = job.copied \cup {r} /\ job'.had = job.had
        /\ job'.keepOld = job.keepOld
    BY <1>1, <1>3 DEF Fields, RenameFields
  <2>2. r \in job.todo /\ r \in Record
    BY <1>1 DEF Oldest
  <2>3. /\ WorldInv' /\ hist'[To] = hist[To] \cup {r} /\ r.rev \notin Revs(To) /\ owner' = owner
        /\ hist'[From] = hist[From]
    BY <1>1, <1>3, <2>2, CreateWorld
  <2>4. \A s \in job.had : s.rev # r.rev
    BY <1>1, <2>3 DEF Kept, Revs
  <2>5. Kept(job.had, hist'[To]) /\ Kept(job'.copied, hist'[To])
    BY <1>1, <2>1, <2>3 DEF Kept
  <2>6. job'.read = job'.todo \cup job'.copied
    BY <1>1, <2>1, <2>2
  <2>7. \A s \in job.had : \A t \in job'.copied : s.rev # t.rev
    BY <1>1, <2>1, <2>4 DEF RenameInv
  <2>8. Kept(job'.read, hist'[From])
    BY <1>1, <2>1, <2>3
  <2> QED BY <1>1, <2>1, <2>2, <2>3, <2>5, <2>6, <2>7, <2>8 DEF RenameInv
<1>4. ASSUME NEW r \in Oldest(job.todo), WCreateFails(To, r),
             job' = [job EXCEPT !.pc = "uncopy", !.todo = job.copied]
      PROVE  RenameInv'
  <2>1. /\ Fields(job', RenameFields) /\ job'.pc = "uncopy" /\ job'.read = job.read
        /\ job'.todo = job.copied /\ job'.copied = job.copied /\ job'.had = job.had
        /\ job'.keepOld = job.keepOld
    BY <1>1, <1>4 DEF Fields, RenameFields
  <2>2. r \in Record
    BY <1>1 DEF Oldest
  <2>3. /\ WorldInv' /\ hist[To] \subseteq hist'[To] /\ owner' = owner /\ hist'[From] = hist[From]
    BY <1>1, <1>4, <2>2, CreateFailsWorld
  <2>4. Kept(job.had, hist'[To]) /\ Kept(job.read, hist'[From])
    BY <1>1, <2>3 DEF Kept
  <2> QED BY <1>1, <2>1, <2>3, <2>4 DEF RenameInv
<1> QED BY <1>2, <1>3, <1>4 DEF RenameCopy

(* A copy is undone: it is not of a revision the new name had.             *)
LEMMA UncopyRename ==
  ASSUME RenameInv, RenameUncopy
  PROVE  RenameInv'
<1>1. /\ WorldInv /\ Fields(job, RenameFields) /\ others' \in 0 .. MaxOthers /\ job.pc = "uncopy"
      /\ From \in ReleaseName /\ To \in ReleaseName /\ From # To /\ owner[From] = From
      /\ Kept(job.read, hist[From]) /\ Kept(job.had, hist[To])
  BY HistoryAssumption DEF RenameInv, WorldInv, RenameUncopy
<1>2. CASE job' = [job EXCEPT !.pc = "failed"] /\ UNCHANGED world /\ NoFault
  <2>1. /\ Fields(job', RenameFields) /\ job'.pc = "failed" /\ job'.read = job.read
        /\ job'.todo = job.todo /\ job'.copied = job.copied /\ job'.had = job.had
        /\ job'.keepOld = job.keepOld
    BY <1>1, <1>2 DEF Fields, RenameFields
  <2>2. WorldInv' /\ hist' = hist /\ owner' = owner
    BY <1>1, <1>2, WorldStays DEF world
  <2> QED BY <1>1, <2>1, <2>2 DEF RenameInv
<1>3. ASSUME NEW r \in Oldest(job.todo), WDeleteOk(To, r.rev) \/ WDeleteFails(To, r.rev),
             job' = [job EXCEPT !.todo = @ \ {r}]
      PROVE  RenameInv'
  <2>1. /\ Fields(job', RenameFields) /\ job'.pc = "uncopy" /\ job'.read = job.read
        /\ job'.todo = job.todo \ {r} /\ job'.copied = job.copied /\ job'.had = job.had
        /\ job'.keepOld = job.keepOld
    BY <1>1, <1>3 DEF Fields, RenameFields
  <2>2. r \in job.todo /\ \A s \in job.had : s.rev # r.rev
    BY <1>1 DEF Oldest, RenameInv
  <2>3. /\ WorldInv' /\ owner' = owner /\ hist'[From] = hist[From]
        /\ hist'[To] = {s \in hist[To] : s.rev # r.rev} \/ hist'[To] = hist[To]
    BY <1>1, <1>3, DeleteWorld
  <2>4. Kept(job.had, hist'[To])
    BY <1>1, <2>2, <2>3 DEF Kept
  <2> QED BY <1>1, <2>1, <2>3, <2>4 DEF RenameInv
<1> QED BY <1>2, <1>3 DEF RenameUncopy

(* The objects are stamped: only when all is copied.                       *)
LEMMA StampRename ==
  ASSUME RenameInv, RenameStamp
  PROVE  RenameInv'
<1>1. /\ WorldInv /\ Fields(job, RenameFields) /\ others \in 0 .. MaxOthers /\ job.pc = "stamp"
      /\ From \in ReleaseName /\ To \in ReleaseName /\ From # To /\ owner[From] = From
      /\ Kept(job.read, hist[From]) /\ Kept(job.had, hist[To]) /\ Kept(job.read, hist[To])
  BY HistoryAssumption DEF RenameInv, WorldInv, RenameStamp
<1>2. /\ hist' = hist /\ live' = live /\ others' = others
      /\ owner' = owner \/ owner' = [owner EXCEPT ![From] = To]
      /\ NoFault \/ WFault
  BY DEF RenameStamp
<1>3. owner' \in [ReleaseName -> ReleaseName] /\ owner'[From] \in {From, To}
  BY <1>1, <1>2 DEF WorldInv
<1>4. wfaults' \in 0 .. MaxWorldFaults
  BY <1>1, <1>2, ReleaseWorldAssumption DEF WorldInv, NoFault, WFault
<1>5. WorldInv'
  BY <1>1, <1>2, <1>3, <1>4 DEF WorldInv
<1>6. CASE owner' = [owner EXCEPT ![From] = To] /\ job.keepOld /\ job' = [job EXCEPT !.pc = "ok"]
  <2>1. /\ Fields(job', RenameFields) /\ job'.pc = "ok" /\ job'.read = job.read
        /\ job'.todo = job.todo /\ job'.copied = job.copied /\ job'.had = job.had
        /\ job'.keepOld = job.keepOld
    BY <1>1, <1>6 DEF Fields, RenameFields
  <2>2. owner'[From] = To
    BY <1>1, <1>6 DEF WorldInv
  <2> QED BY <1>1, <1>2, <1>5, <1>6, <2>1, <2>2 DEF RenameInv
<1>7. CASE owner' = [owner EXCEPT ![From] = To] /\ ~job.keepOld
           /\ job' = [job EXCEPT !.pc = "delete", !.todo = job.read]
  <2>1. /\ Fields(job', RenameFields) /\ job'.pc = "delete" /\ job'.read = job.read
        /\ job'.todo = job.read /\ job'.copied = job.copied /\ job'.had = job.had
        /\ job'.keepOld = job.keepOld
    BY <1>1, <1>7 DEF Fields, RenameFields
  <2>2. owner'[From] = To
    BY <1>1, <1>7 DEF WorldInv
  <2> QED BY <1>1, <1>2, <1>5, <1>7, <2>1, <2>2 DEF RenameInv
<1>8. CASE job' = [job EXCEPT !.pc = "failed"]
  <2>1. /\ Fields(job', RenameFields) /\ job'.pc = "failed" /\ job'.read = job.read
        /\ job'.todo = job.todo /\ job'.copied = job.copied /\ job'.had = job.had
        /\ job'.keepOld = job.keepOld
    BY <1>1, <1>8 DEF Fields, RenameFields
  <2> QED BY <1>1, <1>2, <1>3, <1>5, <2>1 DEF RenameInv
<1> QED BY <1>6, <1>7, <1>8 DEF RenameStamp

(* A record is deleted under the old name: the new one has it.             *)
LEMMA DeleteRename ==
  ASSUME RenameInv, RenameDelete
  PROVE  RenameInv'
<1>1. /\ WorldInv /\ Fields(job, RenameFields) /\ others' \in 0 .. MaxOthers /\ job.pc = "delete"
      /\ From \in ReleaseName /\ To \in ReleaseName /\ From # To /\ owner[From] = To /\ ~job.keepOld
      /\ Kept(job.had, hist[To]) /\ Kept(job.read, hist[To]) /\ job.todo \subseteq job.read
      /\ \A r \in job.read, s \in hist[From] : r.rev = s.rev /\ r.content = s.content => r \in job.todo
  BY HistoryAssumption DEF RenameInv, WorldInv, RenameDelete
<1>2. CASE job.todo = {} /\ job' = [job EXCEPT !.pc = "ok"] /\ UNCHANGED world /\ NoFault
  <2>1. /\ Fields(job', RenameFields) /\ job'.pc = "ok" /\ job'.read = job.read
        /\ job'.todo = job.todo /\ job'.copied = job.copied /\ job'.had = job.had
        /\ job'.keepOld = job.keepOld
    BY <1>1, <1>2 DEF Fields, RenameFields
  <2>2. WorldInv' /\ hist' = hist /\ owner' = owner
    BY <1>1, <1>2, WorldStays DEF world
  <2> QED BY <1>1, <1>2, <2>1, <2>2 DEF RenameInv
<1>3. ASSUME NEW r \in Oldest(job.todo),
             \/ WDeleteOk(From, r.rev) /\ job' = [job EXCEPT !.todo = @ \ {r}]
             \/ WDeleteFails(From, r.rev) /\ job' = [job EXCEPT !.pc = "failed"]
      PROVE  RenameInv'
  <2>1. /\ Fields(job', RenameFields) /\ job'.read = job.read
        /\ job'.copied = job.copied /\ job'.had = job.had /\ job'.keepOld = job.keepOld
        /\ \/ job'.pc = "delete" /\ job'.todo = job.todo \ {r} /\ WDeleteOk(From, r.rev)
           \/ job'.pc = "failed" /\ job'.todo = job.todo
    BY <1>1, <1>3 DEF Fields, RenameFields
  <2>2. /\ WorldInv' /\ owner' = owner /\ hist'[To] = hist[To]
        /\ WDeleteOk(From, r.rev) => hist'[From] = {s \in hist[From] : s.rev # r.rev}
    <3>1. /\ WorldInv' /\ owner' = owner /\ hist'[To] = hist[To]
      BY <1>1, <1>3, DeleteWorld
    <3>2. WDeleteOk(From, r.rev) => hist'[From] = {s \in hist[From] : s.rev # r.rev}
      BY <1>1 DEF WDeleteOk, Records, WorldInv
    <3> QED BY <3>1, <3>2
  <2>3. ASSUME job'.pc = "delete", NEW t \in job.read, NEW s \in hist'[From],
               t.rev = s.rev, t.content = s.content
        PROVE  t \in job'.todo
    BY <1>1, <2>1, <2>2, <2>3
  <2> QED BY <1>1, <2>1, <2>2, <2>3 DEF RenameInv
<1> QED BY <1>2, <1>3 DEF RenameDelete

(* Every step of a rename.                                                 *)
LEMMA NextRename ==
  ASSUME RenameInv, [RenameStep \/ OthersStep]_worldVars
  PROVE  RenameInv'
<1>1. CASE UNCHANGED worldVars
  BY <1>1 DEF worldVars, world, RenameInv, WorldInv, Fields
<1>2. CASE RenameStep
  BY <1>2, BeginRename, CopyRename, UncopyRename, StampRename, DeleteRename DEF RenameStep
<1>3. CASE OthersStep
  BY <1>3, OthersRename
<1> QED BY <1>1, <1>2, <1>3

(* What holds in every state of a rename.                                  *)
LEMMA RenameInvariant == RenameSpec => []RenameInv
<1>1. WorldInit /\ (\E keepOld \in BOOLEAN : job = RenameJob(keepOld)) => RenameInv
  BY InitRename
<1>2. RenameInv /\ [RenameStep \/ OthersStep]_worldVars => RenameInv'
  BY NextRename
<1> QED BY <1>1, <1>2, PTL DEF RenameSpec

(* rename_prune.go: wherever a rename stops, nothing it read is lost.      *)
THEOREM RenameKeeps == RenameSpec => []RenameLosesNothing
<1>1. RenameInv => RenameLosesNothing
  <2> SUFFICES ASSUME RenameInv
               PROVE  /\ Keys(job.read) \subseteq Keys(hist[From]) \cup Keys(hist[To])
                      /\ Keys(NewestOf(job.read)) \subseteq Keys(hist[owner[From]])
                      /\ Keys(job.had) \subseteq Keys(hist[To])
                      /\ job.pc = "ok" => Keys(job.read) \subseteq Keys(hist[To])
                      /\ job.pc = "ok" /\ ~job.keepOld => Keys(job.read) \cap Keys(hist[From]) = {}
    BY DEF RenameLosesNothing
  <2>1. /\ owner[From] \in {From, To} /\ Kept(job.read, hist[owner[From]]) /\ Kept(job.had, hist[To])
        /\ job.pc = "ok" => Kept(job.read, hist[To])
    BY DEF RenameInv
  <2>2. Keys(job.read) \subseteq Keys(hist[owner[From]]) /\ Keys(job.had) \subseteq Keys(hist[To])
        /\ (job.pc = "ok" => Keys(job.read) \subseteq Keys(hist[To]))
    BY <2>1, KeptKeys
  <2>3. Keys(NewestOf(job.read)) \subseteq Keys(job.read)
    BY DEF NewestOf, Keys
  <2>4. ASSUME job.pc = "ok", ~job.keepOld PROVE Keys(job.read) \cap Keys(hist[From]) = {}
    <3>1. \A r \in job.read, s \in hist[From] : ~(r.rev = s.rev /\ r.content = s.content)
      BY <2>4 DEF RenameInv
    <3> QED BY <3>1 DEF Keys
  <2> QED BY <2>1, <2>2, <2>3, <2>4
<1> QED BY <1>1, RenameInvariant, PTL

-----------------------------------------------------------------------------
(* prune.                                                                  *)

PruneFields == {"cmd", "pc", "todo", "read"}

(* What stays is at least Keep revisions newer than all that is to go.     *)
Spared(T) ==
    /\ T \subseteq Revs(Pruned) /\ IsFiniteSet(T) /\ Cardinality(T) >= Keep
    /\ \A v \in job.todo, t \in T : v.rev < t

PruneInv ==
    /\ WorldInv /\ Fields(job, PruneFields) /\ job.todo \subseteq Record
    /\ \A r, s \in hist[Pruned] : r.status = "deployed" /\ s.status = "deployed" => r = s
    /\ job.todo # {} => \E T : Spared(T)
    /\ \A v \in job.todo, r \in hist[Pruned] : r.rev = v.rev => r.status # "deployed"

(* The first state of a prune.                                             *)
LEMMA InitPrune ==
  ASSUME WorldInit, job = PruneJob
  PROVE  PruneInv
<1>1. WorldInv /\ Fields(job, PruneFields) /\ job.todo = {}
  BY InitWorld DEF PruneJob, Fields, PruneFields
<1>2. \A r, s \in hist[Pruned] : r.status = "deployed" /\ s.status = "deployed" => r = s
  BY HistoryAssumption DEF WorldInit, Sound
<1> QED BY <1>1, <1>2 DEF PruneInv

(* A history is finite, and so are its revisions.                          *)
LEMMA FiniteHistory ==
  ASSUME WorldInv, NEW n \in ReleaseName
  PROVE  IsFiniteSet(hist[n]) /\ IsFiniteSet(Revs(n))
<1>1. hist[n] \subseteq Record /\ History(hist[n])
  BY DEF WorldInv, History
<1>2. PICK k \in Nat : \A r \in hist[n] : r.rev <= k
  BY <1>1 DEF History
<1>3. Revs(n) \in SUBSET Nat /\ \A v \in Revs(n) : v <= k
  BY <1>1, <1>2 DEF Revs, Record
<1>4. IsFiniteSet(Revs(n))
  BY <1>3, FS_BoundedSetOfNaturals
<1> DEFINE f == [r \in hist[n] |-> r.rev]
<1>5. f \in Injection(hist[n], Revs(n))
  BY <1>1 DEF Injection, IsInjective, Revs, History
<1> HIDE DEF f
<1> QED BY <1>4, <1>5, FS_Injection

(* As many records are newer than v as revisions are.                      *)
LEMMA CountNewer ==
  ASSUME WorldInv, NEW n \in ReleaseName, NEW v \in Nat,
         NEW T, T \subseteq Revs(n), \A t \in T : v < t
  PROVE  /\ IsFiniteSet({s \in hist[n] : s.rev > v})
         /\ Cardinality(T) <= Cardinality({s \in hist[n] : s.rev > v})
<1> DEFINE N == {s \in hist[n] : s.rev > v}
           f == [t \in T |-> RecordOf(hist[n], t)]
<1>1. IsFiniteSet(hist[n])
  BY FiniteHistory
<1>2. N \in SUBSET hist[n]
  OBVIOUS
<1>3. IsFiniteSet(N)
  <2> HIDE DEF N
  <2> QED BY <1>1, <1>2, FS_Subset
<1>4. \A t \in T : RecordOf(hist[n], t) \in N /\ RecordOf(hist[n], t).rev = t
  <2>1. ASSUME NEW t \in T PROVE RecordOf(hist[n], t) \in hist[n] /\ RecordOf(hist[n], t).rev = t
    BY RecordStored
  <2>2. \A t \in T : t \in Nat
    BY DEF WorldInv, Revs, Record
  <2> QED BY <2>1, <2>2
<1>5. f \in Injection(T, N)
  <2>1. \A t \in T : f[t] \in N /\ f[t].rev = t
    BY <1>4
  <2> QED BY <2>1 DEF Injection, IsInjective
<1>6. Cardinality(T) <= Cardinality(N)
  <2> HIDE DEF f, N
  <2> QED BY <1>3, <1>5, FS_Injection
<1> QED BY <1>3, <1>6

(* The victims of a history with one deployed revision at most: none of    *)
(* them is deployed, and what is newer than the newest of them is spared.  *)
LEMMA VictimsSpare ==
  ASSUME WorldInv, NEW n \in ReleaseName,
         \A r, s \in hist[n] : r.status = "deployed" /\ s.status = "deployed" => r = s
  PROVE  /\ \A v \in Victims(hist[n]) : v \in hist[n] /\ v.status # "deployed"
         /\ Victims(hist[n]) # {} =>
              \E T : /\ T \subseteq Revs(n) /\ IsFiniteSet(T) /\ Cardinality(T) >= Keep
                     /\ \A v \in Victims(hist[n]), t \in T : v.rev < t
<1> DEFINE h == hist[n]
           D == {r.rev : r \in {s \in h : s.status = "deployed"}}
<1>1. h \subseteq Record /\ IsFiniteSet(h) /\ Keep \in Nat \ {0} /\ History(h)
  BY FiniteHistory, HistoryAssumption DEF WorldInv
<1>2. ASSUME NEW v \in Victims(h) PROVE v \in h /\ v.status # "deployed"
  <2>1. v \in h /\ v.rev # (IF D = {} THEN 0 ELSE Max(D))
    BY DEF Victims
  <2>2. SUFFICES ASSUME v.status = "deployed" PROVE FALSE
    BY <2>1
  <2>3. D = {v.rev}
    BY <2>1, <2>2
  <2>4. v.rev \in Nat
    BY <1>1, <2>1 DEF Record
  <2>5. Max({v.rev}) = v.rev
    BY <2>4 DEF Max
  <2> QED BY <2>1, <2>3, <2>5
<1>3. ASSUME Victims(h) # {}
      PROVE  \E T : /\ T \subseteq Revs(n) /\ IsFiniteSet(T) /\ Cardinality(T) >= Keep
                    /\ \A v \in Victims(h), t \in T : v.rev < t
  <2> DEFINE V == {v.rev : v \in Victims(h)}
  <2>1. PICK k \in Nat : \A r \in h : r.rev <= k
    BY <1>1 DEF History
  <2>2. V \in SUBSET Nat /\ V # {} /\ \A v \in V : v <= k
    BY <1>1, <1>2, <1>3, <2>1 DEF Record
  <2>3. PICK m \in V : \A w \in V : w <= m
    <3> HIDE DEF V
    <3> QED BY <2>2, GreatestOf
  <2>4. PICK x \in Victims(h) : x.rev = m
    BY <2>3
  <2> DEFINE N == {s \in h : s.rev > x.rev}
             T == {s.rev : s \in N}
             f == [s \in N |-> s.rev]
  <2>5. Cardinality(N) >= Keep
    BY DEF Victims
  <2>6. IsFiniteSet(N) /\ Cardinality(N) \in Nat
    <3>1. N \in SUBSET h
      OBVIOUS
    <3> HIDE DEF N, h
    <3> QED BY <1>1, <3>1, FS_Subset, FS_CardinalityType
  <2>7. f \in Surjection(N, T) /\ f \in Injection(N, T)
    BY <1>1 DEF Surjection, Injection, IsInjective, History
  <2>8. IsFiniteSet(T) /\ Cardinality(T) = Cardinality(N)
    <3> HIDE DEF f, N, T
    <3> QED BY <2>6, <2>7, FS_Surjection
  <2>9. T \subseteq Revs(n)
    BY DEF Revs
  <2>10. \A v \in Victims(h), t \in T : v.rev < t
    <3>1. \A v \in Victims(h) : v.rev \in Nat /\ v.rev <= x.rev
      BY <2>2, <2>3, <2>4
    <3>2. \A t \in T : t \in Nat /\ t > x.rev
      BY <1>1 DEF Record
    <3>3. x.rev \in Nat
      BY <3>1
    <3> QED BY <3>1, <3>2, <3>3
  <2>11. Cardinality(T) >= Keep
    BY <1>1, <2>5, <2>6, <2>8
  <2> HIDE DEF T
  <2> QED BY <2>8, <2>9, <2>10, <2>11
<1> QED BY <1>2, <1>3

(* The revisions a kept history has are there.                             *)
LEMMA KeptRevs ==
  ASSUME NEW n, Kept(hist[n], hist'[n])
  PROVE  Revs(n) \subseteq {r.rev : r \in hist'[n]}
BY DEF Kept, Revs

(* An upgrade by others: the revision it deploys is newer than all there   *)
(* was, so it is not one that is to go.                                    *)
LEMMA OthersPrune ==
  ASSUME PruneInv, OthersStep
  PROVE  PruneInv'
<1>1. /\ WorldInv /\ WorldInv' /\ job' = job
      /\ Kept(hist[Pruned], hist'[Pruned])
      /\ \/ hist'[Pruned] = hist[Pruned]
         \/ \E c \in Content : hist'[Pruned] = Replaced(Pruned, c)
      /\ Pruned \in ReleaseName
  BY OthersWorld, HistoryAssumption DEF PruneInv
<1>2. ASSUME NEW T, Spared(T) PROVE Spared(T)'
  BY <1>1, <1>2, KeptRevs DEF Spared, Revs
<1>3. job.todo # {} => \E T : Spared(T)'
  BY <1>2 DEF PruneInv
<1>4. CASE hist'[Pruned] = hist[Pruned]
  BY <1>1, <1>3, <1>4 DEF PruneInv, Fields
<1>5. ASSUME NEW c \in Content, hist'[Pruned] = Replaced(Pruned, c) PROVE PruneInv'
  <2> DEFINE d == Rec(LastRev(Pruned) + 1, "deployed", c)
  <2>1. \A r \in hist'[Pruned] : r.status = "deployed" => r = d
    BY <1>1, <1>5, ReplacedHistory
  <2>2. d.rev = LastRev(Pruned) + 1 /\ LastRev(Pruned) \in Nat
        /\ \A r \in hist[Pruned] : r.rev <= LastRev(Pruned)
    BY <1>1, NewestRecord DEF Rec
  <2>3. ASSUME NEW v \in job.todo PROVE v.rev # d.rev
    <3>1. PICK T : Spared(T)
      BY <2>3 DEF PruneInv
    <3>2. T # {}
      BY <3>1, FS_EmptySet, HistoryAssumption DEF Spared
    <3>3. PICK t \in T : t \in Revs(Pruned) /\ v.rev < t
      BY <3>1, <3>2 DEF Spared
    <3>4. v.rev \in Nat /\ t \in Nat /\ t <= LastRev(Pruned)
      BY <1>1, <2>2, <3>3 DEF PruneInv, WorldInv, Revs, Record
    <3> HIDE DEF d
    <3> QED BY <2>2, <3>3, <3>4
  <2> HIDE DEF d
  <2> QED BY <1>1, <1>3, <2>1, <2>3 DEF PruneInv, Fields
<1> QED BY <1>1, <1>4, <1>5

(* The history is read.                                                    *)
LEMMA BeginPrune ==
  ASSUME PruneInv, PruneBegin
  PROVE  PruneInv'
<1>1. /\ WorldInv /\ Fields(job, PruneFields) /\ others \in 0 .. MaxOthers /\ Pruned \in ReleaseName
      /\ hist[Pruned] \subseteq Record
  BY HistoryAssumption DEF PruneInv, WorldInv
<1>2. WorldInv' /\ hist' = hist
  BY <1>1, WorldStays DEF PruneBegin, world
<1>3. Fields(job', PruneFields) /\ job'.todo \in {job.todo, Victims(hist[Pruned])}
  BY <1>1 DEF PruneBegin, Fields, PruneFields
<1>4. CASE job'.todo = job.todo
  BY <1>2, <1>3, <1>4 DEF PruneInv, Spared, Revs
<1>5. CASE job'.todo = Victims(hist[Pruned])
  <2>1. /\ \A v \in job'.todo : v \in hist[Pruned] /\ v.status # "deployed"
        /\ job'.todo # {} =>
             \E T : /\ T \subseteq Revs(Pruned) /\ IsFiniteSet(T) /\ Cardinality(T) >= Keep
                    /\ \A v \in job'.todo, t \in T : v.rev < t
    BY <1>1, <1>5, VictimsSpare DEF PruneInv
  <2>2. job'.todo # {} => \E T : Spared(T)'
    BY <1>2, <2>1 DEF Spared, Revs
  <2>3. \A v \in job'.todo, r \in hist[Pruned] : r.rev = v.rev => r = v
    BY <1>1, <2>1 DEF WorldInv, History
  <2> QED BY <1>1, <1>2, <1>3, <2>1, <2>2, <2>3 DEF PruneInv
<1> QED BY <1>3, <1>4, <1>5

(* A record is deleted: what is spared stays.                              *)
LEMMA DeletePrune ==
  ASSUME PruneInv, PruneDelete
  PROVE  /\ PruneInv'
         /\ \A r \in hist[Pruned] :
              r.rev \notin {s.rev : s \in hist'[Pruned]} =>
                 r.status # "deployed" /\ Cardinality({s \in hist[Pruned] : s.rev > r.rev}) >= Keep
<1>1. /\ WorldInv /\ Fields(job, PruneFields) /\ others' \in 0 .. MaxOthers /\ Pruned \in ReleaseName
  BY HistoryAssumption DEF PruneInv, WorldInv, PruneDelete
<1>2. CASE UNCHANGED world /\ NoFault /\ job' = [job EXCEPT !.pc = "ok"]
  <2>1. WorldInv' /\ hist' = hist
    BY <1>1, <1>2, WorldStays DEF world
  <2>2. Fields(job', PruneFields) /\ job'.todo = job.todo
    BY <1>1, <1>2 DEF Fields, PruneFields
  <2>3. \A r \in hist[Pruned] : r.rev \in {s.rev : s \in hist'[Pruned]}
    BY <2>1
  <2> QED BY <2>1, <2>2, <2>3 DEF PruneInv, Spared, Revs
<1>3. ASSUME NEW v \in NewestOf(job.todo), WDeleteOk(Pruned, v.rev) \/ WDeleteFails(Pruned, v.rev),
             job' = [job EXCEPT !.todo = @ \ {v}] \/ job' = [job EXCEPT !.pc = "failed"]
      PROVE  /\ PruneInv'
             /\ \A r \in hist[Pruned] :
                  r.rev \notin {s.rev : s \in hist'[Pruned]} =>
                     r.status # "deployed" /\ Cardinality({s \in hist[Pruned] : s.rev > r.rev}) >= Keep
  <2>1. v \in job.todo /\ v \in Record /\ v.rev \in Nat
    BY DEF NewestOf, PruneInv, Record
  <2>2. PICK T : Spared(T)
    BY <2>1 DEF PruneInv
  <2>3. Fields(job', PruneFields) /\ job'.todo \subseteq job.todo
    BY <1>1, <1>3 DEF Fields, PruneFields
  <2>4. WorldInv' /\ hist'[Pruned] \in {hist[Pruned], {r \in hist[Pruned] : r.rev # v.rev}}
    BY <1>1, <1>3, DeleteWorld
  <2>5. Spared(T)'
    <3>1. \A t \in T : t # v.rev /\ t \in Revs(Pruned)
      BY <1>1, <2>1, <2>2 DEF Spared, WorldInv, Revs, Record
    <3>2. T \subseteq {r.rev : r \in hist'[Pruned]}
      BY <2>4, <3>1 DEF Revs
    <3> QED BY <2>2, <2>3, <3>2 DEF Spared, Revs
  <2>6. PruneInv'
    <3>1. hist'[Pruned] \subseteq hist[Pruned]
      BY <2>4
    <3> QED BY <2>3, <2>4, <2>5, <3>1 DEF PruneInv
  <2>7. ASSUME NEW r \in hist[Pruned], r.rev \notin {s.rev : s \in hist'[Pruned]}
        PROVE  r.status # "deployed" /\ Cardinality({s \in hist[Pruned] : s.rev > r.rev}) >= Keep
    <3>1. r.rev = v.rev
      BY <2>4, <2>7
    <3>2. r.status # "deployed"
      BY <2>1, <3>1 DEF PruneInv
    <3>3. /\ IsFiniteSet({s \in hist[Pruned] : s.rev > v.rev})
          /\ Cardinality(T) <= Cardinality({s \in hist[Pruned] : s.rev > v.rev})
      BY <1>1, <2>1, <2>2, CountNewer DEF Spared
    <3>4. Cardinality(T) \in Nat /\ Cardinality(T) >= Keep /\ Keep \in Nat
          /\ Cardinality({s \in hist[Pruned] : s.rev > v.rev}) \in Nat
      BY <2>2, <3>3, FS_CardinalityType, HistoryAssumption DEF Spared
    <3> QED BY <3>1, <3>2, <3>3, <3>4
  <2> QED BY <2>6, <2>7
<1> QED BY <1>2, <1>3 DEF PruneDelete

(* Every step of a prune.                                                  *)
LEMMA NextPrune ==
  ASSUME PruneInv, [PruneStep \/ OthersStep]_worldVars
  PROVE  PruneInv'
<1>1. CASE UNCHANGED worldVars
  BY <1>1 DEF worldVars, world, PruneInv, WorldInv, Fields, Spared, Revs
<1>2. CASE PruneStep
  BY <1>2, BeginPrune, DeletePrune DEF PruneStep
<1>3. CASE OthersStep
  BY <1>3, OthersPrune
<1> QED BY <1>1, <1>2, <1>3

(* What holds in every state of a prune.                                   *)
LEMMA PruneInvariant == PruneSpec => []PruneInv
<1>1. WorldInit /\ job = PruneJob => PruneInv
  BY InitPrune
<1>2. PruneInv /\ [PruneStep \/ OthersStep]_worldVars => PruneInv'
  BY NextPrune
<1> QED BY <1>1, <1>2, PTL DEF PruneSpec

(* rename_prune.go: what a prune deletes is neither deployed nor one of    *)
(* the newest, whoever upgrades meanwhile.                                 *)
THEOREM PruneSpares == PruneSpec => PruneSparesDeployed
<1> DEFINE Spares ==
             job.cmd = "prune" =>
               \A r \in hist[Pruned] :
                  r.rev \notin {s.rev : s \in hist'[Pruned]} =>
                     r.status # "deployed" /\ Cardinality({s \in hist[Pruned] : s.rev > r.rev}) >= Keep
<1>1. ASSUME PruneInv, PruneStep \/ OthersStep PROVE Spares
  <2>1. CASE PruneBegin
    <3>1. hist' = hist
      BY <2>1 DEF PruneBegin, world
    <3> QED BY <3>1
  <2>2. CASE PruneDelete
    BY <1>1, <2>2, DeletePrune
  <2>3. CASE OthersStep
    <3>1. Kept(hist[Pruned], hist'[Pruned])
      BY <1>1, <2>3, OthersWorld, HistoryAssumption DEF PruneInv
    <3>2. \A r \in hist[Pruned] : r.rev \in {s.rev : s \in hist'[Pruned]}
      BY <3>1 DEF Kept
    <3> QED BY <3>2
  <2> QED BY <1>1, <2>1, <2>2, <2>3 DEF PruneStep
<1>2. PruneInv /\ [PruneStep \/ OthersStep]_worldVars => [Spares]_worldVars
  BY <1>1
<1>3. [][Spares]_worldVars => PruneSparesDeployed
  BY PTL DEF PruneSparesDeployed
<1> QED BY <1>2, <1>3, PruneInvariant, PTL DEF PruneSpec

-----------------------------------------------------------------------------
(* plan and apply.                                                         *)

PlanFields == {"cmd", "pc", "action", "files", "plan", "checked", "dry", "shown"}

(* The operation runs only after the digests agreed.                       *)
PlanInv ==
    /\ WorldInv
    /\ Fields(job, PlanFields)
    /\ job.action \in {"install", "upgrade"} /\ job.files \in Package
    /\ job.pc \in {"apply", "run"} => job.shown[2] = job.plan
    /\ job.pc = "run" => PlanOf(job.checked) = job.plan

(* Every step of plan and apply.                                           *)
LEMMA NextPlan ==
  ASSUME PlanInv, [PlanStep \/ OthersStep]_worldVars
  PROVE  PlanInv'
<1>0. WorldInv /\ others \in 0 .. MaxOthers
  BY DEF PlanInv, WorldInv
<1>1. CASE UNCHANGED worldVars
  BY <1>1 DEF worldVars, world, PlanInv, WorldInv, PlanOf, Fields
<1>2. CASE OthersStep
  BY <1>0, <1>2, OthersWorld DEF PlanInv, PlanOf, Fields
<1>3. CASE MakePlan
  <2>1. WorldInv'
    BY <1>0, <1>3, WorldStays DEF MakePlan
  <2>2. CASE job' = [job EXCEPT !.pc = "refused"]
    BY <2>1, <2>2 DEF PlanInv, Fields, PlanFields
  <2>3. ASSUME NEW base,
               job' = [job EXCEPT !.pc = "apply", !.plan = PlanOf(job.files),
                                  !.shown = <<base, PlanOf(job.files)>>]
        PROVE  PlanInv'
    <3>1. job'.shown = <<base, PlanOf(job.files)>> /\ job'.plan = PlanOf(job.files)
          /\ job'.pc = "apply" /\ job'.action = job.action /\ job'.files = job.files
      BY <2>3 DEF PlanInv, Fields, PlanFields
    <3>2. job'.shown[2] = job'.plan
      BY <3>1
    <3>3. Fields(job', PlanFields)
      BY <2>3 DEF PlanInv, Fields, PlanFields
    <3> QED BY <2>1, <3>1, <3>2, <3>3 DEF PlanInv
  <2> QED BY <1>3, <2>2, <2>3 DEF MakePlan
<1>4. CASE CheckPlan
  <2>1. WorldInv'
    BY <1>0, <1>4, WorldStays DEF CheckPlan
  <2>2. CASE job' = [job EXCEPT !.pc = "refused"]
    BY <2>1, <2>2 DEF PlanInv, Fields, PlanFields
  <2>3. ASSUME Intact, job.pc = "apply",
               NEW dry \in BOOLEAN,
               job' = [job EXCEPT !.pc = "run", !.checked = job.files, !.dry = dry]
        PROVE  PlanInv'
    <3>1. job'.shown = job.shown /\ job'.plan = job.plan /\ job'.pc = "run"
          /\ job'.action = job.action /\ job'.files = job.files /\ job'.checked = job.files
      BY <2>3 DEF PlanInv, Fields, PlanFields
    <3>2. PlanOf(job.files) = job.plan /\ job.shown[2] = job.plan
      BY <2>3 DEF PlanInv, Intact
    <3>3. Fields(job', PlanFields)
      BY <2>3 DEF PlanInv, Fields, PlanFields
    <3>4. job.action \in {"install", "upgrade"} /\ job.files \in Package
      BY DEF PlanInv
    <3>5. PlanOf(job'.checked) = job'.plan
      BY <3>1, <3>2
    <3>6. job'.shown[2] = job'.plan
      BY <3>1, <3>2
    <3> QED BY <2>1, <3>1, <3>3, <3>4, <3>5, <3>6 DEF PlanInv
  <2> QED BY <1>4, <2>2, <2>3 DEF CheckPlan
<1>5. CASE RunPlan
  <2> DEFINE c == Rendered[job.files][job.action]
  <2>1. c \in Content /\ Planned \in ReleaseName /\ others' = others /\ job.pc = "run"
    BY <1>5, PlanAssumption DEF PlanInv, RunPlan
  <2>2. job' = [job EXCEPT !.pc = "ok"] \/ job' = [job EXCEPT !.pc = "failed"]
    BY <1>5 DEF RunPlan
  <2>3. \/ UNCHANGED world /\ (NoFault \/ WFault)
        \/ WUpgradeOk(Planned, c) \/ WInstallOk(Planned, c)
        \/ WUpgradeFails(Planned, c) \/ WInstallFails(Planned, c)
    BY <1>5 DEF RunPlan
  <2> HIDE DEF c
  <2>4. WorldInv'
    BY <1>0, <2>1, <2>3, WorldStays, UpgradeWorld, InstallWorld, UpgradeFailsWorld, InstallFailsWorld
  <2> QED BY <2>1, <2>2, <2>4 DEF PlanInv, Fields, PlanFields
<1>6. ASSUME NEW f \in Package, EditFiles(f) PROVE PlanInv'
  <2>1. others' \in 0 .. MaxOthers
    BY <1>0, <1>6, ReleaseWorldAssumption DEF EditFiles
  <2>2. WorldInv'
    BY <1>0, <1>6, <2>1, WorldStays DEF EditFiles
  <2> QED BY <1>6, <2>2 DEF EditFiles, PlanInv, PlanOf, Fields, PlanFields
<1> QED BY <1>1, <1>2, <1>3, <1>4, <1>5, <1>6 DEF PlanStep

(* What holds in every state of plan and apply.                            *)
LEMMA PlanInvariant == PlanSpec => []PlanInv
<1>1. WorldInit /\ (\E action \in {"install", "upgrade"}, f \in Package : job = PlanJob(action, f))
        => PlanInv
  BY InitWorld DEF PlanInv, PlanJob, Fields, PlanFields
<1>2. PlanInv /\ [PlanStep \/ OthersStep]_worldVars => PlanInv'
  BY NextPlan
<1> QED BY <1>1, <1>2, PTL DEF PlanSpec

(* internal/cli/plan_apply.go: apply runs what the digest was taken of.    *)
THEOREM AppliedAsPlanned == PlanSpec => AppliedIsPlanned
<1> DEFINE Faithful ==
             job.cmd = "plan" /\ job.pc = "run" /\ job'.pc = "ok" /\ job.files = job.checked =>
               /\ PlanOf(job.files) = job.plan
               /\ Rendered[job.files]["upgrade"] = Rendered[job.files]["install"] /\ ~job.dry =>
                    live'[Planned] = job.shown[2]
<1>1. ASSUME PlanInv, PlanStep \/ OthersStep,
             job.pc = "run", job'.pc = "ok", job.files = job.checked
      PROVE  /\ PlanOf(job.files) = job.plan
             /\ Rendered[job.files]["upgrade"] = Rendered[job.files]["install"] /\ ~job.dry =>
                  live'[Planned] = job.shown[2]
  <2>1. PlanOf(job.files) = job.plan /\ job.shown[2] = job.plan /\ WorldInv
    BY <1>1 DEF PlanInv
  <2>2. ASSUME OthersStep PROVE FALSE
    BY <1>1, <2>1, <2>2, OthersWorld
  <2>3. ASSUME MakePlan \/ CheckPlan \/ \E f \in Package : EditFiles(f) PROVE FALSE
    <3>1. ASSUME NEW f \in Package, EditFiles(f) PROVE FALSE
      BY <1>1, <3>1 DEF EditFiles, PlanInv, Fields, PlanFields
    <3> QED BY <1>1, <2>3, <3>1 DEF MakePlan, CheckPlan
  <2>4. RunPlan
    BY <1>1, <2>2, <2>3 DEF PlanStep
  <2> SUFFICES ASSUME Rendered[job.files]["upgrade"] = Rendered[job.files]["install"], ~job.dry
               PROVE  live'[Planned] = job.plan
    BY <2>1
  <2>5. Rendered[job.files][job.action] = job.plan
    BY <1>1, <2>1 DEF PlanInv, PlanOf
  <2>6. job' # [job EXCEPT !.pc = "failed"]
    BY <1>1 DEF PlanInv, Fields, PlanFields
  <2>7. Lives(Planned, job.plan)
    BY <2>4, <2>5, <2>6 DEF RunPlan, WUpgradeOk, WInstallOk
  <2> QED BY <2>1, <2>7, PlanAssumption DEF Lives, WorldInv
<1>2. PlanInv /\ [PlanStep \/ OthersStep]_worldVars => [Faithful]_worldVars
  BY <1>1
<1>3. [][Faithful]_worldVars => AppliedIsPlanned
  BY PTL DEF AppliedIsPlanned
<1> QED BY <1>2, <1>3, PlanInvariant, PTL DEF PlanSpec

-----------------------------------------------------------------------------
(* multi-install.                                                          *)

MultiFields == {"cmd", "pc", "targets", "atomic", "parallel", "next", "busy", "out", "lost", "before"}

(* Where the workers are in the list of clusters.                          *)
QueueInv ==
    /\ Fields(job, MultiFields) /\ job.targets \in Seq(ReleaseName)
    /\ job.pc \in {"run", "undo", "ok", "failed"} /\ job.next \in Nat \ {0}
    /\ job.busy \subseteq DOMAIN job.targets
    /\ job.out = [i \in DOMAIN job.targets |-> job.out[i]]
    /\ job.pc = "run" =>
         /\ \A i \in DOMAIN job.targets :
              job.out[i] \in IF i < job.next /\ i \notin job.busy THEN {"ok", "error"} ELSE {"none"}
         /\ \A i \in job.busy : i < job.next
    /\ job.pc = "ok" => \A i \in DOMAIN job.targets : job.out[i] = "ok"
    /\ job.before \in [ReleaseName -> SUBSET Record] /\ job.lost \subseteq ReleaseName

(* What an install has left, and what it has found.                        *)
Holding(n) == hist[n] # {} /\ job.before[n] = {} /\ live[n] = Installed
InstallInv ==
    /\ \A n \in ReleaseName : 1 \in {r.rev : r \in job.before[n]} => hist[n] = job.before[n]
    /\ \A i \in DOMAIN job.targets :
         job.out[i] = "ok" =>
            /\ 1 \notin {r.rev : r \in job.before[job.targets[i]]}
            /\ job.pc \in {"run", "ok"} => 1 \in Revs(job.targets[i]) /\ live[job.targets[i]] = Installed
    /\ job.pc = "undo" => \A i \in job.busy : job.out[i] = "ok"
    /\ \A n \in ReleaseName :
         Holding(n) =>
            \/ n \in job.lost
            \/ job.pc = "run" /\ \E i \in DOMAIN job.targets : job.targets[i] = n /\ job.out[i] = "ok"
            \/ job.pc = "undo" /\ \E i \in job.busy : job.targets[i] = n
            \/ job.pc = "ok" \/ (job.pc = "failed" /\ ~job.atomic)

MultiInv == WorldInv /\ QueueInv /\ InstallInv

(* The first state of an install in several clusters.                      *)
LEMMA InitMulti ==
  ASSUME WorldInit, NEW targets \in Targets, NEW parallel \in Nat, NEW atomic \in BOOLEAN,
         job = MultiJob(targets, parallel, atomic)
  PROVE  MultiInv
<1>1. WorldInv
  BY InitWorld
<1>2. targets \in Seq(ReleaseName)
  BY MultiAssumption
<1>3. /\ job.pc = "run" /\ job.targets = targets /\ job.next = 1 /\ job.busy = {} /\ job.lost = {}
      /\ job.out = [i \in DOMAIN targets |-> "none"] /\ job.before = hist
  BY DEF MultiJob
<1>4. Fields(job, MultiFields)
  BY DEF MultiJob, Fields, MultiFields
<1>5. QueueInv
  <2>1. \A i \in DOMAIN targets : i \in Nat \ {0}
    BY <1>2
  <2> QED BY <1>1, <1>2, <1>3, <1>4, <2>1 DEF QueueInv, WorldInv
<1>6. InstallInv
  BY <1>3 DEF InstallInv, Holding
<1> QED BY <1>1, <1>5, <1>6 DEF MultiInv

(* The queue, and the end of the phases.                                   *)
LEMMA QueueMulti ==
  ASSUME MultiInv, Take \/ Collect \/ Undone
  PROVE  MultiInv'
<1>1. WorldInv /\ QueueInv /\ InstallInv /\ others \in 0 .. MaxOthers
  BY DEF MultiInv, WorldInv
<1>2. WorldInv' /\ hist' = hist /\ live' = live
  BY <1>1, WorldStays DEF Take, Collect, Undone, world
<1>3. CASE Take
  <2>1. /\ Fields(job', MultiFields) /\ job'.targets = job.targets /\ job'.pc = "run" /\ job.pc = "run"
        /\ job'.next = job.next + 1 /\ job'.busy = job.busy \cup {job.next}
        /\ job'.out = job.out /\ job'.before = job.before /\ job'.lost = job.lost
        /\ job'.atomic = job.atomic
    BY <1>1, <1>3 DEF Take, QueueInv, Fields, MultiFields
  <2>2. job.next \in DOMAIN job.targets
    BY <1>1, <1>3 DEF Take, QueueInv
  <2>3. \A i \in DOMAIN job.targets : i \in Nat
    BY <1>1 DEF QueueInv
  <2>4. QueueInv'
    <3>1. \A i \in DOMAIN job.targets :
             i < job.next' /\ i \notin job.busy' <=> i < job.next /\ i \notin job.busy
      <4>1. job.next \in Nat
        BY <1>1 DEF QueueInv
      <4> QED BY <2>1, <2>3, <4>1
    <3>2. \A i \in job.busy' : i < job.next'
      <4>1. job.next \in Nat /\ job.busy \subseteq DOMAIN job.targets /\ \A i \in job.busy : i < job.next
        BY <1>1, <2>1 DEF QueueInv
      <4> QED BY <2>1, <2>3, <4>1
    <3>3. \A i \in DOMAIN job.targets :
             job.out[i] \in IF i < job.next' /\ i \notin job.busy' THEN {"ok", "error"} ELSE {"none"}
      BY <1>1, <2>1, <3>1 DEF QueueInv
    <3>4. job.next' \in Nat \ {0} /\ job.busy' \subseteq DOMAIN job.targets
      BY <1>1, <2>1, <2>2 DEF QueueInv
    <3>5. job'.pc # "ok" /\ job'.pc \in {"run", "undo", "ok", "failed"}
      BY <2>1
    <3> QED BY <1>1, <2>1, <3>2, <3>3, <3>4, <3>5 DEF QueueInv
  <2>5. InstallInv'
    BY <1>1, <1>2, <2>1 DEF InstallInv, Holding, Revs
  <2> QED BY <1>2, <2>4, <2>5 DEF MultiInv
<1>4. CASE Collect
  <2>1. /\ Fields(job', MultiFields) /\ job'.targets = job.targets /\ job.pc = "run"
        /\ job'.next = job.next
        /\ job'.out = job.out /\ job'.before = job.before /\ job'.lost = job.lost
        /\ job'.atomic = job.atomic
        /\ \/ job'.pc = "ok" /\ Errors = {} /\ job'.busy = job.busy
           \/ job'.pc = "undo" /\ job'.busy = Successful
           \/ job'.pc = "failed" /\ ~job.atomic /\ job'.busy = job.busy
    BY <1>1, <1>4 DEF Collect, QueueInv, Fields, MultiFields
  <2>2. \A i \in DOMAIN job.targets : job.out[i] \in {"ok", "error"}
    <3>1. job.next > Len(job.targets) /\ job.busy = {} /\ job.pc = "run"
      BY <1>4 DEF Collect, AllIn
    <3>2. DOMAIN job.targets = 1 .. Len(job.targets) /\ Len(job.targets) \in Nat /\ job.next \in Nat
      BY <1>1 DEF QueueInv
    <3>3. \A i \in DOMAIN job.targets : i < job.next
      BY <3>1, <3>2
    <3> QED BY <1>1, <3>1, <3>3 DEF QueueInv
  <2>3. Successful = {i \in DOMAIN job.targets : job.out[i] = "ok"}
        /\ Errors = {i \in DOMAIN job.targets : job.out[i] = "error"}
    BY <1>1 DEF Successful, Errors, QueueInv
  <2>4. QueueInv'
    BY <1>1, <2>1, <2>2, <2>3 DEF QueueInv
  <2>5. InstallInv'
    BY <1>1, <1>2, <2>1, <2>3 DEF InstallInv, Holding, Revs
  <2> QED BY <1>2, <2>4, <2>5 DEF MultiInv
<1>5. CASE Undone
  <2>1. /\ Fields(job', MultiFields) /\ job'.targets = job.targets /\ job.pc = "undo"
        /\ job'.next = job.next /\ job'.busy = job.busy /\ job.busy = {}
        /\ job'.out = job.out /\ job'.before = job.before /\ job'.lost = job.lost
        /\ job'.atomic = job.atomic /\ job'.pc = "failed"
    BY <1>1, <1>5 DEF Undone, QueueInv, Fields, MultiFields
  <2>2. QueueInv'
    BY <1>1, <2>1 DEF QueueInv
  <2>3. InstallInv'
    BY <1>1, <1>2, <2>1 DEF InstallInv, Holding, Revs
  <2> QED BY <1>2, <2>2, <2>3 DEF MultiInv
<1> QED BY <1>3, <1>4, <1>5

(* An install in one cluster: only in one that has no revision 1.          *)
LEMMA InstallMulti ==
  ASSUME MultiInv, NEW i \in DOMAIN job.targets, InstallAt(i)
  PROVE  MultiInv'
<1>1. WorldInv /\ QueueInv /\ InstallInv /\ others' \in 0 .. MaxOthers /\ job.pc = "run" /\ i \in job.busy
  BY DEF MultiInv, WorldInv, InstallAt
<1> DEFINE n == job.targets[i]
<1>2. n \in ReleaseName /\ Installed \in Content
  BY <1>1, MultiAssumption DEF QueueInv
<1>3. PICK res \in {"ok", "error"} :
        /\ job' = [job EXCEPT !.busy = @ \ {i}, !.out[i] = res]
        /\ res = "ok" => WInstallOk(n, Installed)
        /\ res = "error" => WInstallFails(n, Installed)
  BY DEF InstallAt
<1>4. /\ Fields(job', MultiFields) /\ job'.targets = job.targets /\ job'.pc = "run"
      /\ job'.next = job.next /\ job'.busy = job.busy \ {i}
      /\ job'.out = [job.out EXCEPT ![i] = res]
      /\ job'.before = job.before /\ job'.lost = job.lost /\ job'.atomic = job.atomic
  BY <1>1, <1>3 DEF QueueInv, Fields, MultiFields
<1>5. /\ \A j \in DOMAIN job.targets : job'.out[j] = IF j = i THEN res ELSE job.out[j]
      /\ job'.out = [j \in DOMAIN job.targets |-> job'.out[j]]
  BY <1>1, <1>4 DEF QueueInv
<1> HIDE DEF n
<1>6. WorldInv' /\ \A m \in ReleaseName \ {n} : hist'[m] = hist[m] /\ live'[m] = live[m]
  BY <1>1, <1>2, <1>3, InstallWorld, InstallFailsWorld DEF world
<1>7. \/ hist'[n] = hist[n] /\ live'[n] = live[n] /\ res = "error"
      \/ /\ 1 \notin Revs(n) /\ 1 \in {r.rev : r \in hist'[n]}
         /\ IF res = "ok" THEN live'[n] = Installed ELSE live'[n] = Nothing
  <2>1. Rec(1, "deployed", Installed).rev = 1 /\ Rec(1, "failed", Installed).rev = 1
    BY DEF Rec
  <2>2. CASE WInstallOk(n, Installed) /\ res = "ok"
    BY <1>1, <1>2, <2>1, <2>2, InstallWorld
  <2>3. CASE WInstallFails(n, Installed) /\ res = "error"
    BY <1>1, <1>2, <2>1, <2>3, InstallFailsWorld DEF world
  <2> QED BY <1>3, <2>2, <2>3
<1>8. QueueInv'
  BY <1>1, <1>4, <1>5 DEF QueueInv
<1>9. InstallInv'
  <2>1. ASSUME NEW m \in ReleaseName, 1 \in {r.rev : r \in job.before[m]}
        PROVE  hist'[m] = job.before[m]
    BY <1>1, <1>6, <1>7, <2>1 DEF InstallInv, Revs
  <2>2. ASSUME NEW j \in DOMAIN job.targets, job'.out[j] = "ok"
        PROVE  /\ 1 \notin {r.rev : r \in job.before[job.targets[j]]}
               /\ 1 \in {r.rev : r \in hist'[job.targets[j]]} /\ live'[job.targets[j]] = Installed
    <3>1. job.targets[j] \in ReleaseName
      BY <1>1 DEF QueueInv
    <3>2. CASE job.targets[j] # n
      <4>1. j # i
        BY <3>2 DEF n
      <4> QED BY <1>1, <1>5, <1>6, <2>2, <3>1, <3>2, <4>1 DEF InstallInv, Revs
    <3>3. CASE job.targets[j] = n /\ j # i
      BY <1>1, <1>5, <1>7, <2>2, <3>3 DEF InstallInv, Revs
    <3>4. CASE j = i
      <4>1. res = "ok" /\ job.targets[j] = n
        BY <1>5, <2>2, <3>4 DEF n
      <4>2. 1 \notin Revs(n) /\ 1 \in {r.rev : r \in hist'[n]} /\ live'[n] = Installed
        BY <1>7, <4>1
      <4>3. 1 \notin {r.rev : r \in job.before[n]}
        BY <1>1, <1>2, <4>2 DEF InstallInv, Revs
      <4> QED BY <4>1, <4>2, <4>3
    <3> QED BY <3>2, <3>3, <3>4
  <2>3. ASSUME NEW m \in ReleaseName, hist'[m] # {}, job.before[m] = {}, live'[m] = Installed
        PROVE  m \in job.lost \/ \E j \in DOMAIN job.targets : job.targets[j] = m /\ job'.out[j] = "ok"
    <3>1. Nothing # Installed
      BY <1>2, ReleaseWorldAssumption
    <3>2. CASE m = n /\ res = "ok"
      BY <1>5, <3>2 DEF n
    <3>3. CASE hist'[m] = hist[m] /\ live'[m] = live[m]
      <4>1. Holding(m)
        BY <2>3, <3>3 DEF Holding
      <4>2. CASE m \in job.lost
        BY <4>2
      <4>3. ASSUME NEW j \in DOMAIN job.targets, job.targets[j] = m, job.out[j] = "ok"
            PROVE  \E k \in DOMAIN job.targets : job.targets[k] = m /\ job'.out[k] = "ok"
        <5>1. CASE j # i
          BY <1>5, <4>3, <5>1
        <5>2. j # i
          BY <1>1, <4>3 DEF QueueInv
        <5> QED BY <5>1, <5>2
      <4> QED BY <1>1, <4>1, <4>2, <4>3 DEF InstallInv
    <3> QED BY <1>6, <1>7, <2>3, <3>1, <3>2, <3>3
  <2> QED BY <1>1, <1>4, <2>1, <2>2, <2>3 DEF InstallInv, Holding, Revs
<1> QED BY <1>6, <1>8, <1>9 DEF MultiInv

(* The undo of an install; the cluster where it fails is lost.             *)
LEMMA UndoMulti ==
  ASSUME MultiInv, NEW i \in DOMAIN job.targets, UndoAt(i)
  PROVE  MultiInv'
<1>1. WorldInv /\ QueueInv /\ InstallInv /\ others' \in 0 .. MaxOthers /\ job.pc = "undo" /\ i \in job.busy
  BY DEF MultiInv, WorldInv, UndoAt
<1> DEFINE n == job.targets[i]
<1>2. n \in ReleaseName /\ job.out[i] = "ok"
  <2>1. n \in ReleaseName
    BY <1>1 DEF QueueInv
  <2>2. job.out[i] = "ok"
    BY <1>1 DEF InstallInv
  <2> QED BY <2>1, <2>2
<1>3. \/ WUninstallOk(n) /\ job' = [job EXCEPT !.busy = @ \ {i}]
      \/ WUninstallFails(n) /\ job' = [job EXCEPT !.busy = @ \ {i}, !.lost = @ \cup {n}]
  BY DEF UndoAt
<1>4. /\ Fields(job', MultiFields) /\ job'.targets = job.targets /\ job'.pc = "undo"
      /\ job'.next = job.next /\ job'.busy = job.busy \ {i} /\ job'.out = job.out
      /\ job'.before = job.before /\ job'.atomic = job.atomic
      /\ job'.lost = job.lost \/ job'.lost = job.lost \cup {n}
      /\ WUninstallOk(n) \/ (WUninstallFails(n) /\ n \in job'.lost)
  BY <1>1, <1>3 DEF QueueInv, Fields, MultiFields
<1> HIDE DEF n
<1>5. /\ WorldInv' /\ \A m \in ReleaseName \ {n} : hist'[m] = hist[m] /\ live'[m] = live[m]
      /\ hist'[n] = {} \/ n \in job'.lost
  BY <1>1, <1>2, <1>4, UninstallWorld, UninstallFailsWorld
<1>6. QueueInv'
  BY <1>1, <1>2, <1>4 DEF QueueInv
<1>7. InstallInv'
  <2>1. ASSUME NEW m \in ReleaseName, 1 \in {r.rev : r \in job.before[m]}
        PROVE  hist'[m] = job.before[m]
    <3>1. m # n
      BY <1>1, <1>2, <2>1 DEF InstallInv, n
    <3> QED BY <1>1, <1>5, <2>1, <3>1 DEF InstallInv
  <2>2. ASSUME NEW m \in ReleaseName, hist'[m] # {}, job.before[m] = {}, live'[m] = Installed
        PROVE  m \in job'.lost \/ \E j \in job'.busy : job.targets[j] = m
    <3>1. CASE m = n
      BY <1>4, <1>5, <2>2, <3>1
    <3>2. CASE m # n
      <4>1. Holding(m)
        BY <1>5, <2>2, <3>2 DEF Holding
      <4>2. m \in job.lost \/ \E j \in job.busy : job.targets[j] = m
        BY <1>1, <4>1 DEF InstallInv
      <4> QED BY <1>4, <3>2, <4>2 DEF n
    <3> QED BY <3>1, <3>2
  <2> QED BY <1>1, <1>4, <2>1, <2>2 DEF InstallInv, Holding
<1> QED BY <1>5, <1>6, <1>7 DEF MultiInv

(* Every step of an install in several clusters.                           *)
LEMMA NextMulti ==
  ASSUME MultiInv, [MultiStep]_worldVars
  PROVE  MultiInv'
<1>1. CASE UNCHANGED worldVars
  BY <1>1 DEF worldVars, MultiInv, WorldInv, QueueInv, InstallInv, Holding, Revs, Fields
<1>2. CASE MultiStep
  BY <1>2, QueueMulti, InstallMulti, UndoMulti DEF MultiStep
<1> QED BY <1>1, <1>2

(* What holds in every state of an install in several clusters.            *)
LEMMA MultiInvariant == MultiSpec => []MultiInv
<1>1. WorldInit /\ (\E targets \in Targets, parallel \in Nat, atomic \in BOOLEAN :
                       job = MultiJob(targets, parallel, atomic)) => MultiInv
  BY InitMulti
<1>2. MultiInv /\ [MultiStep]_worldVars => MultiInv'
  BY NextMulti
<1> QED BY <1>1, <1>2, PTL DEF MultiSpec

(* rollbackMulti (multicluster.go): all clusters, or none but the lost.    *)
THEOREM AllOrNone == MultiSpec => []AllClustersOrNone
<1>1. MultiInv => AllClustersOrNone
  <2> SUFFICES ASSUME MultiInv
               PROVE  /\ job.pc = "ok" => \A i \in DOMAIN job.targets : live[job.targets[i]] = Installed
                      /\ job.pc = "failed" /\ job.atomic => InstalledNow \subseteq job.lost
                      /\ \A n \in ReleaseName : 1 \in {r.rev : r \in job.before[n]} => hist[n] = job.before[n]
    BY DEF AllClustersOrNone
  <2> QED BY DEF MultiInv, QueueInv, InstallInv, InstalledNow, Holding
<1> QED BY <1>1, MultiInvariant, PTL

-----------------------------------------------------------------------------
(* The types of the variables the commands share, whichever runs.          *)
THEOREM WorldTypes ==
  CanarySpec \/ RenameSpec \/ PruneSpec \/ PlanSpec \/ MultiSpec => []WorldTypeOK
<1>1. CanaryInv \/ RenameInv \/ PruneInv \/ PlanInv \/ MultiInv => WorldTypeOK
  BY WorldTyped DEF CanaryInv, RenameInv, PruneInv, PlanInv, MultiInv
<1> QED BY <1>1, CanaryInvariant, RenameInvariant, PruneInvariant, PlanInvariant, MultiInvariant, PTL

-----------------------------------------------------------------------------
(* purge.                                                                  *)

(* The types of the variables of a purge.                                  *)
PurgeTypeOK ==
    /\ ns \in [Namespace -> NsState] /\ flags \in SUBSET {"dry", "force", "drop", "ignore"}
    /\ DOMAIN scope \subseteq Namespace
    /\ \A n \in DOMAIN scope : scope[n] \subseteq NsRelease
    /\ jobs \subseteq Namespace \X NsRelease /\ missed \subseteq Namespace \X NsRelease
    /\ at \in {"scan", "releases", "namespaces", "workloads", "pods", "again", "config",
               "delete", "finalize", "sweep", "report", "done"}
    /\ cur \in Namespace /\ dropped \subseteq Namespace /\ failures \in Nat
    /\ pfaults \in 0 .. MaxPurgeFaults /\ status \in {"none", "ok", "error"}
    /\ status # "none" => at = "done"

(* What is in scope, and where the command may be.                         *)
ScopeInv ==
    /\ DOMAIN scope \subseteq Prefixed \ Excluded
    /\ \A n \in Namespace, r \in NsRelease :
          <<n, r>> \in jobs => n \in DOMAIN scope /\ r \in scope[n]
    /\ Has("dry") => at \in {"scan", "done"}
    /\ at \in {"workloads", "pods", "again", "config", "delete", "finalize"} => cur \in Droppable

(* While no call fails: what the steps of the drain have left.             *)
DrainInv ==
    pfaults = MaxPurgeFaults =>
        /\ \A n \in Namespace :
              ns[n].there /\ ~ns[n].ending /\ (ns[n].pods \/ ns[n].workloads) => ns[n].config
        /\ at \in {"pods", "again", "config"} => ~ns[cur].workloads
        /\ at = "config" => ~ns[cur].pods
        /\ Has("force") /\ ~Has("dry") /\ (at = "report" \/ (at = "done" /\ status = "ok")) =>
              \A n \in Namespace : ns[n].pods => ns[n].there

(* Without --force: a release found has its records until its objects are  *)
(* gone, or its last record was not read; one with objects is a job, was   *)
(* not read or has failed; and one with records is a job or a call failed. *)
ForgetInv ==
    ~Has("force") =>
        /\ \A n \in DOMAIN scope, r \in NsRelease :
              r \in ns[n].objects \cap scope[n] => r \in ns[n].records \/ <<n, r>> \in missed
        /\ ~Has("dry") /\ failures = 0 =>
              \A n \in DOMAIN scope, r \in NsRelease :
                  r \in ns[n].objects \cap scope[n] => <<n, r>> \in jobs \/ <<n, r>> \in missed
        /\ ~Has("dry") /\ pfaults = MaxPurgeFaults =>
              \A n \in DOMAIN scope, r \in NsRelease :
                  r \in ns[n].records \cap scope[n] => <<n, r>> \in jobs
        /\ at = "scan" => failures = 0
        /\ at \notin {"scan", "releases", "done"} => jobs = {}
        /\ status = "ok" /\ ~Has("dry") =>
              jobs = {} /\ (~Has("ignore") => failures = 0)

PurgeInv == PurgeTypeOK /\ ScopeInv /\ DrainInv /\ ForgetInv

(* The first state of a purge.                                             *)
LEMMA InitPurge ==
  ASSUME NEW contents \in Furnished, PurgeInit(contents)
  PROVE  PurgeInv
<1>1. PurgeTypeOK
  BY PurgeAssumption DEF PurgeInit, PurgeTypeOK, Furnished
<1>2. ScopeInv
  BY DEF PurgeInit, ScopeInv
<1>3. DrainInv
  BY DEF PurgeInit, DrainInv, Furnished
<1>4. ForgetInv
  BY DEF PurgeInit, ForgetInv
<1> QED BY <1>1, <1>2, <1>3, <1>4 DEF PurgeInv

(* The two scans put into scope what is selected and not excluded, with    *)
(* the releases whose records are there.                                   *)
LEMMA ScanPurge ==
  ASSUME PurgeInv, Scan
  PROVE  PurgeInv'
<1>1. PurgeTypeOK /\ ScopeInv /\ DrainInv /\ ForgetInv /\ at = "scan"
  BY DEF PurgeInv, Scan
<1>2. /\ Found \subseteq Namespace /\ Found \subseteq Prefixed \ Excluded
      /\ Marked \subseteq Namespace /\ Marked \subseteq Prefixed \ Excluded
      /\ \A n \in Found \cup Marked : ns[n].records # {} => n \in Found
      /\ \A n \in Namespace : ns[n].records \subseteq NsRelease
  BY <1>1, PurgeAssumption DEF Found, Marked, PurgeTypeOK, NsState
<1>3. CASE PFault /\ at' = "done" /\ status' = "error" /\ UNCHANGED <<scope, jobs>>
  BY <1>1, <1>3, PurgeAssumption
     DEF Scan, PFault, PurgeInv, PurgeTypeOK, ScopeInv, DrainInv, ForgetInv, Has, Droppable
<1>4. CASE /\ PNoFault
           /\ scope' = [n \in Found \cup Marked |-> ns[n].records]
           /\ jobs' = UNION {{n} \X ns[n].records : n \in Found}
           /\ at' = IF Found \cup Marked = {}
                    THEN IF Has("force") /\ ~Has("dry") THEN "sweep" ELSE "done"
                    ELSE IF Has("dry") THEN "done" ELSE "releases"
           /\ status' = IF at' = "done" THEN "ok" ELSE "none"
  <2>1. \A n, r : <<n, r>> \in jobs' <=> n \in Found /\ r \in ns[n].records
    BY <1>4
  <2>2. jobs' \subseteq Namespace \X NsRelease
    BY <1>2, <1>4
  <2>3. UNCHANGED <<ns, flags, missed, cur, dropped, failures, pfaults>>
    BY <1>4 DEF Scan, PNoFault
  <2>4. PurgeTypeOK'
    BY <1>1, <1>2, <1>4, <2>2, <2>3 DEF PurgeTypeOK
  <2>5. ScopeInv'
    BY <1>1, <1>2, <1>4, <2>1, <2>3 DEF ScopeInv, Has, Droppable
  <2>6. DrainInv'
    <3>1. Has("force") /\ ~Has("dry") => at' \in {"sweep", "releases"}
      BY <1>4
    <3> QED BY <1>1, <1>4, <2>3, <3>1 DEF DrainInv, Has
  <2>7. ForgetInv'
    <3>1. DOMAIN scope' = Found \cup Marked /\ \A n \in DOMAIN scope' : scope'[n] = ns[n].records
      BY <1>4
    <3>2. \A n \in DOMAIN scope' : \A r \in scope'[n] : r \in ns'[n].records /\ <<n, r>> \in jobs'
      BY <1>2, <2>1, <2>3, <3>1
    <3>3. ~Has("force") => at' \in {"releases", "done"}
      BY <1>4
    <3>4. status' = "ok" /\ ~Has("dry") => Found \cup Marked = {}
      BY <1>4
    <3>5. Found = {} => jobs' = {}
      BY <1>4
    <3>6. ~Has("force") => failures = 0
      BY <1>1 DEF ForgetInv
    <3> QED BY <1>1, <1>4, <2>3, <3>1, <3>2, <3>3, <3>4, <3>5, <3>6 DEF ForgetInv, Has
  <2> QED BY <2>4, <2>5, <2>6, <2>7 DEF PurgeInv
<1> QED BY <1>3, <1>4 DEF Scan

(* Other records and objects in one namespace leave the rest as it was.    *)
LEMMA NamespaceLeft ==
  ASSUME ns \in [Namespace -> NsState], NEW n \in Namespace,
         NEW x \in SUBSET NsRelease, NEW y \in SUBSET NsRelease,
         ns' = [ns EXCEPT ![n] = [ns[n] EXCEPT !.records = x, !.objects = y]]
  PROVE  /\ ns' \in [Namespace -> NsState]
         /\ \A m \in Namespace \ {n} : ns'[m] = ns[m]
         /\ ns'[n].records = x /\ ns'[n].objects = y
         /\ ns'[n].there = ns[n].there /\ ns'[n].ending = ns[n].ending
         /\ ns'[n].pods = ns[n].pods /\ ns'[n].workloads = ns[n].workloads
         /\ ns'[n].config = ns[n].config
<1> DEFINE z == [ns[n] EXCEPT !.records = x, !.objects = y]
<1>1. /\ z \in NsState /\ z.records = x /\ z.objects = y
      /\ z.there = ns[n].there /\ z.ending = ns[n].ending /\ z.pods = ns[n].pods
      /\ z.workloads = ns[n].workloads /\ z.config = ns[n].config
  BY DEF NsState
<1>2. ns' = [ns EXCEPT ![n] = z]
  OBVIOUS
<1> HIDE DEF z
<1> QED BY <1>1, <1>2

(* What a job may do: without a failing call both go; else one of the two  *)
(* may stay, and objects stay without a failure only if the last record    *)
(* was not read.                                                           *)
LEMMA JobOutcome ==
  ASSUME PurgeTypeOK, NEW n \in Namespace, NEW r \in NsRelease, PurgeRelease(n, r)
  PROVE  \E x \in {ns[n].records, ns[n].records \ {r}}, y \in {ns[n].objects, ns[n].objects \ {r}} :
            /\ ns' = [ns EXCEPT ![n] = [ns[n] EXCEPT !.records = x, !.objects = y]]
            /\ PNoFault => x = ns[n].records \ {r}
            /\ x = ns[n].records \/ y = ns[n].objects \ {r} \/ <<n, r>> \in missed' \/ Has("force")
            /\ y = ns[n].objects \ {r} \/ <<n, r>> \in missed' \/ failures' = failures + 1 \/ Has("force")
<1> DEFINE Out(x, y) == [ns EXCEPT ![n] = [ns[n] EXCEPT !.records = x, !.objects = y]]
<1>1. ns \in [Namespace -> NsState]
  BY DEF PurgeTypeOK
<1>2. /\ ns = Out(ns[n].records, ns[n].objects)
      /\ Forgotten(n, r) = Out(ns[n].records \ {r}, ns[n].objects)
      /\ KeptOnError(n, r) = Out(ns[n].records, ns[n].objects \ {r})
      /\ Uninstalled(n, r) = Out(ns[n].records \ {r}, ns[n].objects \ {r})
  <2>1. ns[n] \in NsState
    BY <1>1
  <2>2. /\ ns[n] = [ns[n] EXCEPT !.records = ns[n].records, !.objects = ns[n].objects]
        /\ [ns[n] EXCEPT !.records = @ \ {r}] =
              [ns[n] EXCEPT !.records = ns[n].records \ {r}, !.objects = ns[n].objects]
        /\ [ns[n] EXCEPT !.objects = @ \ {r}] =
              [ns[n] EXCEPT !.records = ns[n].records, !.objects = ns[n].objects \ {r}]
    BY <2>1 DEF NsState
  <2>3. /\ ns = [ns EXCEPT ![n] = ns[n]]
        /\ Forgotten(n, r) = [ns EXCEPT ![n] = [ns[n] EXCEPT !.records = @ \ {r}]]
        /\ KeptOnError(n, r) = [ns EXCEPT ![n] = [ns[n] EXCEPT !.objects = @ \ {r}]]
    BY <1>1 DEF Forgotten, KeptOnError
  <2>4. Uninstalled(n, r) = Out(ns[n].records \ {r}, ns[n].objects \ {r})
    <3>1. [ns EXCEPT ![n].objects = @ \ {r}] = [ns EXCEPT ![n] = [ns[n] EXCEPT !.objects = @ \ {r}]]
      BY <1>1
    <3>2. [[ns[n] EXCEPT !.objects = @ \ {r}] EXCEPT !.records = @ \ {r}] =
            [ns[n] EXCEPT !.records = ns[n].records \ {r}, !.objects = ns[n].objects \ {r}]
      BY <2>1 DEF NsState
    <3> QED BY <1>1, <2>1, <3>1, <3>2 DEF Uninstalled, NsState
  <2> QED BY <2>2, <2>3, <2>4
<1> HIDE DEF Out
<1>3. CASE PNoFault /\ ns' = IF Has("force") THEN Forgotten(n, r) ELSE Uninstalled(n, r)
  <2>1. CASE Has("force")
    BY <1>2, <1>3, <2>1 DEF Out
  <2>2. CASE ~Has("force")
    BY <1>2, <1>3, <2>2 DEF Out
  <2> QED BY <2>1, <2>2
<1>4. ASSUME PFault PROVE ~PNoFault
  BY <1>4, PurgeAssumption DEF PFault, PNoFault, PurgeTypeOK
<1>5. CASE PFault /\ JobFails(n, r)
  <2>1. ns' = ns \/ ns' = KeptOnError(n, r)
    BY <1>5 DEF JobFails
  <2> QED BY <1>2, <1>4, <1>5, <2>1 DEF JobFails, Out
<1>6. CASE PFault /\ JobGoesOn(n, r)
  <2>1. CASE Has("force") /\ ns' = ns
    BY <1>2, <1>4, <1>6, <2>1 DEF Out
  <2>2. CASE <<n, r>> \in missed' /\ (ns' = ns \/ ns' = Forgotten(n, r))
    BY <1>2, <1>4, <1>6, <2>2 DEF Out
  <2>3. CASE ns' = KeptOnError(n, r)
    BY <1>2, <1>4, <1>6, <2>3 DEF Out
  <2> QED BY <1>6, <2>1, <2>2, <2>3 DEF JobGoesOn
<1> QED BY <1>3, <1>5, <1>6 DEF PurgeRelease

(* A worker forgets a release only when its objects are gone, or it could  *)
(* not read it.                                                            *)
LEMMA ReleasePurge ==
  ASSUME PurgeInv, NEW n \in Namespace, NEW r \in NsRelease, PurgeRelease(n, r)
  PROVE  PurgeInv'
<1>1. /\ PurgeTypeOK /\ ScopeInv /\ DrainInv /\ ForgetInv
      /\ at = "releases" /\ <<n, r>> \in jobs /\ jobs' = jobs \ {<<n, r>>}
      /\ UNCHANGED <<flags, scope, at, cur, dropped, status>>
  BY DEF PurgeInv, PurgeRelease
<1>2. n \in DOMAIN scope /\ r \in scope[n]
  BY <1>1 DEF ScopeInv
<1>3. \A m \in Namespace, q \in NsRelease : <<m, q>> \in jobs' <=> <<m, q>> \in jobs /\ (m # n \/ q # r)
  BY <1>1
<1>4. PICK x \in {ns[n].records, ns[n].records \ {r}}, y \in {ns[n].objects, ns[n].objects \ {r}} :
        /\ ns' = [ns EXCEPT ![n] = [ns[n] EXCEPT !.records = x, !.objects = y]]
        /\ PNoFault => x = ns[n].records \ {r}
        /\ x = ns[n].records \/ y = ns[n].objects \ {r} \/ <<n, r>> \in missed' \/ Has("force")
        /\ y = ns[n].objects \ {r} \/ <<n, r>> \in missed' \/ failures' = failures + 1 \/ Has("force")
  BY <1>1, JobOutcome
<1>5. /\ ns' \in [Namespace -> NsState]
      /\ \A m \in Namespace \ {n} : ns'[m] = ns[m]
      /\ ns'[n].records = x /\ ns'[n].objects = y
      /\ ns'[n].there = ns[n].there /\ ns'[n].ending = ns[n].ending
      /\ ns'[n].pods = ns[n].pods /\ ns'[n].workloads = ns[n].workloads
      /\ ns'[n].config = ns[n].config
  <2>1. ns \in [Namespace -> NsState] /\ ns[n].records \subseteq NsRelease /\ ns[n].objects \subseteq NsRelease
    BY <1>1 DEF PurgeTypeOK, NsState
  <2>2. x \in SUBSET NsRelease /\ y \in SUBSET NsRelease
    BY <1>4, <2>1
  <2> QED BY <1>4, <2>1, <2>2, NamespaceLeft
<1>6. failures' \in Nat /\ (failures' = 0 => failures = 0 /\ failures' # failures + 1)
  BY <1>1 DEF PurgeRelease, JobFails, JobGoesOn, PurgeTypeOK
<1>7. /\ pfaults' \in 0 .. MaxPurgeFaults
      /\ pfaults' = MaxPurgeFaults => pfaults = MaxPurgeFaults /\ PNoFault
  BY <1>1, PurgeAssumption DEF PurgeRelease, PFault, PNoFault, PurgeTypeOK
<1>8. missed \subseteq missed' /\ missed' \subseteq Namespace \X NsRelease
  BY <1>1 DEF PurgeRelease, JobFails, JobGoesOn, PurgeTypeOK
<1>9. PurgeTypeOK'
  BY <1>1, <1>5, <1>6, <1>7, <1>8 DEF PurgeTypeOK
<1>10. ScopeInv'
  BY <1>1, <1>3 DEF ScopeInv, Has, Droppable
<1>11. DrainInv'
  <2>1. \A m \in Namespace : /\ ns'[m].there = ns[m].there /\ ns'[m].ending = ns[m].ending
                             /\ ns'[m].pods = ns[m].pods /\ ns'[m].workloads = ns[m].workloads
                             /\ ns'[m].config = ns[m].config
    BY <1>5
  <2> QED BY <1>1, <1>7, <2>1 DEF DrainInv, Has
<1>12. ForgetInv'
  <2> SUFFICES ASSUME ~Has("force"), NEW m \in DOMAIN scope, NEW q \in NsRelease
               PROVE  /\ q \in ns'[m].objects \cap scope[m] =>
                            q \in ns'[m].records \/ <<m, q>> \in missed'
                      /\ ~Has("dry") /\ failures' = 0 =>
                            (q \in ns'[m].objects \cap scope[m] =>
                                 <<m, q>> \in jobs' \/ <<m, q>> \in missed')
                      /\ ~Has("dry") /\ pfaults' = MaxPurgeFaults =>
                            (q \in ns'[m].records \cap scope[m] => <<m, q>> \in jobs')
    BY <1>1 DEF ForgetInv, PurgeTypeOK, Has
  <2>1. m \in Namespace
    BY <1>1 DEF PurgeTypeOK
  <2>2. /\ q \in ns'[m].objects => q \in ns[m].objects
        /\ q \in ns'[m].records => q \in ns[m].records
        /\ m # n \/ q # r => (q \in ns[m].records => q \in ns'[m].records)
    BY <1>4, <1>5, <2>1
  <2>3. q \in ns'[m].objects \cap scope[m] => q \in ns'[m].records \/ <<m, q>> \in missed'
    <3>1. CASE m # n \/ q # r
      BY <1>1, <1>8, <2>1, <2>2, <3>1 DEF ForgetInv
    <3>2. CASE m = n /\ q = r
      BY <1>1, <1>4, <1>5, <1>8, <3>2 DEF ForgetInv
    <3> QED BY <3>1, <3>2
  <2>4. ASSUME ~Has("dry"), failures' = 0, q \in ns'[m].objects \cap scope[m]
        PROVE  <<m, q>> \in jobs' \/ <<m, q>> \in missed'
    <3>1. CASE m # n \/ q # r
      BY <1>1, <1>3, <1>6, <1>8, <2>1, <2>2, <2>4, <3>1 DEF ForgetInv
    <3>2. CASE m = n /\ q = r
      BY <1>4, <1>5, <1>6, <2>4, <3>2
    <3> QED BY <3>1, <3>2
  <2>5. ASSUME ~Has("dry"), pfaults' = MaxPurgeFaults, q \in ns'[m].records \cap scope[m]
        PROVE  <<m, q>> \in jobs'
    <3>1. m # n \/ q # r
      BY <1>4, <1>5, <1>7, <2>5
    <3> QED BY <1>1, <1>3, <1>7, <2>1, <2>2, <2>5, <3>1 DEF ForgetInv
  <2> QED BY <2>3, <2>4, <2>5
<1> QED BY <1>9, <1>10, <1>11, <1>12 DEF PurgeInv

(* The steps between the phases of the command.                            *)
LEMMA PhasesPurge ==
  ASSUME PurgeInv,
         ReleasesDone \/ NamespacesDone \/ Report \/ \E n \in Namespace : PickNamespace(n)
  PROVE  PurgeInv'
<1>1. PurgeTypeOK /\ ScopeInv /\ DrainInv /\ ForgetInv
  BY DEF PurgeInv
<1>2. CASE ReleasesDone
  BY <1>1, <1>2 DEF ReleasesDone, rest, PurgeInv, PurgeTypeOK, ScopeInv, DrainInv, ForgetInv,
     Has, Droppable
<1>3. CASE NamespacesDone
  BY <1>1, <1>3 DEF NamespacesDone, rest, PurgeInv, PurgeTypeOK, ScopeInv, DrainInv, ForgetInv,
     Has, Droppable
<1>4. CASE Report
  BY <1>1, <1>4 DEF Report, rest, PurgeInv, PurgeTypeOK, ScopeInv, DrainInv, ForgetInv,
     Has, Droppable
<1>5. ASSUME NEW n \in Namespace, PickNamespace(n) PROVE PurgeInv'
  BY <1>1, <1>5 DEF PickNamespace, rest, PurgeInv, PurgeTypeOK, ScopeInv, DrainInv, ForgetInv,
     Has, Droppable
<1> QED BY <1>2, <1>3, <1>4, <1>5

(* A step on the namespaces that starts no release anew.                   *)
LEMMA NamespacePurge ==
  ASSUME PurgeInv,
         ns' \in [Namespace -> NsState],
         \A n \in Namespace : \/ ns'[n].objects = ns[n].objects /\ ns'[n].records = ns[n].records
                              \/ ns'[n].objects = {} /\ ns'[n].records = {},
         UNCHANGED <<flags, scope, missed, jobs, cur, dropped, failures, status>>,
         PFault \/ PNoFault,
         \/ UNCHANGED at
         \/ /\ at \in {"workloads", "pods", "again", "config", "delete", "finalize", "sweep"}
            /\ at' \in {"pods", "again", "config", "delete", "finalize", "namespaces", "report"}
            /\ at = "sweep" => at' = "report"
  PROVE  /\ PurgeTypeOK' /\ ScopeInv' /\ ForgetInv'
         /\ pfaults' = MaxPurgeFaults => pfaults = MaxPurgeFaults /\ PNoFault
<1>1. PurgeTypeOK /\ ScopeInv /\ ForgetInv
  BY DEF PurgeInv
<1>2. /\ pfaults' \in 0 .. MaxPurgeFaults
      /\ pfaults' = MaxPurgeFaults => pfaults = MaxPurgeFaults /\ PNoFault
  BY <1>1, PurgeAssumption DEF PFault, PNoFault, PurgeTypeOK
<1>3. PurgeTypeOK'
  BY <1>1, <1>2 DEF PurgeTypeOK
<1>4. ScopeInv'
  BY <1>1 DEF ScopeInv, Has, Droppable, PurgeTypeOK
<1>5. ForgetInv'
  <2>1. \A n \in DOMAIN scope : n \in Namespace
    BY <1>1 DEF PurgeTypeOK
  <2> QED BY <1>1, <1>2, <2>1 DEF ForgetInv, Has
<1> QED BY <1>2, <1>3, <1>4, <1>5

(* forceDrainNamespace: the workloads, the pods, those that stay a second  *)
(* time, and what they mounted.                                            *)
LEMMA DrainPurge ==
  ASSUME PurgeInv, DrainWorkloads \/ DrainPods \/ DrainAgain \/ DrainConfig
  PROVE  PurgeInv'
<1>1. /\ PurgeTypeOK /\ ScopeInv /\ DrainInv /\ ns \in [Namespace -> NsState] /\ cur \in Namespace
  BY DEF PurgeInv, PurgeTypeOK
<1>2. UNCHANGED <<flags, scope, missed, jobs, cur, dropped, failures, status>>
  BY DEF DrainWorkloads, DrainPods, DrainAgain, DrainConfig, Drain, rest
<1>3. PFault \/ PNoFault
  BY DEF DrainWorkloads, DrainPods, DrainAgain, DrainConfig, Drain
<1>4. /\ at \in {"workloads", "pods", "again", "config"}
      /\ at' \in {"pods", "again", "config", "delete"}
  BY DEF DrainWorkloads, DrainPods, DrainAgain, DrainConfig, Drain, AfterWorkloads
<1>5. PICK w \in BOOLEAN, p \in BOOLEAN, c \in BOOLEAN :
        /\ ns' = [ns EXCEPT ![cur].workloads = w, ![cur].pods = p, ![cur].config = c]
        /\ w => ns[cur].workloads
        /\ p => ns[cur].pods
        /\ PNoFault =>
             /\ at = "workloads" => at' = "pods" /\ ~w /\ c = ns[cur].config
             /\ at = "pods" => at' = (IF p THEN "again" ELSE "config") /\ c = ns[cur].config
             /\ at = "again" => at' = "config" /\ ~p /\ c = ns[cur].config
             /\ at = "config" => at' = "delete" /\ p = ns[cur].pods /\ ~c
  <2>0. ns[cur].workloads \in BOOLEAN /\ ns[cur].pods \in BOOLEAN /\ ns[cur].config \in BOOLEAN
        /\ ns[cur].dead \in BOOLEAN
    BY <1>1 DEF NsState
  <2> DEFINE W == ns[cur].workloads
             P == ns[cur].pods
             C == ns[cur].config
  <2>1. CASE UNCHANGED ns /\ ~PNoFault
    <3>1. ns' = [ns EXCEPT ![cur].workloads = W, ![cur].pods = P, ![cur].config = C]
      BY <1>1, <2>1 DEF NsState
    <3> QED BY <2>0, <2>1, <3>1
  <2>2. CASE DrainWorkloads /\ PNoFault /\ ns' = [ns EXCEPT ![cur].workloads = FALSE] /\ at' = "pods"
    <3>1. ns' = [ns EXCEPT ![cur].workloads = FALSE, ![cur].pods = P, ![cur].config = C]
      BY <1>1, <2>2 DEF NsState
    <3>2. at = "workloads"
      BY <2>2 DEF DrainWorkloads, Drain
    <3> QED BY <2>0, <2>2, <3>1, <3>2
  <2>3. CASE DrainPods /\ PNoFault
    <3> DEFINE left == [ns EXCEPT ![cur].pods = @ /\ ns[cur].dead]
               q == P /\ ns[cur].dead
    <3>1. at = "pods"
      BY <2>3 DEF DrainPods, Drain
    <3>2. CASE ns' = left /\ at' = (IF left[cur].pods THEN "again" ELSE "config")
      <4>1. ns' = [ns EXCEPT ![cur].workloads = W, ![cur].pods = q, ![cur].config = C]
        BY <1>1, <3>2 DEF NsState
      <4>2. left[cur].pods = q
        BY <1>1 DEF NsState
      <4>3. q \in BOOLEAN
        BY <2>0
      <4>4. at' = IF q THEN "again" ELSE "config"
        BY <3>2, <4>2
      <4> QED BY <2>0, <3>1, <4>1, <4>3, <4>4
    <3>3. ASSUME PFault PROVE FALSE
      BY <1>1, <2>3, <3>3 DEF PFault, PNoFault, PurgeTypeOK
    <3> QED BY <2>3, <3>2, <3>3 DEF DrainPods, Drain
  <2>4. CASE DrainAgain /\ PNoFault /\ ns' = [ns EXCEPT ![cur].pods = FALSE] /\ at' = "config"
    <3>1. ns' = [ns EXCEPT ![cur].workloads = W, ![cur].pods = FALSE, ![cur].config = C]
      BY <1>1, <2>4 DEF NsState
    <3>2. at = "again"
      BY <2>4 DEF DrainAgain, Drain
    <3> QED BY <2>0, <2>4, <3>1, <3>2
  <2>5. CASE DrainConfig /\ PNoFault /\ ns' = [ns EXCEPT ![cur].config = FALSE] /\ at' = "delete"
    <3>1. ns' = [ns EXCEPT ![cur].workloads = W, ![cur].pods = P, ![cur].config = FALSE]
      BY <1>1, <2>5 DEF NsState
    <3>2. at = "config"
      BY <2>5 DEF DrainConfig, Drain
    <3> QED BY <2>0, <2>5, <3>1, <3>2
  <2>6. ASSUME PFault PROVE ~PNoFault
    BY <1>1, <2>6 DEF PFault, PNoFault, PurgeTypeOK
  <2> QED BY <2>1, <2>2, <2>3, <2>4, <2>5, <2>6
          DEF DrainWorkloads, DrainPods, DrainAgain, DrainConfig, Drain, AfterWorkloads
<1>6. /\ ns' \in [Namespace -> NsState]
      /\ \A m \in Namespace \ {cur} : ns'[m] = ns[m]
      /\ ns'[cur].workloads = w /\ ns'[cur].pods = p /\ ns'[cur].config = c
      /\ ns'[cur].there = ns[cur].there /\ ns'[cur].ending = ns[cur].ending
      /\ ns'[cur].objects = ns[cur].objects /\ ns'[cur].records = ns[cur].records
  <2> DEFINE x == [ns[cur] EXCEPT !.workloads = w, !.pods = p, !.config = c]
  <2>1. ns[cur] \in NsState
    BY <1>1
  <2>2. x \in NsState /\ x.workloads = w /\ x.pods = p /\ x.config = c
        /\ x.there = ns[cur].there /\ x.ending = ns[cur].ending
        /\ x.objects = ns[cur].objects /\ x.records = ns[cur].records
    BY <2>1 DEF NsState
  <2>3. ns' = [ns EXCEPT ![cur] = x]
    BY <1>1, <1>5, <2>1 DEF NsState
  <2> HIDE DEF x
  <2> QED BY <1>1, <2>2, <2>3
<1>7. /\ PurgeTypeOK' /\ ScopeInv' /\ ForgetInv'
      /\ pfaults' = MaxPurgeFaults => pfaults = MaxPurgeFaults /\ PNoFault
  BY <1>2, <1>3, <1>4, <1>6, NamespacePurge
<1>8. DrainInv'
  BY <1>1, <1>2, <1>4, <1>5, <1>6, <1>7 DEF DrainInv, Has
<1> QED BY <1>7, <1>8 DEF PurgeInv

(* dropNamespaces and the sweep: what ends with a namespace, and the pods  *)
(* that stay of those that ended.                                          *)
LEMMA DropPurge ==
  ASSUME PurgeInv, DeleteNamespace \/ Finalize \/ Sweep
  PROVE  PurgeInv'
<1>1. /\ PurgeTypeOK /\ ScopeInv /\ DrainInv /\ ns \in [Namespace -> NsState] /\ cur \in Namespace
      /\ ns[cur] \in NsState
  BY DEF PurgeInv, PurgeTypeOK
<1>2. UNCHANGED <<flags, scope, missed, jobs, cur, dropped, failures, status>>
  BY DEF DeleteNamespace, Finalize, Sweep, rest
<1>3. PFault \/ PNoFault
  BY DEF DeleteNamespace, Finalize, Sweep
<1>4. /\ at \in {"delete", "finalize", "sweep"} /\ at' \in {"finalize", "namespaces", "report"}
      /\ at' = "report" <=> at = "sweep"
      /\ at = "sweep" <=> Sweep
  BY DEF DeleteNamespace, Finalize, Sweep
<1>5. ASSUME PFault PROVE ~PNoFault
  BY <1>1, <1>5 DEF PFault, PNoFault, PurgeTypeOK
<1>6. /\ ns' \in [Namespace -> NsState]
      /\ \A n \in Namespace :
           /\ \/ ns'[n].objects = ns[n].objects /\ ns'[n].records = ns[n].records
              \/ ns'[n].objects = {} /\ ns'[n].records = {}
           /\ ns'[n].there => ns[n].there
           /\ \/ ns'[n].ending \/ ~ns'[n].there
              \/ /\ ns'[n].ending = ns[n].ending /\ ns'[n].config = ns[n].config
                 /\ ns'[n].workloads = ns[n].workloads /\ ns'[n].pods = ns[n].pods
      /\ Sweep /\ PNoFault => \A n \in Namespace : ns'[n].pods => ns'[n].there
  <2>1. CASE UNCHANGED ns /\ ~PNoFault
    BY <1>1, <2>1
  <2>2. CASE DeleteNamespace /\ PNoFault
    <3> DEFINE x == Terminated(ns[cur])
    <3>1. at # "sweep"
      BY <2>2 DEF DeleteNamespace
    <3>2. ns' = [ns EXCEPT ![cur] = x]
      BY <1>5, <2>2 DEF DeleteNamespace
    <3>4. /\ x \in NsState /\ x.ending /\ x.objects = {} /\ x.records = {}
          /\ x.there => ns[cur].there
      BY <1>1 DEF Terminated, Emptied, NsState
    <3> HIDE DEF x
    <3> QED BY <1>1, <1>4, <3>1, <3>2, <3>4
  <2>3. CASE Finalize /\ PNoFault
    <3> DEFINE t == ns[cur].there /\ ~ns[cur].ending
               x == [ns[cur] EXCEPT !.there = t]
    <3>1. at # "sweep"
      BY <2>3 DEF Finalize
    <3>2. ns' = [ns EXCEPT ![cur] = x]
      <4>1. ns' = [ns EXCEPT ![cur].there = @ /\ ~ns[cur].ending]
        BY <1>5, <2>3 DEF Finalize
      <4> QED BY <1>1, <4>1 DEF NsState
    <3>3. t \in BOOLEAN
      BY <1>1 DEF NsState
    <3>4. /\ x \in NsState /\ x.there = t /\ x.ending = ns[cur].ending /\ x.config = ns[cur].config
          /\ x.workloads = ns[cur].workloads /\ x.pods = ns[cur].pods
          /\ x.objects = ns[cur].objects /\ x.records = ns[cur].records
      BY <1>1, <3>3 DEF NsState
    <3> HIDE DEF x
    <3> QED BY <1>1, <1>4, <3>1, <3>2, <3>4
  <2>4. CASE Sweep /\ PNoFault
    <3>1. ns' = [n \in Namespace |-> IF ns[n].there THEN ns[n] ELSE [ns[n] EXCEPT !.pods = FALSE]]
      BY <1>5, <2>4 DEF Sweep
    <3>2. ASSUME NEW n \in Namespace
          PROVE  /\ ns'[n] \in NsState
                 /\ ns'[n].there = ns[n].there /\ (ns[n].there => ns'[n] = ns[n])
                 /\ ns'[n].objects = ns[n].objects /\ ns'[n].records = ns[n].records
                 /\ ns'[n].pods => ns'[n].there
      <4>1. ns[n] \in NsState
        BY <1>1
      <4>2. ns'[n] = IF ns[n].there THEN ns[n] ELSE [ns[n] EXCEPT !.pods = FALSE]
        BY <3>1
      <4> QED BY <4>1, <4>2 DEF NsState
    <3>3. ns' \in [Namespace -> NsState]
      BY <3>1, <3>2
    <3> QED BY <1>1, <3>2, <3>3
  <2> QED BY <1>5, <2>1, <2>2, <2>3, <2>4 DEF DeleteNamespace, Finalize, Sweep
<1>7. /\ PurgeTypeOK' /\ ScopeInv' /\ ForgetInv'
      /\ pfaults' = MaxPurgeFaults => pfaults = MaxPurgeFaults /\ PNoFault
  <2>1. \A n \in Namespace : \/ ns'[n].objects = ns[n].objects /\ ns'[n].records = ns[n].records
                             \/ ns'[n].objects = {} /\ ns'[n].records = {}
    BY <1>6
  <2> QED BY <1>2, <1>3, <1>4, <1>6, <2>1, NamespacePurge
<1>8. DrainInv'
  <2> SUFFICES ASSUME pfaults' = MaxPurgeFaults PROVE DrainInv'
    BY DEF DrainInv
  <2>1. pfaults = MaxPurgeFaults /\ PNoFault
    BY <1>7
  <2>2. \A n \in Namespace :
          ns'[n].there /\ ~ns'[n].ending /\ (ns'[n].pods \/ ns'[n].workloads) => ns'[n].config
    BY <1>1, <1>6, <2>1 DEF DrainInv
  <2> QED BY <1>1, <1>2, <1>4, <1>6, <2>1, <2>2 DEF DrainInv, Has
<1> QED BY <1>7, <1>8 DEF PurgeInv

(* A workload puts back a pod where there is what the pod mounts.          *)
LEMMA RespawnPurge ==
  ASSUME PurgeInv, NEW n \in Namespace, Respawn(n)
  PROVE  PurgeInv'
<1>1. /\ PurgeTypeOK /\ ScopeInv /\ DrainInv /\ ns \in [Namespace -> NsState] /\ ns[n] \in NsState
      /\ ns[n].there /\ ~ns[n].ending /\ ns[n].workloads
      /\ UNCHANGED <<flags, scope, missed, jobs, at, cur, dropped, failures, pfaults, status>>
  BY DEF PurgeInv, PurgeTypeOK, Respawn, rest
<1>2. /\ ns' \in [Namespace -> NsState]
      /\ \A m \in Namespace :
           /\ ns'[m].objects = ns[m].objects /\ ns'[m].records = ns[m].records
           /\ ns'[m].there = ns[m].there /\ ns'[m].ending = ns[m].ending
           /\ ns'[m].workloads = ns[m].workloads /\ ns'[m].config = ns[m].config
           /\ m # n => ns'[m] = ns[m]
  <2> DEFINE x == [ns[n] EXCEPT !.pods = TRUE]
  <2>1. ns' = [ns EXCEPT ![n] = x]
    BY <1>1 DEF Respawn, NsState
  <2>2. /\ x \in NsState
        /\ x.objects = ns[n].objects /\ x.records = ns[n].records
        /\ x.there = ns[n].there /\ x.ending = ns[n].ending
        /\ x.workloads = ns[n].workloads /\ x.config = ns[n].config
    BY <1>1 DEF NsState
  <2> HIDE DEF x
  <2> QED BY <1>1, <2>1, <2>2
<1>3. PurgeTypeOK' /\ ScopeInv' /\ ForgetInv'
  BY <1>1, <1>2, NamespacePurge DEF PNoFault
<1>4. DrainInv'
  <2> SUFFICES ASSUME pfaults = MaxPurgeFaults PROVE DrainInv'
    BY <1>1 DEF DrainInv
  <2>1. \A m \in Namespace :
          ns'[m].there /\ ~ns'[m].ending /\ (ns'[m].pods \/ ns'[m].workloads) => ns'[m].config
    BY <1>1, <1>2 DEF DrainInv
  <2>2. at \in {"pods", "again", "config"} => ~ns'[cur].workloads /\ cur # n
    BY <1>1, <1>2 DEF DrainInv, PurgeTypeOK
  <2>3. at = "config" => ~ns'[cur].pods
    BY <1>1, <1>2, <2>2 DEF DrainInv, PurgeTypeOK
  <2>4. (\A m \in Namespace : ns[m].pods => ns[m].there)
           => \A m \in Namespace : ns'[m].pods => ns'[m].there
    BY <1>1, <1>2
  <2> QED BY <1>1, <2>1, <2>2, <2>3, <2>4 DEF DrainInv, Has
<1> QED BY <1>3, <1>4 DEF PurgeInv

(* Every step of a purge.                                                  *)
LEMMA NextPurge ==
  ASSUME PurgeInv, [PurgeStep]_pvars
  PROVE  PurgeInv'
<1>1. CASE UNCHANGED pvars
  BY <1>1 DEF pvars, PurgeInv, PurgeTypeOK, ScopeInv, DrainInv, ForgetInv, Has, Droppable
<1>2. CASE PurgeStep
  BY <1>2, ScanPurge, ReleasePurge, PhasesPurge, DrainPurge, DropPurge, RespawnPurge DEF PurgeStep
<1> QED BY <1>1, <1>2

(* What holds in every state of a purge.                                   *)
THEOREM PurgeInvariant == PurgeSpec => []PurgeInv
<1>1. (\E contents \in Furnished : PurgeInit(contents)) => PurgeInv
  BY InitPurge
<1>2. PurgeInv /\ [PurgeStep]_pvars => PurgeInv'
  BY NextPurge
<1> QED BY <1>1, <1>2, PTL DEF PurgeSpec

(* The order of forceDrainNamespace (purge.go:430-438), and the sweep for  *)
(* what earlier purges left.                                               *)
THEOREM DrainInOrder == PurgeSpec => []PodsGoFirst
<1>1. PurgeInv => PodsGoFirst
  <2> SUFFICES ASSUME PurgeInv, pfaults = MaxPurgeFaults
               PROVE  /\ \A n \in Namespace : ns[n].there /\ ~ns[n].ending /\ ns[n].pods => ns[n].config
                      /\ status = "ok" /\ Has("force") /\ ~Has("dry") =>
                           \A n \in Namespace : ns[n].pods => ns[n].there
    BY DEF PodsGoFirst
  <2> QED BY DEF PurgeInv, PurgeTypeOK, DrainInv
<1> QED BY <1>1, PurgeInvariant, PTL

(* purgeReleases: the records go after the objects of what the uninstall   *)
(* has read.                                                               *)
THEOREM ForgottenInOrder == PurgeSpec => []ForgottenLeavesNothing
<1>1. ASSUME PurgeInv, ~Has("force"), NEW n \in DOMAIN scope, NEW r \in NsRelease
      PROVE  /\ r \in ns[n].objects \cap scope[n] => r \in ns[n].records \/ <<n, r>> \in missed
             /\ status = "ok" /\ ~Has("dry") /\ ~Has("ignore") =>
                  /\ r \in ns[n].objects \cap scope[n] => <<n, r>> \in missed
                  /\ pfaults = MaxPurgeFaults => r \notin ns[n].records \cap scope[n]
  BY <1>1 DEF PurgeInv, ForgetInv
<1>2. PurgeInv => ForgottenLeavesNothing
  BY <1>1 DEF ForgottenLeavesNothing
<1> QED BY <1>2, PurgeInvariant, PTL

(* The steps of dropNamespaces touch only the namespace that is dropped.   *)
LEMMA DropsOnlyCur ==
  ASSUME PurgeInv,
         DrainWorkloads \/ DrainPods \/ DrainAgain \/ DrainConfig \/ DeleteNamespace \/ Finalize
  PROVE  /\ cur \in Droppable /\ ~Has("dry")
         /\ \A n \in Namespace \ {cur} : ns'[n] = ns[n]
<1>1. at \in {"workloads", "pods", "again", "config", "delete", "finalize"}
  BY DEF DrainWorkloads, DrainPods, DrainAgain, DrainConfig, Drain, DeleteNamespace, Finalize
<1>2. PICK x : ns' = [ns EXCEPT ![cur] = x] \/ ns' = ns
  <2>1. CASE DrainWorkloads \/ DrainPods \/ DrainAgain \/ DrainConfig
    BY <2>1 DEF DrainWorkloads, DrainPods, DrainAgain, DrainConfig, Drain
  <2>2. CASE DeleteNamespace \/ Finalize
    BY <2>2 DEF DeleteNamespace, Finalize
  <2> QED BY <2>1, <2>2
<1> QED BY <1>1, <1>2 DEF PurgeInv, PurgeTypeOK, ScopeInv

(* dropNamespaces and the scans: what the flags protect is not touched.    *)
THEOREM PurgeScope == PurgeSpec => PurgeStaysInScope
<1> DEFINE same(n, x) == ns'[n] \in {x, [x EXCEPT !.pods = TRUE]}
           Untouched == \A n \in Namespace :
                             /\ ns[n].there /\ (~InScope(n) \/ Has("dry")) => same(n, ns[n])
                             /\ ns[n].there /\ n \in Reserved =>
                                  same(n, [ns[n] EXCEPT !.records = ns'[n].records,
                                                        !.objects = ns'[n].objects])
<1>1. ASSUME PurgeInv, PurgeStep, NEW n \in Namespace, ns[n].there
      PROVE  /\ (~InScope(n) \/ Has("dry")) => same(n, ns[n])
             /\ n \in Reserved => same(n, [ns[n] EXCEPT !.records = ns'[n].records,
                                                        !.objects = ns'[n].objects])
  <2>1. ns \in [Namespace -> NsState] /\ ns[n] \in NsState
    BY <1>1 DEF PurgeInv, PurgeTypeOK
  <2>2. CASE ns'[n] = ns[n]
    <3>1. ns[n] = [ns[n] EXCEPT !.records = ns'[n].records, !.objects = ns'[n].objects]
      BY <2>1, <2>2 DEF NsState
    <3> QED BY <2>2, <3>1
  <2>3. CASE Scan \/ ReleasesDone \/ NamespacesDone \/ Report \/ \E m \in Namespace : PickNamespace(m)
    <3>1. ns'[n] = ns[n]
      BY <2>3 DEF Scan, ReleasesDone, NamespacesDone, Report, PickNamespace
    <3> QED BY <2>2, <3>1
  <2>4. CASE DrainWorkloads \/ DrainPods \/ DrainAgain \/ DrainConfig \/ DeleteNamespace \/ Finalize
    <3>1. n # cur => ns'[n] = ns[n]
      BY <1>1, <2>4, DropsOnlyCur
    <3>2. InScope(cur) /\ ~Has("dry") /\ cur \notin Reserved
      BY <1>1, <2>4, DropsOnlyCur DEF Droppable, InScope, PurgeInv, ScopeInv
    <3> QED BY <2>2, <3>1, <3>2
  <2>5. CASE Sweep
    <3>1. ns'[n] = ns[n]
      BY <1>1, <2>1, <2>5 DEF Sweep
    <3> QED BY <2>2, <3>1
  <2>6. ASSUME NEW m \in Namespace, Respawn(m)
        PROVE  ns'[n] = ns[n] \/ ns'[n] = [ns[n] EXCEPT !.pods = TRUE]
    BY <2>1, <2>6 DEF Respawn
  <2>7. CASE ns'[n] = [ns[n] EXCEPT !.pods = TRUE]
    <3>1. ns'[n].records = ns[n].records /\ ns'[n].objects = ns[n].objects
      BY <2>1, <2>7 DEF NsState
    <3>2. ns[n] = [ns[n] EXCEPT !.records = ns'[n].records, !.objects = ns'[n].objects]
      BY <2>1, <3>1 DEF NsState
    <3> QED BY <2>7, <3>2
  <2>8. ASSUME NEW m \in Namespace, NEW r \in NsRelease, PurgeRelease(m, r), ns'[n] # ns[n]
        PROVE  /\ InScope(n) /\ ~Has("dry")
               /\ ns'[n] = [ns[n] EXCEPT !.records = ns'[n].records, !.objects = ns'[n].objects]
    <3>1. InScope(m) /\ ~Has("dry")
      BY <1>1, <2>8 DEF PurgeRelease, InScope, PurgeInv, ScopeInv
    <3>2. PICK x, y : ns' = [ns EXCEPT ![m] = [ns[m] EXCEPT !.records = x, !.objects = y]]
      BY <1>1, <2>8, JobOutcome DEF PurgeInv
    <3>3. m = n
      BY <2>1, <2>8, <3>2
    <3>4. ns'[n] = [ns[n] EXCEPT !.records = ns'[n].records, !.objects = ns'[n].objects]
      BY <2>1, <3>2, <3>3 DEF NsState
    <3> QED BY <3>1, <3>3, <3>4
  <2> QED BY <1>1, <2>2, <2>3, <2>4, <2>5, <2>6, <2>7, <2>8 DEF PurgeStep
<1>2. PurgeInv /\ [PurgeStep]_pvars => [Untouched]_pvars
  BY <1>1
<1>3. [][Untouched]_pvars => PurgeStaysInScope
  BY PTL DEF PurgeStaysInScope
<1> QED BY <1>2, <1>3, PurgeInvariant, PTL DEF PurgeSpec
=============================================================================
