---------------------------- MODULE PackageDbProofs ----------------------------
(***************************************************************************)
(* Theorems of PackageDb, for any names, requirements, versions, commands   *)
(* and number of generations, of RemovalPlan, for any dependency graph, and *)
(* of VersionOrder, for any versions.                                       *)
(***************************************************************************)
EXTENDS PackageDb, RemovalPlan, VersionOrder,
        FiniteSetTheorems, SequenceTheorems, WellFoundedInduction, TLAPS

-----------------------------------------------------------------------------
(* The inductive invariant.                                                 *)

Entries(db) == \A k \in DOMAIN db : db[k] \in Info

OneVersion(db) == \A j, k \in DOMAIN db : NameOf(j) = NameOf(k) => j = k

(* Edges are recorded between names of which one requires the other. *)
RealEdges(db) ==
  \A y \in DOMAIN db : /\ \A d \in db[y].depends : NameOf(d) \in requires[NameOf(y)]
                       /\ \A x \in db[y].rdepends : NameOf(y) \in requires[NameOf(x)]

BothEnds(db) ==
  \A y \in DOMAIN db : \A x \in db[y].rdepends \cap DOMAIN db : y \in db[x].depends

FirstVersions(db) == Fixed => \A k \in DOMAIN db : k[2] = 1

Good(db) == /\ DOMAIN db \subseteq Keys
            /\ Entries(db)
            /\ OneVersion(db)
            /\ RealEdges(db)
            /\ BothEnds(db)
            /\ FirstVersions(db)

(* Every name has a newest version. *)
Typed ==
  /\ requires \in [Names -> SUBSET Names]
  /\ offered \in [Names -> SUBSET Versions]
  /\ \A n \in Names : \E v \in offered[n] : \A u \in offered[n] : u =< v
  /\ world \subseteq Names
  /\ ebin \subseteq Names
  /\ Current \in 0..MaxGen
  /\ DOMAIN hist = 0..Current

Recorded == /\ Good(inst)
            /\ \A g \in DOMAIN hist : Good(hist[g].inst)

IInv == Typed /\ Recorded /\ ExposedHasWrapper

LEMMA KeyParts ==
  /\ \A n \in Names, v \in Versions : <<n, v>> \in Keys /\ NameOf(<<n, v>>) = n
  /\ \A k \in Keys : NameOf(k) \in Names /\ k[2] \in Versions /\ k = <<NameOf(k), k[2]>>
BY DEF Keys, NameOf

LEMMA InitIInv == Init => IInv
<1> SUFFICES ASSUME Init PROVE IInv
  OBVIOUS
<1>1. Cardinality({0}) = 1 /\ 0..0 = {0}
  BY FS_Singleton
<1>2. Current = 0
  BY <1>1 DEF Init, Current
<1>3. Typed
  <2>1. 1 \in Versions /\ \A n \in Names : offered[n] = {1}
    BY PackageDbAssumption DEF Init, Versions
  <2>2. offered \in [Names -> SUBSET Versions]
    BY <2>1 DEF Init
  <2>3. 0 \in 0..MaxGen
    BY PackageDbAssumption
  <2> QED BY <1>1, <1>2, <2>1, <2>2, <2>3 DEF Init, Typed
<1>4. DOMAIN Empty = {} /\ Good(Empty)
  BY DEF Empty, Good, Entries, OneVersion, RealEdges, BothEnds, FirstVersions
<1>5. Recorded
  BY <1>4 DEF Init, Recorded
<1>6. ExposedHasWrapper
  BY <1>4 DEF Init, ExposedHasWrapper, Exposed, NamesOf
<1> QED BY <1>3, <1>5, <1>6 DEF IInv

-----------------------------------------------------------------------------
(* The session.                                                             *)

LEMMA NewestOffered ==
  ASSUME Typed, NEW n \in Names
  PROVE  /\ Newest(n) \in offered[n]
         /\ Newest(n) \in Versions
         /\ \A u \in offered[n] : u =< Newest(n)
BY DEF Typed, Newest

LEMMA SelectKey ==
  ASSUME Typed, Good(inst), NEW n \in Names, NEW renew
  PROVE  /\ Select(n, renew) \in Keys
         /\ NameOf(Select(n, renew)) = n
         /\ Fixed => Select(n, renew)[2] = 1
<1> DEFINE kept == {k \in Installed : NameOf(k) = n /\ k[2] \in offered[n]}
<1>1. CASE n \in renew \/ kept = {}
  <2>1. Select(n, renew) = <<n, Newest(n)>>
    BY <1>1 DEF Select
  <2> QED BY <2>1, NewestOffered, KeyParts DEF Fixed
<1>2. CASE ~(n \in renew \/ kept = {})
  <2>1. Select(n, renew) \in kept
    BY <1>2 DEF Select
  <2> QED BY <2>1 DEF Good, Installed, Fixed
<1> QED BY <1>1, <1>2

LEMMA ClosureClosed ==
  ASSUME Typed, NEW names \in SUBSET Names
  PROVE  /\ Closure(names) \subseteq Names
         /\ names \subseteq Closure(names)
         /\ \A m \in Closure(names) : requires[m] \subseteq Closure(names)
BY DEF Typed, Closure

(* What is known of a session whatever its command. *)
IsSession(session) ==
  /\ DOMAIN session \subseteq Keys
  /\ OneVersion(session)
  /\ FirstVersions(session)
  /\ Entries(session)
  /\ \A k \in DOMAIN session :
       /\ session[k].depends = Needs(k, DOMAIN session)
       /\ session[k].rdepends = NeededBy(k, DOMAIN session) \cup RecordedDependents(k)
       /\ \A n \in requires[NameOf(k)] : \E d \in DOMAIN session : NameOf(d) = n

LEMMA SessionIs ==
  ASSUME Typed, Good(inst), NEW delta \in SUBSET Names, NEW renew, NEW request
  PROVE  IsSession(Session(delta, renew, request))
<1> DEFINE keys == Chosen(delta, renew)
           session == Session(delta, renew, request)
<1>1. /\ DOMAIN session = keys
      /\ \A k \in keys : /\ session[k].depends = Needs(k, keys)
                         /\ session[k].rdepends = NeededBy(k, keys) \cup RecordedDependents(k)
  BY DEF Session
<1>t. ASSUME NEW k \in keys, keys \subseteq Keys PROVE session[k] \in Info
  <2>1. RecordedDependents(k) \subseteq Keys
    BY DEF RecordedDependents, Good, Entries, Installed, Info
  <2>2. Needs(k, keys) \subseteq Keys /\ NeededBy(k, keys) \subseteq Keys
    BY <1>t DEF Needs, NeededBy
  <2> QED BY <1>1, <2>1, <2>2 DEF Session, Info
<1>2. \A k \in keys : \E n \in Closure(delta) : k = Select(n, renew)
  BY DEF Chosen
<1>3. ASSUME NEW k \in keys PROVE k \in Keys /\ NameOf(k) \in Closure(delta)
                                  /\ k = Select(NameOf(k), renew) /\ (Fixed => k[2] = 1)
  <2>1. PICK n \in Closure(delta) : k = Select(n, renew)
    BY <1>2
  <2> QED BY <2>1, SelectKey, ClosureClosed
<1>4. OneVersion(session) /\ FirstVersions(session) /\ DOMAIN session \subseteq Keys
  BY <1>1, <1>3 DEF OneVersion, FirstVersions
<1>5. ASSUME NEW k \in keys, NEW n \in requires[NameOf(k)]
      PROVE  \E d \in keys : NameOf(d) = n
  <2>1. n \in Closure(delta) /\ n \in Names
    BY <1>3, <1>5, ClosureClosed
  <2>2. Select(n, renew) \in keys
    BY <2>1 DEF Chosen
  <2> QED BY <2>1, <2>2, SelectKey
<1> HIDE DEF keys, session
<1> SUFFICES IsSession(session)
  BY DEF session
<1> QED BY <1>1, <1>t, <1>4, <1>5 DEF IsSession, Entries

-----------------------------------------------------------------------------
(* The two planners.                                                        *)

LEMMA OrphansForced ==
  ASSUME NEW keys, NEW old
  PROVE  /\ Orphans(keys, old) \subseteq Installed \ (keys \cup old)
         /\ \A y \in Orphans(keys, old) :
               inst[y].rdepends \cap Installed \subseteq old \cup Orphans(keys, old)
<1> DEFINE candidates == {k \in Installed \ (keys \cup old) :
                            ~inst[k].top /\ NameOf(k) \notin Essential}
           Swept(s) == \A k \in candidates :
                          inst[k].rdepends \cap Installed \subseteq old \cup s => k \in s
           IsLeast(s) == Swept(s) /\ \A t \in SUBSET candidates : Swept(t) => s \subseteq t
           common == {k \in candidates : \A t \in SUBSET candidates : Swept(t) => k \in t}
<1>1. Orphans(keys, old) = CHOOSE s \in SUBSET candidates : IsLeast(s)
  BY DEF Orphans, Least
<1>2. IsLeast(common)
  OBVIOUS
<1>3. common \in SUBSET candidates
  OBVIOUS
<1> HIDE DEF common, IsLeast
<1>4. Orphans(keys, old) \in SUBSET candidates /\ IsLeast(Orphans(keys, old))
  BY <1>1, <1>2, <1>3
<1>5. ASSUME NEW y \in Orphans(keys, old)
      PROVE  inst[y].rdepends \cap Installed \subseteq old \cup Orphans(keys, old)
  <2> SUFFICES ASSUME ~(inst[y].rdepends \cap Installed \subseteq old \cup Orphans(keys, old))
               PROVE  FALSE
    OBVIOUS
  <2>1. Swept(Orphans(keys, old) \ {y})
    BY <1>4 DEF IsLeast
  <2> QED BY <1>4, <2>1 DEF IsLeast
<1> QED BY <1>4, <1>5

LEMMA RemovalForced ==
  ASSUME NEW asked \in SUBSET Installed
  PROVE  /\ RemovalSet(asked) \subseteq Installed
         /\ \A y \in RemovalSet(asked) :
              \/ inst[y].rdepends \cap Installed \subseteq asked
              \/ inst[y].rdepends \subseteq RemovalSet(asked)
<1> DEFINE granted == {k \in asked : inst[k].rdepends \cap Installed \subseteq asked}
           Swept(s) == /\ granted \subseteq s
                        /\ \A x \in s, y \in Installed :
                             y \in inst[x].depends /\ ~Kept(y) /\ inst[y].rdepends \subseteq s
                               => y \in s
           IsLeast(s) == Swept(s) /\ \A t \in SUBSET Installed : Swept(t) => s \subseteq t
           common == {k \in Installed : \A t \in SUBSET Installed : Swept(t) => k \in t}
<1>1. RemovalSet(asked) = CHOOSE s \in SUBSET Installed : IsLeast(s)
  BY DEF RemovalSet, Least
<1>2. IsLeast(common)
  OBVIOUS
<1>3. common \in SUBSET Installed
  OBVIOUS
<1> HIDE DEF common, IsLeast
<1>4. RemovalSet(asked) \in SUBSET Installed /\ IsLeast(RemovalSet(asked))
  BY <1>1, <1>2, <1>3
<1>5. ASSUME NEW y \in RemovalSet(asked), y \notin granted,
             ~(inst[y].rdepends \subseteq RemovalSet(asked))
      PROVE  FALSE
  <2>1. Swept(RemovalSet(asked) \ {y})
    BY <1>4, <1>5 DEF IsLeast
  <2> QED BY <1>4, <2>1 DEF IsLeast
<1> QED BY <1>4, <1>5

-----------------------------------------------------------------------------
(* The record.                                                              *)

LEMMA ExceptExposed ==
  ASSUME NEW e \in Info, NEW b \in BOOLEAN, NEW f, f = [e EXCEPT !.exposed = b]
  PROVE  /\ f \in Info /\ f.top = e.top /\ f.depends = e.depends /\ f.rdepends = e.rdepends
         /\ f.exposed = b
BY DEF Info

LEMMA ExceptRdepends ==
  ASSUME NEW e \in Info, NEW s \in SUBSET Keys, NEW f, f = [e EXCEPT !.rdepends = s]
  PROVE  /\ f \in Info /\ f.depends = e.depends /\ f.rdepends = s /\ f.exposed = e.exposed
BY DEF Info

(* What is recorded: the entries of the session keep their ends, from those *)
(* of the others the dependents that went and did depend on them are struck *)
(* out.                                                                     *)
IsRecord(db, session, removed) ==
  /\ DOMAIN db = (Installed \ removed) \cup (DOMAIN session \ Installed)
  /\ Entries(db)
  /\ \A k \in DOMAIN db \cap DOMAIN session :
       /\ db[k].top = session[k].top
       /\ db[k].depends = session[k].depends
       /\ db[k].rdepends = session[k].rdepends
  /\ \A k \in DOMAIN db \ DOMAIN session :
       /\ k \in Installed \ removed
       /\ db[k].depends = inst[k].depends
       /\ db[k].rdepends = {r \in inst[k].rdepends : ~(r \in removed /\ k \in inst[r].depends)}

(* Exposed are those that were, and the session's as it or a new            *)
(* meta-package has it.                                                     *)
IsExposure(db, session, removed) ==
  /\ \A k \in DOMAIN db \cap DOMAIN session :
       db[k].exposed <=> \/ session[k].exposed
                         \/ k \in MetaExposed(DOMAIN session \ Installed, session)
  /\ \A k \in DOMAIN db \ DOMAIN session :
       k \in Installed \ removed /\ db[k].exposed = inst[k].exposed

LEMMA RecordIs ==
  ASSUME NEW session, NEW removed, Entries(session), Entries(inst)
  PROVE  /\ IsRecord(Record(session, removed), session, removed)
         /\ IsExposure(Record(session, removed), session, removed)
<1> DEFINE db == Record(session, removed)
<1>0. /\ \A k \in DOMAIN session : session[k] \in Info
      /\ \A k \in Installed : inst[k] \in Info
  BY DEF Entries, Installed
<1>1. DOMAIN db = (Installed \ removed) \cup (DOMAIN session \ Installed)
  BY DEF Record
<1>2. ASSUME NEW k \in DOMAIN db \cap DOMAIN session
      PROVE  db[k] = [session[k] EXCEPT !.exposed =
                        session[k].exposed \/ k \in MetaExposed(DOMAIN session \ Installed, session)]
  BY DEF Record
<1>3. ASSUME NEW k \in DOMAIN db \ DOMAIN session
      PROVE  /\ k \in Installed \ removed
             /\ db[k] = [inst[k] EXCEPT !.rdepends =
                           {r \in inst[k].rdepends : ~(r \in removed /\ k \in inst[r].depends)}]
  BY <1>1 DEF Record
<1>4. ASSUME NEW k \in DOMAIN db \cap DOMAIN session
      PROVE  /\ db[k] \in Info
             /\ db[k].top = session[k].top
             /\ db[k].depends = session[k].depends
             /\ db[k].rdepends = session[k].rdepends
             /\ db[k].exposed <=> \/ session[k].exposed
                                  \/ k \in MetaExposed(DOMAIN session \ Installed, session)
  <2> DEFINE b == session[k].exposed \/ k \in MetaExposed(DOMAIN session \ Installed, session)
  <2>1. b \in BOOLEAN /\ session[k] \in Info
    BY <1>0
  <2>2. db[k] = [session[k] EXCEPT !.exposed = b]
    BY <1>2
  <2> HIDE DEF b, db
  <2>3. /\ db[k] \in Info /\ db[k].top = session[k].top
        /\ db[k].depends = session[k].depends /\ db[k].rdepends = session[k].rdepends
        /\ db[k].exposed = b
    BY <2>1, <2>2, ExceptExposed
  <2> QED BY <2>3 DEF b
<1>5. ASSUME NEW k \in DOMAIN db \ DOMAIN session
      PROVE  /\ db[k] \in Info
             /\ db[k].depends = inst[k].depends
             /\ db[k].rdepends = {r \in inst[k].rdepends : ~(r \in removed /\ k \in inst[r].depends)}
             /\ db[k].exposed = inst[k].exposed
  <2> DEFINE s == {r \in inst[k].rdepends : ~(r \in removed /\ k \in inst[r].depends)}
  <2>1. inst[k] \in Info /\ inst[k].rdepends \in SUBSET Keys
    BY <1>0, <1>3 DEF Info
  <2>2. s \in SUBSET Keys /\ db[k] = [inst[k] EXCEPT !.rdepends = s]
    BY <1>3, <2>1
  <2> HIDE DEF s, db
  <2>3. /\ db[k] \in Info /\ db[k].depends = inst[k].depends /\ db[k].rdepends = s
        /\ db[k].exposed = inst[k].exposed
    BY <2>1, <2>2 DEF Info
  <2> QED BY <2>3 DEF s
<1> HIDE DEF db
<1> SUFFICES IsRecord(db, session, removed) /\ IsExposure(db, session, removed)
  BY DEF db
<1>6. Entries(db)
  BY <1>4, <1>5 DEF Entries
<1>7. IsRecord(db, session, removed)
  BY <1>1, <1>3, <1>4, <1>5, <1>6 DEF IsRecord
<1>8. IsExposure(db, session, removed)
  BY <1>3, <1>4, <1>5 DEF IsExposure
<1> QED BY <1>7, <1>8

(* What was chosen and not replaced stays; a package outside the session    *)
(* depends on nothing in it that has another version there.                 *)
LEMMA SessionStays ==
  ASSUME Good(inst), NEW session, IsSession(session), NEW old,
         old = Replaced(DOMAIN session \ Installed)
  PROVE  /\ DOMAIN session \cap (old \cup Orphans(DOMAIN session, old)) = {}
         /\ \A y \in Installed \ old, k \in DOMAIN session : NameOf(y) = NameOf(k) => y = k
<1>1. \A y \in Installed \ old, k \in DOMAIN session : NameOf(y) = NameOf(k) => y = k
  BY DEF Replaced, Good, OneVersion, Installed
<1>2. DOMAIN session \cap old = {}
  BY DEF Replaced, IsSession, OneVersion
<1>3. DOMAIN session \cap Orphans(DOMAIN session, old) = {}
  BY OrphansForced
<1> QED BY <1>1, <1>2, <1>3

LEMMA SessionRecorded ==
  ASSUME Typed, Good(inst), NEW session, IsSession(session), NEW old, NEW removed, NEW db,
         old = Replaced(DOMAIN session \ Installed),
         removed = old \cup Orphans(DOMAIN session, old),
         db = Record(session, removed)
  PROVE  Good(db) /\ DOMAIN db = (Installed \ removed) \cup DOMAIN session
<1>1. /\ DOMAIN db = (Installed \ removed) \cup (DOMAIN session \ Installed)
      /\ Entries(db)
      /\ \A k \in DOMAIN db \cap DOMAIN session :
           /\ db[k].depends = session[k].depends
           /\ db[k].rdepends = session[k].rdepends
      /\ \A k \in DOMAIN db \ DOMAIN session :
           /\ k \in Installed \ removed
           /\ db[k].depends = inst[k].depends
           /\ db[k].rdepends \subseteq inst[k].rdepends
  <2>1. IsRecord(db, session, removed)
    BY RecordIs DEF IsSession, Good
  <2>2. ASSUME NEW k \in DOMAIN db \ DOMAIN session
        PROVE  /\ k \in Installed \ removed
               /\ db[k].depends = inst[k].depends
               /\ db[k].rdepends \subseteq inst[k].rdepends
    <3>1. /\ k \in Installed \ removed
          /\ db[k].depends = inst[k].depends
          /\ db[k].rdepends = {r \in inst[k].rdepends : ~(r \in removed /\ k \in inst[r].depends)}
      BY <2>1 DEF IsRecord
    <3> QED BY <3>1
  <2>3. /\ DOMAIN db = (Installed \ removed) \cup (DOMAIN session \ Installed)
        /\ Entries(db)
        /\ \A k \in DOMAIN db \cap DOMAIN session :
             /\ db[k].depends = session[k].depends
             /\ db[k].rdepends = session[k].rdepends
    BY <2>1 DEF IsRecord
  <2> QED BY <2>2, <2>3
<1>2. DOMAIN session \cap removed = {}
  BY SessionStays
<1>3. DOMAIN db = (Installed \ removed) \cup DOMAIN session
  BY <1>1, <1>2
<1>4. \A y \in DOMAIN db, k \in DOMAIN session : NameOf(y) = NameOf(k) => y = k
  BY <1>1, SessionStays DEF IsSession, OneVersion
<1>5. OneVersion(db)
  <2> SUFFICES ASSUME NEW y \in DOMAIN db, NEW k \in DOMAIN db, NameOf(y) = NameOf(k) PROVE y = k
    BY DEF OneVersion
  <2>1. CASE k \in DOMAIN session
    BY <1>4, <2>1
  <2>2. CASE y \in DOMAIN session
    BY <1>4, <2>2
  <2>3. CASE y \notin DOMAIN session /\ k \notin DOMAIN session
    <3>1. y \in Installed /\ k \in Installed
      BY <1>1, <2>3
    <3> QED BY <3>1 DEF Good, OneVersion, Installed
  <2> QED BY <2>1, <2>2, <2>3
<1>6. RealEdges(db)
  <2>1. ASSUME NEW y \in DOMAIN session
        PROVE  /\ \A d \in session[y].depends : NameOf(d) \in requires[NameOf(y)]
               /\ \A x \in session[y].rdepends : NameOf(y) \in requires[NameOf(x)]
    BY DEF IsSession, Needs, NeededBy, RecordedDependents, Good, RealEdges, Installed
  <2>2. ASSUME NEW y \in DOMAIN db, y \notin DOMAIN session
        PROVE  /\ \A d \in db[y].depends : NameOf(d) \in requires[NameOf(y)]
               /\ \A x \in db[y].rdepends : NameOf(y) \in requires[NameOf(x)]
    <3>1. /\ y \in DOMAIN inst /\ db[y].depends = inst[y].depends
          /\ db[y].rdepends \subseteq inst[y].rdepends
      BY <1>1, <2>2 DEF Installed
    <3> QED BY <3>1 DEF Good, RealEdges
  <2>3. ASSUME NEW y \in DOMAIN db, y \in DOMAIN session
        PROVE  /\ \A d \in db[y].depends : NameOf(d) \in requires[NameOf(y)]
               /\ \A x \in db[y].rdepends : NameOf(y) \in requires[NameOf(x)]
    BY <1>1, <2>1, <2>3
  <2> QED BY <2>2, <2>3 DEF RealEdges
<1>7. BothEnds(db)
  <2> SUFFICES ASSUME NEW y \in DOMAIN db, NEW x \in db[y].rdepends \cap DOMAIN db
               PROVE  y \in db[x].depends
    BY Zenon DEF BothEnds
  <2>1. NameOf(y) \in requires[NameOf(x)]
    BY <1>6 DEF RealEdges
  <2>2. CASE x \in DOMAIN session
    <3>1. PICK d \in DOMAIN session : NameOf(d) = NameOf(y)
      BY <2>1, <2>2 DEF IsSession
    <3>2. y \in DOMAIN session
      BY <1>4, <3>1
    <3>3. y \in Needs(x, DOMAIN session)
      BY <2>1, <3>2 DEF Needs
    <3>4. db[x].depends = session[x].depends /\ session[x].depends = Needs(x, DOMAIN session)
      BY <1>1, <2>2 DEF IsSession
    <3> QED BY <3>3, <3>4
  <2>3. CASE x \notin DOMAIN session
    <3>1. x \in Installed /\ db[x].depends = inst[x].depends
      BY <1>1, <2>3
    <3>2. y \in Installed /\ x \in inst[y].rdepends
      <4>1. CASE y \in DOMAIN session
        <5>1. x \in session[y].rdepends
          BY <1>1, <4>1
        <5>2. x \notin NeededBy(y, DOMAIN session)
          BY <2>3 DEF NeededBy
        <5>3. x \in RecordedDependents(y)
          BY <4>1, <5>1, <5>2 DEF IsSession
        <5> QED BY <5>3 DEF RecordedDependents
      <4>2. CASE y \notin DOMAIN session
        BY <1>1, <4>2
      <4> QED BY <4>1, <4>2
    <3> QED BY <3>1, <3>2 DEF Good, BothEnds, Installed
  <2> QED BY <2>2, <2>3
<1>8. FirstVersions(db) /\ DOMAIN db \subseteq Keys
  BY <1>3 DEF FirstVersions, Good, IsSession, Installed
<1> QED BY <1>1, <1>3, <1>5, <1>6, <1>7, <1>8 DEF Good

LEMMA RemovalRecorded ==
  ASSUME Good(inst), NEW removed, NEW db, db = Record(Empty, removed)
  PROVE  Good(db)
<1>1. DOMAIN Empty = {}
  BY DEF Empty
<1>2. /\ DOMAIN db = Installed \ removed
      /\ Entries(db)
      /\ \A k \in DOMAIN db :
           /\ db[k].depends = inst[k].depends
           /\ db[k].rdepends \subseteq inst[k].rdepends
  <2>1. IsRecord(db, Empty, removed)
    BY <1>1, RecordIs DEF Good, Entries
  <2> QED BY <1>1, <2>1 DEF IsRecord
<1> QED BY <1>2 DEF Good, OneVersion, RealEdges, BothEnds, FirstVersions, Installed

LEMMA RestoreRecorded ==
  ASSUME Good(inst), NEW target, Good(target), NEW db, db = Record(target, Installed \ DOMAIN target)
  PROVE  /\ Good(db)
         /\ DOMAIN db = DOMAIN target
         /\ \A k \in DOMAIN db : /\ db[k].top = target[k].top
                                 /\ db[k].depends = target[k].depends
                                 /\ db[k].rdepends = target[k].rdepends
                                 /\ target[k].exposed => db[k].exposed
<1>1. /\ DOMAIN db = DOMAIN target
      /\ Entries(db)
      /\ \A k \in DOMAIN db : /\ db[k].top = target[k].top
                              /\ db[k].depends = target[k].depends
                              /\ db[k].rdepends = target[k].rdepends
                              /\ target[k].exposed => db[k].exposed
  <2>2. IsRecord(db, target, Installed \ DOMAIN target)
        /\ IsExposure(db, target, Installed \ DOMAIN target)
    BY RecordIs DEF Good
  <2>3. DOMAIN db = DOMAIN target
    BY <2>2 DEF IsRecord
  <2> QED BY <2>2, <2>3 DEF IsRecord, IsExposure
<1>2. Good(db)
  BY <1>1 DEF Good, OneVersion, RealEdges, BothEnds, FirstVersions
<1> QED BY <1>1, <1>2

-----------------------------------------------------------------------------
(* The commands.                                                            *)

LEMMA ExecuteKeeps ==
  ASSUME IInv, NEW session, NEW removed, NEW newWorld, Execute(session, removed, newWorld),
         Good(Record(session, removed)), Entries(session), DOMAIN session \subseteq Keys,
         newWorld \subseteq Names
  PROVE  IInv'
<1> DEFINE db == Record(session, removed)
<1>1. /\ ebin' = Wrappers(session, removed)
      /\ requires' = requires /\ offered' = offered
      /\ \/ UNCHANGED <<inst, world, hist>>
         \/ /\ Current < MaxGen
            /\ world' = newWorld
            /\ inst' = db
            /\ hist' = [g \in 0..Current + 1 |->
                           IF g =< Current THEN hist[g] ELSE [inst |-> db, world |-> newWorld]]
  BY DEF Execute
<1>2. \A b : Good(b)' <=> Good(b)
  BY <1>1 DEF Good, OneVersion, RealEdges, BothEnds, FirstVersions, Fixed
<1>3. Typed'
  <2>1. world' \subseteq Names
    BY <1>1 DEF IInv, Typed
  <2>2. ebin' \subseteq Names
    <3>1. \A keys : keys \subseteq Keys => NamesOf(keys) \subseteq Names
      BY KeyParts DEF NamesOf
    <3>2. Exposed(session) \subseteq Keys
      BY DEF Exposed
    <3>3. MetaExposed(DOMAIN session \ Installed, session) \subseteq Keys
      BY DEF MetaExposed
    <3> QED BY <1>1, <3>1, <3>2, <3>3 DEF Wrappers, IInv, Typed
  <2>3. CASE hist' = hist
    BY <1>1, <2>1, <2>2, <2>3 DEF IInv, Typed, Current
  <2>4. CASE hist' # hist
    <3>1. DOMAIN hist' = 0..Current + 1 /\ Current \in Nat /\ Current + 1 \in 0..MaxGen
      <4>1. DOMAIN hist' = 0..Current + 1 /\ Current < MaxGen /\ Current \in 0..MaxGen
        BY <1>1, <2>4 DEF IInv, Typed
      <4> QED BY <4>1, PackageDbAssumption
    <3>2. Current + 1 \in Int /\ 0 \in Int /\ ~(0 > Current + 1)
      BY <3>1
    <3>3. Cardinality(0..Current + 1) = Current + 1 - 0 + 1
      BY <3>2, FS_Interval
    <3>4. Current' = Current + 1
      BY <3>1, <3>3 DEF Current
    <3> QED BY <1>1, <2>1, <2>2, <3>1, <3>4 DEF IInv, Typed
  <2> QED BY <2>3, <2>4
<1>4. Recorded'
  <2>1. CASE UNCHANGED <<inst, hist>>
    BY <1>2, <2>1 DEF IInv, Recorded
  <2>2. CASE /\ inst' = db
             /\ hist' = [g \in 0..Current + 1 |->
                           IF g =< Current THEN hist[g] ELSE [inst |-> db, world |-> newWorld]]
    <3>1. Good(db)
      OBVIOUS
    <3> HIDE DEF db
    <3>2. ASSUME NEW g \in DOMAIN hist' PROVE Good(hist'[g].inst)
      <4>1. CASE g =< Current
        <5>1. g \in DOMAIN hist
          BY <2>2, <4>1 DEF IInv, Typed
        <5> QED BY <2>2, <4>1, <5>1 DEF IInv, Recorded
      <4>2. CASE ~(g =< Current)
        BY <2>2, <3>1, <4>2
      <4> QED BY <4>1, <4>2
    <3> QED BY <1>2, <2>2, <3>1, <3>2 DEF Recorded
  <2> QED BY <1>1, <2>1, <2>2
<1>5. ExposedHasWrapper'
  <2> SUFFICES ASSUME NEW k \in DOMAIN inst', inst'[k].exposed PROVE NameOf(k) \in ebin'
    BY DEF ExposedHasWrapper, Exposed, NamesOf
  <2>1. \A j, i \in Installed : NameOf(j) = NameOf(i) => j = i
    BY DEF IInv, Recorded, Good, OneVersion, Installed
  <2>2. ASSUME k \in Installed \ removed, inst[k].exposed PROVE NameOf(k) \in ebin'
    <3>1. NameOf(k) \in ebin
      BY <2>2 DEF IInv, ExposedHasWrapper, Exposed, NamesOf, Installed
    <3>2. NameOf(k) \notin NamesOf(removed \cap Exposed(inst))
      BY <2>1, <2>2 DEF NamesOf, Exposed, Installed
    <3> QED BY <1>1, <3>1, <3>2 DEF Wrappers
  <2>3. CASE inst' = inst /\ removed = {}
    BY <2>2, <2>3 DEF Installed
  <2>4. CASE inst' = db
    <3>1. /\ k \in DOMAIN session => \/ session[k].exposed
                                     \/ k \in MetaExposed(DOMAIN session \ Installed, session)
          /\ k \notin DOMAIN session => k \in Installed \ removed /\ inst[k].exposed
      <4>1. IsExposure(db, session, removed)
        BY RecordIs DEF IInv, Recorded, Good
      <4> HIDE DEF db
      <4> QED BY <2>4, <4>1 DEF IsExposure
    <3>2. CASE k \in DOMAIN session
      BY <1>1, <3>1, <3>2 DEF Wrappers, NamesOf, Exposed
    <3> QED BY <2>2, <3>1, <3>2
  <2> QED BY <2>3, <2>4 DEF Execute
<1> QED BY <1>3, <1>4, <1>5 DEF IInv

LEMMA ExecuteSessionKeeps ==
  ASSUME IInv, NEW session, IsSession(session), NEW newWorld, newWorld \subseteq Names,
         ExecuteSession(session, newWorld)
  PROVE  IInv'
<1> DEFINE old == Replaced(DOMAIN session \ Installed)
           removed == old \cup Orphans(DOMAIN session, old)
<1>1. Execute(session, removed, newWorld)
  BY DEF ExecuteSession
<1>2. Good(Record(session, removed)) /\ Entries(session) /\ DOMAIN session \subseteq Keys
  BY SessionRecorded DEF IInv, Recorded, IsSession
<1> HIDE DEF removed
<1> QED BY <1>1, <1>2, ExecuteKeeps

LEMMA PublishUnfixes ==
  ASSUME IInv, NEW n \in Names, Publish(n)
  PROVE  ~Fixed'
<1>1. PICK older \in {offered[n], {}} : offered' = [offered EXCEPT ![n] = older \cup {Newest(n) + 1}]
  BY DEF Publish
<1>2. Newest(n) \in Versions /\ offered \in [Names -> SUBSET Versions]
  BY NewestOffered DEF IInv, Typed
<1>3. Newest(n) + 1 # 1
  BY <1>2 DEF Versions
<1>4. Newest(n) + 1 \in offered'[n]
  BY <1>1, <1>2
<1> QED BY <1>3, <1>4 DEF Fixed

LEMMA PublishKeeps ==
  ASSUME IInv, NEW n \in Names, Publish(n)
  PROVE  IInv'
<1>1. PICK older \in {offered[n], {}} : offered' = [offered EXCEPT ![n] = older \cup {Newest(n) + 1}]
  BY DEF Publish
<1>2. /\ UNCHANGED <<requires, inst, world, ebin, hist>>
      /\ Newest(n) \in offered[n] /\ Newest(n) \in Versions /\ Newest(n) < MaxVersion
      /\ \A u \in offered[n] : u =< Newest(n)
      /\ offered[n] \in SUBSET Versions
      /\ offered \in [Names -> SUBSET Versions]
  BY NewestOffered DEF Publish, IInv, Typed
<1>3. /\ Newest(n) \in Nat /\ Newest(n) + 1 \in Versions /\ Newest(n) + 1 # 1
      /\ \A u \in offered[n] : u \in Nat /\ u =< Newest(n) + 1
  BY <1>2, PackageDbAssumption DEF Versions
<1>4. offered'[n] = older \cup {Newest(n) + 1} /\ \A m \in Names \ {n} : offered'[m] = offered[m]
  BY <1>1, <1>2
<1>5. Typed'
  <2>1. offered' \in [Names -> SUBSET Versions]
    BY <1>1, <1>2, <1>3
  <2>2. \A u \in offered'[n] : u =< Newest(n) + 1
    BY <1>3, <1>4
  <2>3. \A m \in Names : \E v \in offered'[m] : \A u \in offered'[m] : u =< v
    BY <1>4, <2>2 DEF IInv, Typed
  <2> QED BY <1>2, <2>1, <2>3 DEF IInv, Typed, Current
<1>6. ~Fixed'
  BY PublishUnfixes
<1>7. \A b : Good(b) => Good(b)'
  BY <1>2, <1>6 DEF Good, Entries, OneVersion, RealEdges, BothEnds, FirstVersions
<1>8. Recorded' /\ ExposedHasWrapper'
  BY <1>2, <1>7 DEF IInv, Recorded, ExposedHasWrapper, Exposed
<1> QED BY <1>5, <1>8 DEF IInv

LEMMA NextIInv == IInv /\ [Next]_vars => IInv'
<1> SUFFICES ASSUME IInv, [Next]_vars PROVE IInv'
  OBVIOUS
<1>0. /\ Typed /\ Good(inst) /\ Specs \subseteq SUBSET Names /\ Essential \subseteq Names
      /\ world \subseteq Names
  BY PackageDbAssumption DEF IInv, Recorded, Typed
<1>1. ASSUME NEW specs \in Specs, Install(specs) PROVE IInv'
  <2>1. specs \cup (Essential \ world) \in SUBSET Names /\ world \cup specs \subseteq Names
    BY <1>0
  <2> QED BY <1>0, <1>1, <2>1, SessionIs, ExecuteSessionKeeps DEF Install
<1>2. ASSUME NEW specs \in Specs, Remove(specs) PROVE IInv'
  <2>1. /\ Execute(Empty, RemovalSet({k \in Installed : NameOf(k) \in specs}), world \ specs)
        /\ Good(Record(Empty, RemovalSet({k \in Installed : NameOf(k) \in specs})))
    BY <1>0, <1>2, RemovalRecorded DEF Remove
  <2>2. Entries(Empty) /\ DOMAIN Empty \subseteq Keys /\ world \ specs \subseteq Names
    BY <1>0 DEF Entries, Empty
  <2> QED BY <2>1, <2>2, ExecuteKeeps
<1>3. ASSUME NEW specs \in Specs, NEW full \in BOOLEAN, UpgradeSome(specs, full) PROVE IInv'
  <2>1. specs \in SUBSET Names /\ world \cup specs \subseteq Names
    BY <1>0
  <2> QED BY <1>0, <1>3, <2>1, SessionIs, ExecuteSessionKeeps DEF UpgradeSome
<1>4. ASSUME NEW full \in BOOLEAN, UpgradeAll(full) PROVE IInv'
  BY <1>0, <1>4, SessionIs, ExecuteSessionKeeps DEF UpgradeAll
<1>5. ASSUME NEW g \in 0..MaxGen, Restore(g) PROVE IInv'
  <2>1. /\ Execute(hist[g].inst, Installed \ DOMAIN hist[g].inst, {})
        /\ Good(hist[g].inst)
    BY <1>5 DEF Restore, IInv, Recorded
  <2>2. Good(Record(hist[g].inst, Installed \ DOMAIN hist[g].inst))
    BY <1>0, <2>1, RestoreRecorded
  <2>3. Entries(hist[g].inst) /\ DOMAIN hist[g].inst \subseteq Keys /\ {} \subseteq Names
    BY <2>1 DEF Good
  <2> QED BY <2>1, <2>2, <2>3, ExecuteKeeps
<1>6. ASSUME NEW n \in Names, Publish(n) PROVE IInv'
  BY <1>6, PublishKeeps
<1>7. CASE UNCHANGED vars
  <2>1. \A b : Good(b)' <=> Good(b)
    BY <1>7 DEF vars, Good, Entries, OneVersion, RealEdges, BothEnds, FirstVersions, Fixed
  <2> QED BY <1>7, <2>1 DEF vars, IInv, Typed, Recorded, ExposedHasWrapper, Exposed, Current
<1> QED BY <1>1, <1>2, <1>3, <1>4, <1>5, <1>6, <1>7 DEF Next

(* The inductive invariant: what every command of install.rs, upgrade.rs and *)
(* remove.rs keeps of the installed map and of every generation.            *)
THEOREM Invariant == Spec => []IInv
BY InitIInv, NextIInv, PTL DEF Spec

(* The files of the environment keep their types (models.rs:298-340), and    *)
(* no command outruns the bound on generations.                             *)
THEOREM TypeCorrect == Spec => []TypeOK
<1>1. IInv => TypeOK
  <2> SUFFICES ASSUME IInv PROVE TypeOK
    OBVIOUS
  <2>1. Cardinality(DOMAIN hist) =< MaxGen + 1
    <3>1. Cardinality(DOMAIN hist) = Current + 1 /\ Current \in 0..MaxGen
      <4>1. Current \in Nat /\ Current \in 0..MaxGen /\ DOMAIN hist = 0..Current
        BY DEF IInv, Typed
      <4>2. Cardinality(0..Current) = Current - 0 + 1
        BY <4>1, FS_Interval
      <4> QED BY <4>1, <4>2
    <3> QED BY <3>1, PackageDbAssumption
  <2> QED BY <2>1 DEF IInv, Typed, Recorded, Good, Entries, TypeOK
<1> QED BY <1>1, Invariant, PTL

(* One version of a name at a time, in the current and in every recorded    *)
(* generation: a session has one key per name and replaces every other.     *)
THEOREM OneVersionEach == Spec => []OnePerName
<1>1. IInv => OnePerName
  BY DEF IInv, Recorded, Good, OneVersion, OnePerName, Installed
<1> QED BY <1>1, Invariant, PTL

(* Dependents that are installed do depend, through any sequence of         *)
(* commands: a package outside the session whose recorded dependent is in   *)
(* it would have been replaced, since a session contains what it requires.  *)
THEOREM DependentsTrue == Spec => []NoFalseDependents
<1>1. IInv => NoFalseDependents
  BY DEF IInv, Recorded, Good, BothEnds, NoFalseDependents, Installed
<1> QED BY <1>1, Invariant, PTL

(* What is recorded as exposed has its wrappers, also after restores and    *)
(* upgrades: a wrapper that goes is one of a package that goes, and no other *)
(* has its name.                                                            *)
THEOREM WrappersThere == Spec => []ExposedHasWrapper
<1>1. IInv => ExposedHasWrapper
  BY DEF IInv
<1> QED BY <1>1, Invariant, PTL

(* A restore brings back exactly what its generation recorded.              *)
THEOREM RestoresExactly == Spec => RestoreExact
<1> DEFINE Exactly ==
      \A g \in 0..MaxGen : Restore(g) /\ hist' # hist =>
        LET target == hist[g].inst
        IN  /\ DOMAIN inst' = DOMAIN target
            /\ \A k \in DOMAIN target :
                  /\ inst'[k].depends = target[k].depends
                  /\ inst'[k].rdepends = target[k].rdepends
                  /\ inst'[k].top = target[k].top
                  /\ target[k].exposed => inst'[k].exposed
<1>1. IInv => Exactly
  <2> SUFFICES ASSUME IInv, NEW g \in 0..MaxGen, Restore(g), hist' # hist,
                      NEW target, target = hist[g].inst
               PROVE  /\ DOMAIN inst' = DOMAIN target
                      /\ \A k \in DOMAIN target :
                            /\ inst'[k].depends = target[k].depends
                            /\ inst'[k].rdepends = target[k].rdepends
                            /\ inst'[k].top = target[k].top
                            /\ target[k].exposed => inst'[k].exposed
    OBVIOUS
  <2>1. Good(inst) /\ Good(target)
    BY DEF IInv, Recorded, Restore
  <2>2. inst' = Record(target, Installed \ DOMAIN target)
    BY DEF Restore, Execute
  <2> QED BY <2>1, <2>2, RestoreRecorded
<1>2. Spec => [][Exactly]_vars
  BY <1>1, Invariant, PTL DEF Spec
<1> QED BY <1>2 DEF RestoreExact

-----------------------------------------------------------------------------
(* Requirements.                                                            *)

LEMMA SameKey ==
  ASSUME Fixed, NEW a, NEW b, FirstVersions(a), FirstVersions(b),
         DOMAIN a \subseteq Keys, DOMAIN b \subseteq Keys,
         NEW j \in DOMAIN a, NEW k \in DOMAIN b, NameOf(j) = NameOf(k)
  PROVE  j = k
<1>1. j[2] = 1 /\ k[2] = 1
  BY DEF FirstVersions
<1> QED BY <1>1, KeyParts

(* Installing and upgrading: what a session needs is in it; what another    *)
(* package needs is not replaced, for it has the only version, nor swept.   *)
LEMMA SessionMeets ==
  ASSUME IInv, Fixed, NEW session, IsSession(session), NEW newWorld,
         ExecuteSession(session, newWorld),
         NEW k \in Installed', k \in Installed => Met(k, inst)
  PROVE  Met(k, inst')
<1> DEFINE old == Replaced(DOMAIN session \ Installed)
           removed == old \cup Orphans(DOMAIN session, old)
           db == Record(session, removed)
<1>1. Good(inst) /\ Typed
  BY DEF IInv, Recorded
<1>2. Execute(session, removed, newWorld)
  BY DEF ExecuteSession
<1>3. inst' = inst \/ inst' = db
  BY <1>2 DEF Execute
<1>4. DOMAIN db = (Installed \ removed) \cup DOMAIN session
  BY <1>1, SessionRecorded
<1>5. IsRecord(db, session, removed)
  BY <1>1, RecordIs DEF Good, IsSession
<1>6. \A y \in old : FALSE
  <2> SUFFICES ASSUME NEW y \in old PROVE FALSE
    OBVIOUS
  <2>1. PICK d \in DOMAIN session \ Installed : d # y /\ NameOf(d) = NameOf(y) /\ y \in Installed
    BY DEF Replaced
  <2> QED BY <1>1, <2>1, SameKey DEF Good, IsSession, Installed
<1>7. \A y \in removed : inst[y].rdepends \cap Installed \subseteq removed
  <2> HIDE DEF db, old
  <2>1. \A y \in Orphans(DOMAIN session, old) :
          inst[y].rdepends \cap Installed \subseteq old \cup Orphans(DOMAIN session, old)
    BY OrphansForced
  <2> QED BY <1>6, <2>1
<1> HIDE DEF db, removed, old
<1>8. CASE inst' = inst
  BY <1>8 DEF Met, Installed
<1>9. CASE inst' = db
  <2> SUFFICES ASSUME NEW n \in requires[NameOf(k)]
               PROVE  \E y \in DOMAIN db : NameOf(y) = n /\ k \in db[y].rdepends
    BY <1>9 DEF Met
  <2>1. k \in DOMAIN db
    BY <1>9 DEF Installed
  <2>2. CASE k \in DOMAIN session
    <3>1. PICK d \in DOMAIN session : NameOf(d) = n
      BY <2>2 DEF IsSession
    <3>2. k \in NeededBy(d, DOMAIN session)
      BY <2>2, <3>1 DEF NeededBy, Needs
    <3>3. k \in session[d].rdepends
      BY <3>1, <3>2 DEF IsSession
    <3>4. d \in DOMAIN db /\ db[d].rdepends = session[d].rdepends
      BY <1>4, <1>5, <3>1 DEF IsRecord
    <3> QED BY <3>1, <3>3, <3>4
  <2>3. CASE k \notin DOMAIN session
    <3>1. k \in Installed \ removed
      BY <1>4, <2>1, <2>3
    <3>2. PICK y \in Installed : NameOf(y) = n /\ k \in inst[y].rdepends
      BY <3>1 DEF Met, Installed
    <3>3. y \notin removed
      BY <1>7, <3>1, <3>2
    <3>4. y \in DOMAIN db
      BY <1>4, <3>2, <3>3
    <3>5. CASE y \in DOMAIN session
      <4>1. k \in session[y].rdepends
        BY <3>2, <3>5 DEF IsSession, RecordedDependents
      <4> QED BY <1>5, <3>2, <3>4, <3>5, <4>1 DEF IsRecord
    <3>6. CASE y \notin DOMAIN session
      <4>1. db[y].rdepends = {r \in inst[y].rdepends : ~(r \in removed /\ y \in inst[r].depends)}
        BY <1>5, <3>4, <3>6 DEF IsRecord
      <4> QED BY <3>1, <3>2, <3>4, <4>1
    <3> QED BY <3>5, <3>6
  <2> QED BY <2>2, <2>3
<1> QED BY <1>3, <1>8, <1>9

(* Removing: what goes was granted or has no dependents but those that go.  *)
LEMMA RemovalMeets ==
  ASSUME IInv, NEW specs, Remove(specs),
         NEW k \in Installed', k \in Installed => Met(k, inst), NameOf(k) \notin specs
  PROVE  Met(k, inst')
<1> DEFINE asked == {j \in Installed : NameOf(j) \in specs}
           removed == RemovalSet(asked)
           db == Record(Empty, removed)
<1>1. inst' = inst \/ inst' = db
  BY DEF Remove, Execute
<1>2. DOMAIN Empty = {}
  BY DEF Empty
<1>3. IsRecord(db, Empty, removed)
  BY <1>2, RecordIs DEF IInv, Recorded, Good, Entries
<1>4. \A y \in removed : \/ inst[y].rdepends \cap Installed \subseteq asked
                         \/ inst[y].rdepends \subseteq removed
  BY RemovalForced
<1>5. k \notin asked
  OBVIOUS
<1> HIDE DEF db, removed, asked
<1>6. CASE inst' = inst
  BY <1>6 DEF Met, Installed
<1>7. CASE inst' = db
  <2> SUFFICES ASSUME NEW n \in requires[NameOf(k)]
               PROVE  \E y \in DOMAIN db : NameOf(y) = n /\ k \in db[y].rdepends
    BY <1>7 DEF Met
  <2>1. k \in Installed \ removed /\ DOMAIN db = Installed \ removed
    BY <1>2, <1>3, <1>7 DEF IsRecord, Installed
  <2>2. PICK y \in Installed : NameOf(y) = n /\ k \in inst[y].rdepends
    BY <2>1 DEF Met, Installed
  <2>3. y \notin removed
    BY <1>4, <1>5, <2>1, <2>2
  <2>4. db[y].rdepends = {r \in inst[y].rdepends : ~(r \in removed /\ y \in inst[r].depends)}
    BY <1>2, <1>3, <2>1, <2>2, <2>3 DEF IsRecord
  <2> QED BY <2>1, <2>2, <2>3, <2>4
<1> QED BY <1>1, <1>6, <1>7

(* Restoring: what the generation met is met again.                         *)
LEMMA RestoreMeets ==
  ASSUME IInv, NEW g, Restore(g), NEW k \in Installed',
         k \in Installed => Met(k, inst), Met(k, hist[g].inst)
  PROVE  Met(k, inst')
<1> DEFINE target == hist[g].inst
           db == Record(target, Installed \ DOMAIN target)
<1>1. inst' = inst \/ inst' = db
  BY DEF Restore, Execute
<1>2. Good(inst) /\ Good(target)
  BY DEF Restore, IInv, Recorded
<1>3. /\ DOMAIN db = DOMAIN target
      /\ \A y \in DOMAIN db : db[y].rdepends = target[y].rdepends
  BY <1>2, RestoreRecorded
<1> HIDE DEF db
<1> QED BY <1>1, <1>3 DEF Met, Installed

(* While nothing new is published, no command takes away what a package     *)
(* that stays requires, but from one that was itself refused.               *)
THEOREM RequirementsKept == Spec => RequirementsMet
<1> DEFINE Stays ==
      Fixed' => \A k \in Installed' :
        \/ Met(k, inst')
        \/ k \in Installed /\ ~Met(k, inst)
        \/ \E g \in DOMAIN hist : Restore(g) /\ ~Met(k, hist[g].inst)
        \/ \E specs \in Specs : Remove(specs) /\ NameOf(k) \in specs
<1>1. IInv /\ [Next]_vars => Stays
  <2> SUFFICES ASSUME IInv, [Next]_vars, Fixed', NEW k \in Installed',
                      ~(k \in Installed /\ ~Met(k, inst)),
                      ~\E g \in DOMAIN hist : Restore(g) /\ ~Met(k, hist[g].inst),
                      ~\E specs \in Specs : Remove(specs) /\ NameOf(k) \in specs
               PROVE  Met(k, inst')
    OBVIOUS
  <2>0. /\ Typed /\ Good(inst) /\ Specs \subseteq SUBSET Names /\ Essential \subseteq Names
        /\ world \subseteq Names
    BY PackageDbAssumption DEF IInv, Recorded, Typed
  <2>f. ASSUME offered' = offered PROVE Fixed
    BY <2>f DEF Fixed
  <2>1. ASSUME NEW session, IsSession(session), NEW newWorld, ExecuteSession(session, newWorld)
        PROVE  Met(k, inst')
    <3>1. Fixed
      BY <2>1, <2>f DEF ExecuteSession, Execute
    <3> QED BY <2>1, <3>1, SessionMeets
  <2>2. ASSUME NEW specs \in Specs, Install(specs) PROVE Met(k, inst')
    <3>1. specs \cup (Essential \ world) \in SUBSET Names
      BY <2>0
    <3> QED BY <2>0, <2>1, <2>2, <3>1, SessionIs DEF Install
  <2>3. ASSUME NEW specs \in Specs, Remove(specs) PROVE Met(k, inst')
    BY <2>3, RemovalMeets
  <2>4. ASSUME NEW specs \in Specs, NEW full \in BOOLEAN, UpgradeSome(specs, full)
        PROVE  Met(k, inst')
    <3>1. specs \in SUBSET Names
      BY <2>0
    <3> QED BY <2>0, <2>1, <2>4, <3>1, SessionIs DEF UpgradeSome
  <2>5. ASSUME NEW full \in BOOLEAN, UpgradeAll(full) PROVE Met(k, inst')
    BY <2>0, <2>1, <2>5, SessionIs DEF UpgradeAll
  <2>6. ASSUME NEW g \in 0..MaxGen, Restore(g) PROVE Met(k, inst')
    <3>1. g \in DOMAIN hist
      BY <2>6 DEF Restore
    <3> QED BY <2>6, <3>1, RestoreMeets
  <2>7. ASSUME NEW n \in Names, Publish(n) PROVE Met(k, inst')
    BY <2>7, PublishUnfixes
  <2>8. CASE UNCHANGED vars
    BY <2>8 DEF vars, Met, Installed
  <2> QED BY <2>2, <2>3, <2>4, <2>5, <2>6, <2>7, <2>8 DEF Next
<1>2. Spec => [][Stays]_vars
  BY <1>1, Invariant, PTL DEF Spec
<1> QED BY <1>2 DEF RequirementsMet

-----------------------------------------------------------------------------
(* The planner of `epkg remove` (module RemovalPlan): every dependency graph *)
(* without false dependents, every request, every order of the work.        *)

(* Where the worklist stands: what a phase leaves behind, and that queue    *)
(* and visited hold only marked packages, none of them twice.               *)
Bookkeeping ==
  /\ phase = "check" => queue = {} /\ visited = {} /\ cur = {} /\ deps = {}
  /\ phase # "check" => todo = {}
  /\ phase = "done" => queue = {} /\ cur = {}
  /\ Granted \subseteq removes \cup todo
  /\ queue \subseteq removes
  /\ visited \subseteq removes
  /\ queue \cap visited = {}
  /\ cur \subseteq removes
  /\ \A y \in deps : \E x \in cur : y \in depends[x]

(* A package is marked because it was asked for, or as an orphan. *)
Justified ==
  \A y \in removes : y \in Granted \/ (y \notin keep /\ rdepends[y] \subseteq removes)

(* An orphan not marked yet is still ahead of the loop. *)
Ahead ==
  phase # "check" =>
    \A x \in removes, y \in Pkgs \ (keep \cup removes) :
       y \in depends[x] /\ rdepends[y] \subseteq removes =>
         \E z \in removes : /\ y \in depends[z]
                            /\ z \in queue \/ (z \in cur /\ y \in deps)

PlanInv == /\ PlanTypeOK
        /\ TrueDependents(depends, rdepends)
        /\ Bookkeeping
        /\ Justified
        /\ OnlyForced
        /\ Ahead

LEMMA InitPlanInv == PlanInit => PlanInv
BY DEF PlanInit, PlanInv, PlanTypeOK, Bookkeeping, Justified, OnlyForced, Ahead, Granted, Closed

(* The graph is read only, and with it what is granted and what is closed. *)
LEMMA GraphConstant ==
  ASSUME UNCHANGED graph
  PROVE  /\ Granted' = Granted
         /\ \A s : Closed(s)' = Closed(s)
         /\ TrueDependents(depends, rdepends)' = TrueDependents(depends, rdepends)
BY DEF graph, Granted, Grantable, Closed, TrueDependents

LEMMA NextPlanInv == PlanInv /\ [PlanNext]_planVars => PlanInv'
<1> SUFFICES ASSUME PlanInv, [PlanNext]_planVars PROVE PlanInv'
  OBVIOUS
<1> USE DEF PlanInv
<1>u. UNCHANGED graph
  BY DEF PlanNext, CheckRequest, StartOrphans, Pop, Examine, NextPackage, Finish, Done, planVars, graph
<1>g. /\ Granted' = Granted
      /\ \A s : Closed(s)' = Closed(s)
      /\ TrueDependents(depends, rdepends)'
  BY <1>u, GraphConstant
<1>1. CASE CheckRequest
  <2>1. PlanTypeOK'
    BY <1>1 DEF CheckRequest, PlanTypeOK, graph
  <2>2. PICK x \in todo : /\ todo' = todo \ {x}
                          /\ removes' = IF Grantable(x) THEN removes \cup {x} ELSE removes
    BY <1>1 DEF CheckRequest
  <2>3. Grantable(x) <=> x \in Granted
    BY <2>2 DEF PlanTypeOK, Granted
  <2>4. Bookkeeping'
    BY <1>1, <1>g, <2>2, <2>3 DEF CheckRequest, Bookkeeping, graph
  <2>5. Justified'
    BY <1>1, <1>g, <2>2, <2>3 DEF CheckRequest, Justified, graph
  <2>6. OnlyForced'
    <3> SUFFICES ASSUME NEW s \in SUBSET Pkgs, Closed(s)' PROVE removes' \subseteq s
      BY DEF OnlyForced
    <3>1. Closed(s)
      BY <1>g
    <3>2. removes \subseteq s /\ Granted \subseteq s
      BY <3>1 DEF OnlyForced, Closed
    <3> QED BY <2>2, <2>3, <3>2
  <2>7. Ahead'
    BY <1>1 DEF CheckRequest, Ahead
  <2> QED BY <1>g, <2>1, <2>4, <2>5, <2>6, <2>7
<1>2. CASE StartOrphans
  <2>1. PlanTypeOK'
    BY <1>2 DEF StartOrphans, PlanTypeOK, graph
  <2>2. Bookkeeping'
    BY <1>2, <1>g DEF StartOrphans, Bookkeeping, graph
  <2>3. Justified' /\ OnlyForced'
    BY <1>2, <1>g DEF StartOrphans, Justified, OnlyForced, graph
  <2>4. Ahead'
    BY <1>2 DEF StartOrphans, Ahead, TrueDependents, PlanTypeOK, graph
  <2> QED BY <1>g, <2>1, <2>2, <2>3, <2>4
<1>3. CASE Pop
  <2>1. PICK x \in queue : /\ queue' = queue \ {x}
                           /\ visited' = visited \cup {x}
                           /\ cur' = {x}
                           /\ deps' = depends[x]
    BY <1>3 DEF Pop, Bookkeeping
  <2>2. x \in Pkgs /\ x \in removes
    BY <2>1 DEF PlanTypeOK, Bookkeeping
  <2>3. PlanTypeOK'
    BY <1>3, <2>1, <2>2 DEF Pop, PlanTypeOK, graph
  <2>4. Bookkeeping'
    BY <1>3, <1>g, <2>1, <2>2 DEF Pop, Bookkeeping, graph
  <2>5. Justified' /\ OnlyForced'
    BY <1>3, <1>g DEF Pop, Justified, OnlyForced, graph
  <2>6. Ahead'
    <3> SUFFICES ASSUME NEW w \in removes, NEW y \in Pkgs \ (keep \cup removes),
                        y \in depends[w], rdepends[y] \subseteq removes
                 PROVE  \E z \in removes : /\ y \in depends[z]
                                           /\ z \in queue' \/ (z \in cur' /\ y \in deps')
      BY <1>3 DEF Pop, Ahead, graph
    <3>1. PICK z \in removes : y \in depends[z] /\ z \in queue
      BY <1>3 DEF Pop, Ahead
    <3>2. CASE z = x
      BY <2>1, <3>1, <3>2
    <3>3. CASE z # x
      BY <2>1, <3>1, <3>3
    <3> QED BY <3>2, <3>3
  <2> QED BY <1>g, <2>3, <2>4, <2>5, <2>6
<1>4. CASE Examine
  <2>1. PICK e \in deps :
          /\ deps' = deps \ {e}
          /\ IF e \notin removes /\ Orphaned(e)
               THEN /\ removes' = removes \cup {e}
                    /\ queue' = IF e \in visited THEN queue ELSE queue \cup {e}
               ELSE UNCHANGED <<removes, queue>>
    BY <1>4 DEF Examine
  <2>2. PICK c \in cur : e \in depends[c]
    BY <2>1 DEF Bookkeeping
  <2>3. CASE e \notin removes /\ Orphaned(e)
    <3>1. /\ removes' = removes \cup {e}
          /\ queue' = queue \cup {e}
          /\ e \in Pkgs \ keep
          /\ rdepends[e] \subseteq removes
      BY <2>1, <2>3 DEF Orphaned, Bookkeeping
    <3>2. PlanTypeOK'
      BY <1>4, <2>1, <3>1 DEF Examine, PlanTypeOK, graph
    <3>3. Bookkeeping'
      BY <1>4, <1>g, <2>1, <2>3, <3>1 DEF Examine, Bookkeeping, graph
    <3>4. Justified'
      BY <1>4, <1>g, <3>1 DEF Examine, Justified, graph
    <3>5. OnlyForced'
      <4> SUFFICES ASSUME NEW s \in SUBSET Pkgs, Closed(s) PROVE removes' \subseteq s
        BY <1>4, <1>g DEF OnlyForced
      <4>1. removes \subseteq s
        BY DEF OnlyForced
      <4>2. c \in s
        BY <4>1, <2>2 DEF Bookkeeping
      <4>3. e \in s
        BY <4>1, <4>2, <2>2, <3>1 DEF Closed
      <4> QED BY <4>1, <4>3, <3>1
    <3>6. Ahead'
      <4> SUFFICES ASSUME NEW w \in removes', NEW y \in Pkgs \ (keep \cup removes'),
                          y \in depends[w], rdepends[y] \subseteq removes'
                   PROVE  \E z \in removes' : /\ y \in depends[z]
                                              /\ z \in queue' \/ (z \in cur /\ y \in deps')
        BY <1>4 DEF Examine, Ahead, graph
      <4>1. CASE e \in rdepends[y]
        BY <4>1, <3>1 DEF TrueDependents
      <4>2. CASE w = e
        BY <4>2, <3>1
      <4>3. CASE e \notin rdepends[y] /\ w # e
        <5>1. rdepends[y] \subseteq removes /\ y \notin removes /\ y # e /\ w \in removes
          BY <4>3, <3>1
        <5>2. PICK z \in removes : y \in depends[z] /\ (z \in queue \/ (z \in cur /\ y \in deps))
          BY <1>4, <5>1 DEF Ahead, Examine
        <5> QED BY <5>1, <5>2, <3>1, <2>1
      <4> QED BY <4>1, <4>2, <4>3
    <3> QED BY <1>g, <3>2, <3>3, <3>4, <3>5, <3>6
  <2>4. CASE ~(e \notin removes /\ Orphaned(e))
    <3>1. UNCHANGED <<removes, queue, visited, cur>>
      BY <1>4, <2>1, <2>4 DEF Examine
    <3>2. PlanTypeOK' /\ Bookkeeping'
      BY <1>4, <1>g, <2>1, <3>1 DEF Examine, PlanTypeOK, Bookkeeping, graph
    <3>3. Justified' /\ OnlyForced'
      BY <1>4, <1>g, <3>1 DEF Examine, Justified, OnlyForced, graph
    <3>4. Ahead'
      BY <1>4, <2>1, <2>4, <3>1 DEF Examine, Ahead, Orphaned, graph
    <3> QED BY <1>g, <3>2, <3>3, <3>4
  <2> QED BY <2>3, <2>4
<1>5. CASE NextPackage
  <2>1. PlanTypeOK' /\ Bookkeeping'
    BY <1>5, <1>g DEF NextPackage, PlanTypeOK, Bookkeeping, graph
  <2>2. Justified' /\ OnlyForced'
    BY <1>5, <1>g DEF NextPackage, Justified, OnlyForced, graph
  <2>3. Ahead'
    BY <1>5 DEF NextPackage, Ahead, graph
  <2> QED BY <1>g, <2>1, <2>2, <2>3
<1>6. CASE Finish
  <2>1. PlanTypeOK' /\ Bookkeeping'
    BY <1>6, <1>g DEF Finish, PlanTypeOK, Bookkeeping, graph
  <2>2. Justified' /\ OnlyForced' /\ Ahead'
    BY <1>6, <1>g DEF Finish, Justified, OnlyForced, Ahead, graph
  <2> QED BY <1>g, <2>1, <2>2
<1>7. CASE UNCHANGED planVars
  <2>1. PlanTypeOK' /\ Bookkeeping'
    BY <1>7, <1>g DEF planVars, PlanTypeOK, Bookkeeping
  <2>2. Justified' /\ OnlyForced' /\ Ahead'
    BY <1>7, <1>g DEF planVars, Justified, OnlyForced, Ahead
  <2> QED BY <1>g, <2>1, <2>2
<1> QED BY <1>1, <1>2, <1>3, <1>4, <1>5, <1>6, <1>7 DEF PlanNext, Done

(* The inductive invariant holds in every run of the planner. *)
THEOREM PlanInvariant == PlanSpec => []PlanInv
BY InitPlanInv, NextPlanInv, PTL DEF PlanSpec

(* Variables keep their types (the maps of remove.rs:143-160 and 320-323).  *)
THEOREM PlanTypeCorrect == PlanSpec => []PlanTypeOK
<1>1. PlanInv => PlanTypeOK
  BY DEF PlanInv
<1> QED BY <1>1, PlanInvariant, PTL

(* add_top_removable and add_orphaned_dependencies never mark a package     *)
(* that some complete answer to the request would leave alone.              *)
THEOREM Minimal == PlanSpec => []OnlyForced
<1>1. PlanInv => OnlyForced
  BY DEF PlanInv
<1> QED BY <1>1, PlanInvariant, PTL

(* When add_orphaned_dependencies returns, no orphan is left, whichever     *)
(* order the queue was worked in.                                           *)
THEOREM Complete == PlanSpec => []AllOrphansFound
<1>1. PlanInv => AllOrphansFound
  <2> SUFFICES ASSUME PlanInv, phase = "done" PROVE Closed(removes)
    BY DEF AllOrphansFound
  <2>1. Granted \subseteq removes
    BY DEF PlanInv, Bookkeeping
  <2>2. ASSUME NEW x \in removes, NEW y \in Pkgs \ keep,
               y \in depends[x], rdepends[y] \subseteq removes
        PROVE  y \in removes
    BY <2>2 DEF PlanInv, Ahead, Bookkeeping
  <2> QED BY <2>1, <2>2 DEF Closed
<1> QED BY <1>1, PlanInvariant, PTL

(* When no request was refused, every recorded dependent of what `epkg      *)
(* remove` takes goes too.                                                  *)
THEOREM Sound == PlanSpec => []NothingBroken
<1>1. PlanInv => NothingBroken
  BY DEF PlanInv, NothingBroken, Justified, Bookkeeping, Granted, Grantable
<1> QED BY <1>1, PlanInvariant, PTL

(* The loop of add_orphaned_dependencies ends: every step uses up a request,*)
(* a phase, a package not popped before or a dependency of the one popped,  *)
(* and of each there are finitely many.                                     *)
THEOREM Progress == PlanSpec => Advances
<1> DEFINE A == \/ phase = "check" /\ \E x \in todo : todo' = todo \ {x}
                \/ <<phase, phase'>> \in {<<"check", "orphans">>, <<"orphans", "done">>}
                \/ \E x \in Pkgs \ visited : visited' = visited \cup {x}
                \/ visited' = visited /\ \E y \in deps : deps' = deps \ {y}
                \/ visited' = visited /\ deps' = deps /\ cur # {} /\ cur' = {}
<1>1. PlanInv /\ [PlanNext]_planVars => [A]_planVars
  <2> SUFFICES ASSUME PlanInv, PlanNext PROVE A \/ UNCHANGED planVars
    OBVIOUS
  <2>1. CASE CheckRequest
    BY <2>1 DEF CheckRequest
  <2>2. CASE StartOrphans \/ Finish
    BY <2>2 DEF StartOrphans, Finish
  <2>3. CASE Pop
    <3>1. PICK x \in queue : visited' = visited \cup {x}
      BY <2>3 DEF Pop
    <3>2. x \in Pkgs \ visited
      BY <3>1 DEF PlanInv, PlanTypeOK, Bookkeeping
    <3> QED BY <3>1, <3>2
  <2>4. CASE Examine
    BY <2>4 DEF Examine
  <2>5. CASE NextPackage
    BY <2>5 DEF NextPackage
  <2>6. CASE Done
    BY <2>6 DEF Done
  <2> QED BY <2>1, <2>2, <2>3, <2>4, <2>5, <2>6 DEF PlanNext
<1> QED BY <1>1, PlanInvariant, PTL DEF PlanSpec, Advances

-----------------------------------------------------------------------------
(* The order of versions.                                                   *)
(* Three comparisons of a with b, b with c and a with c that agree: what is *)
(* equal to either end is as that end, and two that go the same way are     *)
(* followed by the third.                                                   *)
Orders == {-1, 0, 1}
Agree(ab, bc, ac) == /\ ab = 0 => ac = bc
                     /\ bc = 0 => ac = ab
                     /\ ab = bc => ac = ab

LEMMA OrderFacts ==
  /\ \A m, n \in Int : /\ Order(m, n) \in Orders
                       /\ Order(m, n) = -Order(n, m)
                       /\ Order(m, n) = 0 <=> m = n
  /\ \A l, m, n \in Int : Agree(Order(l, m), Order(m, n), Order(l, n))
BY DEF Order, Orders, Agree

LEMMA ThenFacts ==
  /\ \A a, b \in Orders : Then(a, b) \in Orders
  /\ \A a, b, c, d \in Orders : a = -c /\ (a = 0 => b = -d) => Then(a, b) = -Then(c, d)
  /\ \A a1, b1, c1, a2, b2, c2 \in Orders :
       Agree(a1, b1, c1) /\ (a1 = 0 /\ b1 = 0 => Agree(a2, b2, c2)) =>
         Agree(Then(a1, a2), Then(b1, b2), Then(c1, c2))
BY DEF Then, Orders, Agree

LEMMA LeastNatural ==
  ASSUME NEW S \in SUBSET Nat, S # {}
  PROVE  \E m \in S : \A n \in S : m =< n
<1>1. PICK m \in S : \A n \in S : ~(<<n, m>> \in OpToRel(<, Nat))
  BY NatLessThanWellFounded, WFMin
<1>2. ASSUME NEW n \in S PROVE m =< n
  <2>1. m \in Nat /\ n \in Nat /\ <<n, m>> \in Nat \X Nat
    OBVIOUS
  <2>2. n < m => <<n, m>> \in OpToRel(<, Nat)
    BY <2>1 DEF OpToRel
  <2>3. ~(n < m)
    BY <1>1, <2>2
  <2> QED BY <2>1, <2>3
<1> QED BY <1>2

LEMMA SetInduction ==
  ASSUME NEW S \in SUBSET Nat, 0 \in S, \A n \in S : n + 1 \in S
  PROVE  S = Nat
<1> SUFFICES ASSUME Nat \ S # {} PROVE FALSE
  OBVIOUS
<1>1. PICK m \in Nat \ S : \A n \in Nat \ S : m =< n
  BY LeastNatural
<1>2. m # 0 /\ m - 1 \in Nat /\ m - 1 < m
  BY <1>1
<1>3. m - 1 \in S
  BY <1>1, <1>2
<1> QED BY <1>1, <1>2, <1>3

(* The first round that decides, if one does. *)
Undecided(f, D) == First(f) = 0 /\ \A k \in D : f[k] = 0
Decides(f, D, k) == /\ k \in D /\ f[k] # 0 /\ First(f) = f[k]
                    /\ \A j \in D : j < k => f[j] = 0

LEMMA FirstIs ==
  ASSUME NEW D \in SUBSET Nat, NEW f \in [D -> Orders]
  PROVE  Undecided(f, D) \/ \E k \in D : Decides(f, D, k)
<1> DEFINE decided == {k \in D : f[k] # 0}
           least == CHOOSE k \in decided : \A j \in decided : k =< j
<1>0. DOMAIN f = D
  OBVIOUS
<1>1. CASE decided = {}
  BY <1>0, <1>1 DEF First, Undecided
<1>2. CASE decided # {}
  <2>1. \E i \in decided : \A j \in decided : i =< j
    BY <1>2, LeastNatural
  <2>2. least \in decided /\ \A j \in decided : least =< j
    BY <2>1
  <2>3. First(f) = f[least]
    BY <1>0, <1>2 DEF First
  <2> HIDE DEF least
  <2>4. ASSUME NEW j \in D, j < least PROVE f[j] = 0
    <3>1. j \in Nat /\ least \in Nat /\ ~(least =< j)
      BY <2>2, <2>4
    <3> QED BY <2>2, <3>1
  <2> QED BY <2>2, <2>3, <2>4 DEF Decides
<1> QED BY <1>1, <1>2

LEMMA DecidesOnce ==
  ASSUME NEW D \in SUBSET Nat, NEW f, NEW i, NEW k,
         Decides(f, D, i), k \in D, f[k] # 0, \A j \in D : j < k => f[j] = 0
  PROVE  i = k
BY DEF Decides

LEMMA FirstFacts ==
  ASSUME NEW D \in SUBSET Nat
  PROVE  /\ \A a \in [D -> Orders] : First(a) \in Orders
         /\ \A a, b \in [D -> Orders] :
              (\A k \in D : a[k] = -b[k]) => First(a) = -First(b)
         /\ \A a, b, c \in [D -> Orders] :
              (\A k \in D : Agree(a[k], b[k], c[k])) => Agree(First(a), First(b), First(c))
<1>0. \A k \in D : k \in Nat
  OBVIOUS
<1>2. \A a \in [D -> Orders], k \in D : a[k] \in Orders
  OBVIOUS
<1>3. \A a \in [D -> Orders] : First(a) \in Orders
  BY <1>2, FirstIs DEF Orders, Undecided, Decides
<1>4. ASSUME NEW a \in [D -> Orders], NEW b \in [D -> Orders], \A k \in D : a[k] = -b[k]
      PROVE  First(a) = -First(b)
  <2>1. CASE Undecided(a, D)
    <3>1. \A k \in D : b[k] = 0
      BY <1>2, <1>4, <2>1 DEF Orders, Undecided
    <3> QED BY <2>1, <3>1, FirstIs DEF Undecided, Decides
  <2>2. ASSUME NEW k \in D, Decides(a, D, k) PROVE First(a) = -First(b)
    <3>1. b[k] # 0 /\ \A j \in D : j < k => b[j] = 0
      BY <1>2, <1>4, <2>2 DEF Orders, Decides
    <3>2. PICK i \in D : Decides(b, D, i)
      BY <3>1, FirstIs DEF Undecided
    <3>3. i = k
      BY <3>1, <3>2, DecidesOnce
    <3> QED BY <1>4, <2>2, <3>2, <3>3 DEF Decides
  <2> QED BY <2>1, <2>2, FirstIs
<1>5. ASSUME NEW a \in [D -> Orders], NEW b \in [D -> Orders], NEW c \in [D -> Orders],
             \A k \in D : Agree(a[k], b[k], c[k])
      PROVE  Agree(First(a), First(b), First(c))
  <2>1. \A k \in D : /\ a[k] = 0 => c[k] = b[k]
                     /\ b[k] = 0 => c[k] = a[k]
                     /\ a[k] = b[k] => c[k] = a[k]
    BY <1>5 DEF Agree
  <2>2. /\ c = [k \in D |-> c[k]]
        /\ b = [k \in D |-> b[k]]
        /\ a = [k \in D |-> a[k]]
    OBVIOUS
  <2>3. ASSUME NEW x \in [D -> Orders], NEW k \in D, Decides(x, D, k),
               c[k] = x[k], \A j \in D : j < k => c[j] = 0
        PROVE  First(c) = First(x)
    <3>1. c[k] # 0
      BY <2>3 DEF Decides
    <3>2. PICK i \in D : Decides(c, D, i)
      BY <3>1, FirstIs DEF Undecided
    <3>3. i = k
      BY <2>3, <3>1, <3>2, DecidesOnce
    <3> QED BY <2>3, <3>2, <3>3 DEF Decides
  <2>4. CASE Undecided(a, D)
    <3>1. \A k \in D : c[k] = b[k]
      BY <2>1, <2>4 DEF Undecided
    <3>2. c = b
      BY <2>2, <3>1
    <3> QED BY <2>4, <3>2, <1>3 DEF Agree, Undecided
  <2>5. CASE Undecided(b, D)
    <3>1. \A k \in D : c[k] = a[k]
      BY <2>1, <2>5 DEF Undecided
    <3>2. c = a
      BY <2>2, <3>1
    <3> QED BY <2>5, <3>2, <1>3 DEF Agree, Undecided
  <2>6. ASSUME NEW i \in D, NEW j \in D, Decides(a, D, i), Decides(b, D, j)
        PROVE  Agree(First(a), First(b), First(c))
    <3>1. First(a) # 0 /\ First(b) # 0
      BY <2>6 DEF Decides
    <3>2. CASE i < j
      <4>1. c[i] = a[i] /\ \A l \in D : l < i => c[l] = 0
        BY <1>0, <2>1, <2>6, <3>2 DEF Decides
      <4>2. First(c) = First(a)
        BY <2>3, <2>6, <4>1
      <4> QED BY <3>1, <4>2 DEF Agree
    <3>3. CASE j < i
      <4>1. c[j] = b[j] /\ \A l \in D : l < j => c[l] = 0
        BY <1>0, <2>1, <2>6, <3>3 DEF Decides
      <4>2. First(c) = First(b)
        BY <2>3, <2>6, <4>1
      <4> QED BY <3>1, <4>2 DEF Agree
    <3>4. CASE i = j /\ a[i] = b[i]
      <4>1. c[i] = a[i] /\ \A l \in D : l < i => c[l] = 0
        BY <1>0, <2>1, <2>6, <3>4 DEF Decides
      <4>2. First(c) = First(a)
        BY <2>3, <2>6, <4>1
      <4> QED BY <3>1, <4>2 DEF Agree
    <3>5. CASE i = j /\ a[i] # b[i]
      BY <2>6, <3>1, <3>5 DEF Agree, Decides
    <3> QED BY <1>0, <3>2, <3>3, <3>4, <3>5
  <2> QED BY <2>4, <2>5, <2>6, FirstIs
<1> QED BY <1>3, <1>4, <1>5

(* More rounds that decide nothing change nothing. *)
Extended(a, b, C, D) == (\A k \in C : a[k] = b[k]) /\ (\A k \in D \ C : b[k] = 0)

LEMMA FirstExtended ==
  ASSUME NEW D \in SUBSET Nat, NEW C \in SUBSET D,
         NEW a \in [C -> Orders], NEW b \in [D -> Orders], Extended(a, b, C, D)
  PROVE  First(a) = First(b)
<1>0. (\A k \in C : a[k] = b[k]) /\ (\A k \in D \ C : b[k] = 0)
  BY DEF Extended
<1>1. Undecided(a, C) \/ \E k \in C : Decides(a, C, k)
  BY FirstIs
<1>2. Undecided(b, D) \/ \E k \in D : Decides(b, D, k)
  BY FirstIs
<1>3. CASE Undecided(a, C)
  <2>1. \A k \in D : b[k] = 0
    BY <1>0, <1>3 DEF Undecided
  <2>2. First(a) = 0
    BY <1>3 DEF Undecided
  <2>3. First(b) = 0
    BY <1>2, <2>1 DEF Undecided, Decides
  <2> QED BY <2>2, <2>3
<1>4. ASSUME NEW k \in C, Decides(a, C, k) PROVE First(a) = First(b)
  <2>1. k \in D /\ a[k] # 0 /\ First(a) = a[k] /\ b[k] = a[k]
    BY <1>0, <1>4 DEF Decides
  <2>2. \A j \in D : j < k => b[j] = 0
    BY <1>0, <1>4 DEF Decides
  <2>3. ~Undecided(b, D)
    BY <2>1 DEF Undecided
  <2>4. PICK i \in D : Decides(b, D, i)
    BY <1>2, <2>3
  <2>5. i = k
    BY <2>1, <2>2, <2>4, DecidesOnce
  <2>6. First(b) = b[i]
    BY <2>4 DEF Decides
  <2> QED BY <2>1, <2>5, <2>6
<1> QED BY <1>1, <1>3, <1>4

(* The first round, then the others. *)
LEMMA FirstUnfolded ==
  ASSUME NEW n \in Nat, NEW a \in [0..(n + 1) -> Orders], NEW b \in [0..n -> Orders],
         \A k \in 0..n : b[k] = a[k + 1]
  PROVE  First(a) = Then(a[0], First(b))
<1>0. 0..(n + 1) \in SUBSET Nat /\ 0..n \in SUBSET Nat /\ 0 \in 0..(n + 1)
  OBVIOUS
<1>1. Undecided(a, 0..(n + 1)) \/ \E k \in 0..(n + 1) : Decides(a, 0..(n + 1), k)
  BY <1>0, FirstIs
<1>2. Undecided(b, 0..n) \/ \E k \in 0..n : Decides(b, 0..n, k)
  BY <1>0, FirstIs
<1>3. CASE Undecided(a, 0..(n + 1))
  <2>1. \A k \in 0..n : b[k] = 0
    BY <1>3 DEF Undecided
  <2>2. First(b) = 0
    BY <1>2, <2>1 DEF Undecided, Decides
  <2> QED BY <1>0, <1>3, <2>2 DEF Then, Undecided
<1>4. ASSUME NEW k \in 0..(n + 1), Decides(a, 0..(n + 1), k) PROVE First(a) = Then(a[0], First(b))
  <2>1. CASE k = 0
    BY <1>4, <2>1 DEF Then, Decides
  <2>2. CASE k # 0
    <3>1. k - 1 \in 0..n /\ 0 < k /\ b[k - 1] = a[k]
      BY <2>2
    <3>2. a[0] = 0 /\ b[k - 1] # 0
      BY <1>0, <1>4, <3>1 DEF Decides
    <3>3. \A j \in 0..n : j < k - 1 => b[j] = 0
      <4> SUFFICES ASSUME NEW j \in 0..n, j < k - 1 PROVE b[j] = 0
        OBVIOUS
      <4>1. j + 1 \in 0..(n + 1) /\ j + 1 < k
        OBVIOUS
      <4> QED BY <1>4, <4>1 DEF Decides
    <3>4. PICK i \in 0..n : Decides(b, 0..n, i)
      BY <1>2, <3>1, <3>2 DEF Undecided
    <3>5. i = k - 1
      <4> DEFINE l == k - 1
      <4>1. l \in 0..n /\ b[l] # 0 /\ \A j \in 0..n : j < l => b[j] = 0
        BY <3>1, <3>2, <3>3
      <4> HIDE DEF l
      <4>2. i \in 0..n /\ b[i] # 0 /\ \A j \in 0..n : j < i => b[j] = 0
        BY <3>4 DEF Decides
      <4>3. ~(i < l) /\ ~(l < i)
        BY <4>1, <4>2
      <4>4. i \in Nat /\ l \in Nat
        BY <4>1, <4>2
      <4>5. i = l
        BY <4>3, <4>4
      <4> QED BY <4>5 DEF l
    <3> QED BY <1>4, <3>1, <3>2, <3>4, <3>5 DEF Then, Decides
  <2> QED BY <2>1, <2>2
<1> QED BY <1>1, <1>3, <1>4

LEMMA RoundsAre ==
  ASSUME NEW S, NEW step \in [S -> S], NEW x \in S
  PROVE  /\ Rounds(step, x)[0] = x
         /\ \A k \in Nat : /\ Rounds(step, x)[k] \in S
                           /\ Rounds(step, x)[k + 1] = step[Rounds(step, x)[k]]
<1> DEFINE Def(f, k) == IF k = 0 THEN x ELSE step[f[k - 1]]
           Upto(n, f) == /\ f \in [0..n -> S]
                         /\ \A k \in 0..n : f[k] = Def(f, k)
           Some == {n \in Nat : \E f \in [0..n -> S] : Upto(n, f)}
           upto(n) == CHOOSE f \in [0..n -> S] : Upto(n, f)
           whole == [k \in Nat |-> upto(k)[k]]
<1>1. 0 \in Some
  <2> DEFINE f == [k \in 0..0 |-> x]
  <2>1. Upto(0, f)
    OBVIOUS
  <2> QED BY <2>1
<1>2. ASSUME NEW n \in Some PROVE n + 1 \in Some
  <2>1. PICK f \in [0..n -> S] : Upto(n, f)
    OBVIOUS
  <2> DEFINE g == [k \in 0..(n + 1) |-> IF k = n + 1 THEN step[f[n]] ELSE f[k]]
  <2>2. n \in Nat /\ f[n] \in S
    OBVIOUS
  <2>3. g \in [0..(n + 1) -> S]
    BY <2>2
  <2>4. ASSUME NEW k \in 0..(n + 1) PROVE g[k] = Def(g, k)
    <3>1. CASE k = n + 1
      BY <2>2, <3>1
    <3>2. CASE k # n + 1
      BY <2>1, <2>2, <3>2
    <3> QED BY <3>1, <3>2
  <2>5. Upto(n + 1, g)
    BY <2>3, <2>4
  <2> HIDE DEF g, Upto
  <2>6. \E h \in [0..(n + 1) -> S] : Upto(n + 1, h)
    BY <2>3, <2>5
  <2> QED BY <2>2, <2>6
<1>3. Some = Nat
  BY <1>1, <1>2, SetInduction
<1>4. \A n \in Nat : Upto(n, upto(n))
  BY <1>3
<1> HIDE DEF upto
<1>5. ASSUME NEW n \in Nat
      PROVE  upto(n + 1)[n] = upto(n)[n]
  <2> DEFINE Same == {k \in Nat : k =< n => upto(n + 1)[k] = upto(n)[k]}
  <2>1. 0 \in Same
    BY <1>4
  <2>2. ASSUME NEW k \in Same PROVE k + 1 \in Same
    <3>1. CASE k + 1 =< n
      <4>1. upto(n + 1)[k + 1] = step[upto(n + 1)[k]]
        BY <1>4, <3>1
      <4>2. upto(n)[k + 1] = step[upto(n)[k]]
        BY <1>4, <3>1
      <4> QED BY <3>1, <4>1, <4>2
    <3> QED BY <3>1
  <2>3. Same = Nat
    BY <2>1, <2>2, SetInduction
  <2> QED BY <2>3
<1>6. whole[0] = x
  BY <1>4
<1>7. ASSUME NEW k \in Nat
      PROVE  whole[k] \in S /\ whole[k + 1] = step[whole[k]]
  <2>1. upto(k + 1)[k + 1] = step[upto(k + 1)[k]]
    BY <1>4
  <2>2. upto(k)[k] \in S
    BY <1>4
  <2> QED BY <1>5, <2>1, <2>2
<1> HIDE DEF whole
<1>8. whole = [k \in Nat |-> IF k = 0 THEN x ELSE step[whole[k - 1]]]
  <2>1. whole = [k \in Nat |-> whole[k]]
    BY DEF whole
  <2>2. ASSUME NEW k \in Nat
        PROVE  whole[k] = IF k = 0 THEN x ELSE step[whole[k - 1]]
    <3>1. CASE k = 0
      BY <1>6, <3>1
    <3>2. CASE k # 0
      <4>1. k - 1 \in Nat /\ (k - 1) + 1 = k
        BY <3>2
      <4>2. whole[(k - 1) + 1] = step[whole[k - 1]]
        BY <1>7, <4>1
      <4> QED BY <3>2, <4>1, <4>2
    <3> QED BY <3>1, <3>2
  <2> QED BY <2>1, <2>2
<1> DEFINE r == Rounds(step, x)
<1>9. r = [k \in Nat |-> IF k = 0 THEN x ELSE step[r[k - 1]]]
  BY <1>8 DEF Rounds
<1> HIDE DEF r
<1>10. r[0] = x /\ \A k \in Nat : r[k + 1] = step[r[k]]
  BY <1>9
<1> DEFINE InS == {k \in Nat : r[k] \in S}
<1>11. 0 \in InS /\ \A k \in InS : k + 1 \in InS
  BY <1>10
<1>12. InS = Nat
  BY <1>11, SetInduction
<1> QED BY <1>10, <1>12 DEF r

(* What the rounds are, as one fact that other lemmas cite. *)
IsRun(r, step, x, S) == /\ r[0] = x
                        /\ \A k \in Nat : r[k] \in S /\ r[k + 1] = step[r[k]]

LEMMA RoundsRun ==
  ASSUME NEW S, NEW step \in [S -> S], NEW x \in S
  PROVE  IsRun(Rounds(step, x), step, x, S)
BY RoundsAre DEF IsRun

(* Taking one round first, the others are the same. *)
LEMMA RoundsShift ==
  ASSUME NEW S, NEW step \in [S -> S], NEW x \in S, NEW k \in Nat
  PROVE  Rounds(step, x)[k + 1] = Rounds(step, step[x])[k]
<1> DEFINE r == Rounds(step, x)
           t == Rounds(step, step[x])
           Same == {j \in Nat : r[j + 1] = t[j]}
<1>1. r[0] = x /\ \A j \in Nat : r[j + 1] = step[r[j]]
  BY RoundsAre
<1>2. t[0] = step[x] /\ \A j \in Nat : t[j + 1] = step[t[j]]
  BY RoundsAre
<1> HIDE DEF r, t
<1>3. 0 \in Same
  BY <1>1, <1>2
<1>4. ASSUME NEW j \in Same PROVE j + 1 \in Same
  BY <1>1, <1>2
<1>5. Same = Nat
  BY <1>3, <1>4, SetInduction
<1> QED BY <1>5 DEF r, t

(* Where the loop stops. *)
LEMMA StopIs ==
  ASSUME NEW accepted, NEW n \in Nat, DOMAIN accepted = 1..n
  PROVE  /\ Stop(accepted) \in 0..n
         /\ \A i \in 1..Stop(accepted) : accepted[i]
         /\ Stop(accepted) < n => ~accepted[Stop(accepted) + 1]
<1> DEFINE S == {m \in 0..n : m + 1 \in 1..n => ~accepted[m + 1]}
           Is(m) == /\ \A i \in 1..m : accepted[i]
                    /\ m + 1 \in DOMAIN accepted => ~accepted[m + 1]
<1>1. n \in S /\ S \in SUBSET Nat
  OBVIOUS
<1>2. PICK m \in S : \A j \in S : m =< j
  BY <1>1, LeastNatural
<1>3. ASSUME NEW i \in 1..m PROVE accepted[i]
  <2>1. i - 1 \in 0..n /\ ~(m =< i - 1) /\ (i - 1) + 1 = i /\ i \in 1..n
    BY <1>2
  <2> QED BY <1>2, <2>1
<1>4. m \in {0} \cup DOMAIN accepted /\ Is(m)
  BY <1>2, <1>3
<1>5. Stop(accepted) \in {0} \cup DOMAIN accepted /\ Is(Stop(accepted))
  BY <1>4 DEF Stop
<1> QED BY <1>5

(* It is the only place where one may stop. *)
LEMMA StopOnly ==
  ASSUME NEW accepted, NEW n \in Nat, DOMAIN accepted = 1..n,
         NEW m \in 0..n, \A i \in 1..m : accepted[i], m < n => ~accepted[m + 1]
  PROVE  Stop(accepted) = m
<1>1. /\ Stop(accepted) \in 0..n
      /\ \A i \in 1..Stop(accepted) : accepted[i]
      /\ Stop(accepted) < n => ~accepted[Stop(accepted) + 1]
  BY StopIs
<1>2. CASE Stop(accepted) < m
  <2>1. Stop(accepted) + 1 \in 1..m /\ Stop(accepted) < n
    BY <1>1, <1>2
  <2> QED BY <1>1, <2>1
<1>3. CASE m < Stop(accepted)
  <2>1. m + 1 \in 1..Stop(accepted) /\ m < n
    BY <1>1, <1>3
  <2> QED BY <1>1, <2>1
<1> QED BY <1>1, <1>2, <1>3

(* Tokens and parts.                                                        *)
Chars == Token \cup {End}

LEMMA TokenFacts ==
  /\ \A x \in Chars : /\ x.value \in Nat
                      /\ x.class \in {"number", "word", "symbol", "tilde", "end"}
                      /\ x.class = "tilde" <=> x = Tilde
                      /\ x.class = "end" <=> x = End
                      /\ x.class \in {"word", "symbol"} => x.value > 0
  /\ End \notin Token /\ Tilde \in Token /\ Dot \in Token /\ Dash \in Token
  /\ \A n \in Nat : Number(n) \in Token
  /\ ~IsNumber(End) /\ ~IsNumber(Tilde) /\ ~IsNumber(Dot) /\ ~IsNumber(Dash)
  /\ Dot # Tilde /\ Tilde # End /\ Dot # End /\ Dash # Dot
<1>1. \A x \in Chars : /\ x.value \in Nat
                       /\ x.class \in {"number", "word", "symbol", "tilde", "end"}
                       /\ x.class = "tilde" <=> x = Tilde
                       /\ x.class = "end" <=> x = End
                       /\ x.class \in {"word", "symbol"} => x.value > 0
  <2> TAKE x \in Chars
  <2>1. CASE x \in [class : {"number"}, value : Nat]
    BY <2>1 DEF Tilde, End
  <2>2. CASE x \in [class : {"word", "symbol"}, value : Nat \ {0}]
    BY <2>2 DEF Tilde, End
  <2>3. CASE x = Tilde
    BY <2>3 DEF Tilde, End
  <2>4. CASE x = End
    BY <2>4 DEF Tilde, End
  <2> QED BY <2>1, <2>2, <2>3, <2>4 DEF Chars, Token
<1>2. End \notin Token /\ Tilde \in Token /\ Dot \in Token /\ Dash \in Token
  BY DEF Token, End, Tilde, Dot, Dash, Symbol
<1>3. \A n \in Nat : Number(n) \in Token
  BY DEF Token, Number
<1>4. /\ ~IsNumber(End) /\ ~IsNumber(Tilde) /\ ~IsNumber(Dot) /\ ~IsNumber(Dash)
      /\ Dot # Tilde /\ Tilde # End /\ Dot # End /\ Dash # Dot
  BY DEF IsNumber, End, Tilde, Dot, Dash, Symbol
<1> QED BY <1>1, <1>2, <1>3, <1>4

LEMMA AtFacts ==
  ASSUME NEW v \in Seq(Token)
  PROVE  /\ Len(v) \in Nat /\ DOMAIN v = 1..Len(v)
         /\ \A i \in Int : /\ At(v, i) \in Chars
                           /\ i \in 1..Len(v) => At(v, i) = v[i] /\ v[i] \in Token
                           /\ i \in 1..Len(v) <=> At(v, i) # End
         /\ v = <<>> <=> Len(v) = 0
         /\ v = <<>> <=> At(v, 1) = End
<1>1. Len(v) \in Nat /\ DOMAIN v = 1..Len(v) /\ \A i \in 1..Len(v) : v[i] \in Token
  BY LenProperties, ElementOfSeq
<1>2. \A i \in Int : /\ At(v, i) \in Chars
                     /\ i \in 1..Len(v) => At(v, i) = v[i] /\ v[i] \in Token
                     /\ i \in 1..Len(v) <=> At(v, i) # End
  BY <1>1, TokenFacts DEF At, Chars
<1>3. v = <<>> <=> Len(v) = 0
  OBVIOUS
<1>4. v = <<>> <=> At(v, 1) = End
  BY <1>1, <1>2, <1>3
<1> QED BY <1>1, <1>2, <1>3, <1>4

LEMMA UpToFacts ==
  ASSUME NEW v \in Seq(Token), NEW n \in 0..Len(v)
  PROVE  /\ UpTo(v, n) \in Seq(Token)
         /\ Len(UpTo(v, n)) = n
         /\ \A i \in Nat \ {0} : At(UpTo(v, n), i) = IF i =< n THEN At(v, i) ELSE End
<1>1. Len(v) \in Nat /\ \A i \in 1..n : v[i] \in Token
  BY LenProperties, ElementOfSeq
<1>2. /\ UpTo(v, n) \in Seq(Token)
      /\ Len(UpTo(v, n)) = n
      /\ \A i \in 1..n : UpTo(v, n)[i] = v[i]
  BY <1>1, SubSeqProperties DEF UpTo
<1>3. \A i \in Nat \ {0} : At(UpTo(v, n), i) = IF i =< n THEN At(v, i) ELSE End
  BY <1>1, <1>2, AtFacts
<1> QED BY <1>2, <1>3

LEMMA FromFacts ==
  ASSUME NEW v \in Seq(Token), NEW n \in Nat \ {0}
  PROVE  /\ From(v, n) \in Seq(Token)
         /\ Len(From(v, n)) = IF n =< Len(v) THEN Len(v) - n + 1 ELSE 0
         /\ \A i \in Nat \ {0} : At(From(v, n), i) = At(v, n + i - 1)
<1>1. Len(v) \in Nat /\ \A i \in n..Len(v) : v[i] \in Token
  BY LenProperties, ElementOfSeq
<1>2. /\ From(v, n) \in Seq(Token)
      /\ Len(From(v, n)) = IF n =< Len(v) THEN Len(v) - n + 1 ELSE 0
      /\ \A i \in 1..(Len(v) - n + 1) : From(v, n)[i] = v[n + i - 1]
  BY <1>1, SubSeqProperties DEF From
<1>3. ASSUME NEW i \in Nat \ {0} PROVE At(From(v, n), i) = At(v, n + i - 1)
  <2>1. i \in 1..Len(From(v, n)) <=> n + i - 1 \in 1..Len(v)
    BY <1>1, <1>2
  <2>2. CASE i \in 1..Len(From(v, n))
    BY <1>1, <1>2, <2>1, <2>2, AtFacts
  <2>3. CASE i \notin 1..Len(From(v, n))
    BY <1>1, <1>2, <2>1, <2>3, AtFacts
  <2> QED BY <2>2, <2>3
<1> QED BY <1>2, <1>3

LEMMA SameParts ==
  ASSUME NEW v \in Seq(Token), NEW w \in Seq(Token),
         \A i \in Nat \ {0} : At(v, i) = At(w, i)
  PROVE  v = w
<1>1. Len(v) = Len(w)
  <2>1. Len(v) \in Nat /\ Len(w) \in Nat
    BY AtFacts
  <2>2. At(v, Len(v) + 1) = End /\ At(w, Len(w) + 1) = End
    BY <2>1, AtFacts
  <2>3. ~(Len(w) + 1 \in 1..Len(v)) /\ ~(Len(v) + 1 \in 1..Len(w))
    BY <2>1, <2>2, AtFacts
  <2> QED BY <2>1, <2>3
<1>2. \A i \in 1..Len(v) : v[i] = w[i]
  BY <1>1, AtFacts
<1> QED BY <1>1, <1>2, SeqEqual

(* One order of the characters is behind both loops and the policy. *)
SortOrder(x, y) == Then(Order(Sorting(x), Sorting(y)), Order(x.value, y.value))

LEMMA SortingFacts ==
  /\ \A x \in Chars : /\ Sorting(x) \in 0..3
                      /\ x = Tilde <=> Sorting(x) = 0
                      /\ x = End <=> Sorting(x) = 1
  /\ \A x, y \in Chars : /\ SortOrder(x, y) \in Orders
                         /\ SortOrder(x, y) = -SortOrder(y, x)
  /\ \A x, y, z \in Chars : Agree(SortOrder(x, y), SortOrder(y, z), SortOrder(x, z))
<1>1. \A x \in Chars : /\ Sorting(x) \in 0..3
                       /\ x = Tilde <=> Sorting(x) = 0
                       /\ x = End <=> Sorting(x) = 1
  BY TokenFacts DEF Sorting
<1>2. \A x \in Chars : Sorting(x) \in Int /\ x.value \in Int
  BY <1>1, TokenFacts
<1>3. \A x, y \in Chars : /\ SortOrder(x, y) \in Orders
                          /\ SortOrder(x, y) = -SortOrder(y, x)
  <2> TAKE x, y \in Chars
  <2> DEFINE a == Order(Sorting(x), Sorting(y))
             b == Order(x.value, y.value)
             c == Order(Sorting(y), Sorting(x))
             d == Order(y.value, x.value)
  <2>1. {a, b, c, d} \subseteq Orders /\ a = -c /\ b = -d
    BY <1>2, OrderFacts
  <2> QED BY <2>1, ThenFacts DEF SortOrder
<1>4. \A x, y, z \in Chars : Agree(SortOrder(x, y), SortOrder(y, z), SortOrder(x, z))
  BY <1>2, OrderFacts, ThenFacts DEF SortOrder
<1> QED BY <1>1, <1>3, <1>4

LEMMA CharOrderSorts == \A x, y \in Chars : CharOrder(x, y) = SortOrder(x, y)
<1> TAKE x, y \in Chars
<1>1. /\ x.value \in Nat /\ y.value \in Nat
      /\ {x.class, y.class} \subseteq {"number", "word", "symbol", "tilde", "end"}
      /\ x.class = "tilde" <=> x = Tilde
      /\ y.class = "tilde" <=> y = Tilde
      /\ x.class = "end" <=> x = End
      /\ y.class = "end" <=> y = End
  BY TokenFacts
<1>2. Tilde # End /\ Tilde.value = 0 /\ End.value = 0
  BY TokenFacts DEF Tilde, End
<1>3. /\ Sorting(x) = IF x = Tilde THEN 0 ELSE IF x = End THEN 1
                      ELSE IF x.class = "word" THEN 2 ELSE 3
      /\ Sorting(y) = IF y = Tilde THEN 0 ELSE IF y = End THEN 1
                      ELSE IF y.class = "word" THEN 2 ELSE 3
  BY <1>1, <1>2 DEF Sorting
<1>4. CASE End \in {x, y}
  BY <1>1, <1>2, <1>3, <1>4 DEF CharOrder, EndOrder, SortOrder, Then, Order
<1>5. CASE End \notin {x, y}
  <2>1. /\ Precedence(x) = IF x = Tilde THEN 0 ELSE IF x.class = "word" THEN 1 ELSE 2
        /\ Precedence(y) = IF y = Tilde THEN 0 ELSE IF y.class = "word" THEN 1 ELSE 2
    BY <1>1 DEF Precedence
  <2>2. Order(Precedence(x), Precedence(y)) = Order(Sorting(x), Sorting(y))
    BY <1>3, <1>5, <2>1 DEF Order
  <2> QED BY <1>5, <2>2 DEF CharOrder, TokenOrder, SortOrder
<1> QED BY <1>4, <1>5

(* After as many rounds as there are tokens nothing is left. *)
LEMMA RoundsEnd ==
  ASSUME NEW step \in [Seq(Token) -> Seq(Token)], NEW v \in Seq(Token), NEW k \in Nat,
         Len(v) =< k,
         \A w \in Seq(Token) : Len(step[w]) =< Len(w) /\ (Len(w) # 0 => Len(step[w]) < Len(w))
  PROVE  Rounds(step, v)[k] = <<>>
<1> DEFINE r == Rounds(step, v)
           Shorter == {j \in Nat : Len(r[j]) + j =< Len(v) \/ Len(r[j]) = 0}
<1>1. r[0] = v /\ \A j \in Nat : r[j] \in Seq(Token) /\ r[j + 1] = step[r[j]]
  BY RoundsAre
<1>2. Len(v) \in Nat /\ \A j \in Nat : Len(r[j]) \in Nat
  BY <1>1, AtFacts
<1>3. \A j \in Nat : /\ Len(r[j + 1]) =< Len(r[j])
                     /\ Len(r[j]) # 0 => Len(r[j + 1]) < Len(r[j])
  BY <1>1
<1> HIDE DEF r
<1>4. 0 \in Shorter
  <2>1. Len(r[0]) + 0 =< Len(v)
    BY <1>1, <1>2
  <2> QED BY <2>1
<1>5. ASSUME NEW j \in Shorter PROVE j + 1 \in Shorter
  <2>1. j \in Nat /\ j + 1 \in Nat /\ Len(r[j]) \in Nat /\ Len(r[j + 1]) \in Nat
    BY <1>2
  <2>2. /\ Len(r[j + 1]) =< Len(r[j])
        /\ Len(r[j]) # 0 => Len(r[j + 1]) < Len(r[j])
    BY <1>3, <2>1
  <2> QED BY <1>2, <2>1, <2>2
<1>6. Shorter = Nat
  BY <1>4, <1>5, SetInduction
<1>7. Len(r[k]) + k =< Len(v) \/ Len(r[k]) = 0
  BY <1>6
<1>8. Len(r[k]) = 0
  BY <1>2, <1>7
<1> QED BY <1>1, <1>8, AtFacts DEF r

(* Strings.                                                                 *)
LEMMA LongerFacts ==
  ASSUME NEW v \in Seq(Token), NEW w \in Seq(Token)
  PROVE  Longer(v, w) \in Nat /\ Len(v) =< Longer(v, w) /\ Len(w) =< Longer(v, w)
BY AtFacts DEF Longer

LEMMA StringRounds ==
  ASSUME NEW s \in Seq(Token), NEW t \in Seq(Token), NEW n \in Nat,
         Len(s) =< n, Len(t) =< n
  PROVE  /\ [i \in 1..n |-> SortOrder(At(s, i), At(t, i))] \in [1..n -> Orders]
         /\ StringOrder(s, t) = First([i \in 1..n |-> SortOrder(At(s, i), At(t, i))])
<1> DEFINE m == Longer(s, t)
           a == [i \in 1..m |-> CharOrder(At(s, i), At(t, i))]
           b == [i \in 1..n |-> SortOrder(At(s, i), At(t, i))]
<1>1. m \in Nat /\ m =< n /\ Len(s) =< m /\ Len(t) =< m
  BY AtFacts DEF Longer
<1>2. \A i \in Nat : At(s, i) \in Chars /\ At(t, i) \in Chars
  BY AtFacts
<1> HIDE DEF m
<1>3. \A i \in 1..m : a[i] = SortOrder(At(s, i), At(t, i))
  BY <1>1, <1>2, CharOrderSorts
<1>4. \A i \in Nat : SortOrder(At(s, i), At(t, i)) \in Orders
  BY <1>2, SortingFacts
<1>5. a \in [1..m -> Orders] /\ b \in [1..n -> Orders]
  BY <1>1, <1>3, <1>4
<1>6. ASSUME NEW i \in 1..n, m < i PROVE b[i] = 0
  <2>1. At(s, i) = End /\ At(t, i) = End
    BY <1>1, <1>6, AtFacts
  <2>2. SortOrder(End, End) = 0
    BY DEF SortOrder, Then, Order, Sorting, End
  <2> QED BY <2>1, <2>2
<1>7. First(a) = First(b)
  <2>1. \A i \in 1..m : a[i] = b[i]
    BY <1>1, <1>3
  <2> DEFINE C == 1..m
             D == 1..n
  <2>2. Extended(a, b, C, D)
    <3> HIDE DEF a, b
    <3>1. \A k \in D \ C : k \in 1..n /\ m < k
      BY <1>1
    <3>2. \A k \in D \ C : b[k] = 0
      BY <1>6, <3>1
    <3> QED BY <2>1, <3>2 DEF Extended
  <2>3. D \in SUBSET Nat /\ C \in SUBSET D
    BY <1>1
  <2>4. a \in [C -> Orders] /\ b \in [D -> Orders]
    BY <1>5
  <2> HIDE DEF a, b, C, D
  <2> QED BY <2>2, <2>3, <2>4, FirstExtended
<1> QED BY <1>5, <1>7 DEF StringOrder, m

LEMMA StringOrderFacts ==
  /\ \A s, t \in Seq(Token) : /\ StringOrder(s, t) \in Orders
                              /\ StringOrder(s, t) = -StringOrder(t, s)
  /\ \A s, t, u \in Seq(Token) :
       Agree(StringOrder(s, t), StringOrder(t, u), StringOrder(s, u))
<1>1. ASSUME NEW s \in Seq(Token), NEW t \in Seq(Token), NEW u \in Seq(Token)
      PROVE  /\ StringOrder(s, t) \in Orders
             /\ StringOrder(s, t) = -StringOrder(t, s)
             /\ Agree(StringOrder(s, t), StringOrder(t, u), StringOrder(s, u))
  <2>0. Len(s) \in Nat /\ Len(t) \in Nat /\ Len(u) \in Nat
    BY AtFacts
  <2> DEFINE n == Len(s) + Len(t) + Len(u)
             f(x, y) == [i \in 1..n |-> SortOrder(At(x, i), At(y, i))]
  <2>1. n \in Nat /\ Len(s) =< n /\ Len(t) =< n /\ Len(u) =< n
    BY <2>0
  <2>2. \A i \in 1..n : At(s, i) \in Chars /\ At(t, i) \in Chars /\ At(u, i) \in Chars
    BY <2>1, AtFacts
  <2> HIDE DEF n
  <2>3. /\ StringOrder(s, t) = First(f(s, t)) /\ f(s, t) \in [1..n -> Orders]
        /\ StringOrder(t, s) = First(f(t, s)) /\ f(t, s) \in [1..n -> Orders]
        /\ StringOrder(t, u) = First(f(t, u)) /\ f(t, u) \in [1..n -> Orders]
        /\ StringOrder(s, u) = First(f(s, u)) /\ f(s, u) \in [1..n -> Orders]
    BY <2>1, StringRounds
  <2>4. \A i \in 1..n : f(s, t)[i] = -f(t, s)[i]
    BY <2>2, SortingFacts
  <2>5. \A i \in 1..n : Agree(f(s, t)[i], f(t, u)[i], f(s, u)[i])
    BY <2>2, SortingFacts
  <2>6. 1..n \in SUBSET Nat
    BY <2>1
  <2> DEFINE D == 1..n
             st == f(s, t)
             ts == f(t, s)
             tu == f(t, u)
             su == f(s, u)
  <2>7. st \in [D -> Orders] /\ ts \in [D -> Orders] /\ tu \in [D -> Orders] /\ su \in [D -> Orders]
    BY <2>3
  <2>8. D \in SUBSET Nat /\ (\A i \in D : st[i] = -ts[i]) /\ (\A i \in D : Agree(st[i], tu[i], su[i]))
    BY <2>4, <2>5, <2>6
  <2> HIDE DEF D, st, ts, tu, su
  <2>9. First(st) \in Orders /\ First(st) = -First(ts)
    BY <2>7, <2>8, FirstFacts
  <2>10. Agree(First(st), First(tu), First(su))
    BY <2>7, <2>8, FirstFacts
  <2> HIDE DEF f
  <2> QED BY <2>3, <2>9, <2>10 DEF st, ts, tu, su
<1> QED BY <1>1

(* The first characters decide, unless they are the same. *)
LEMMA StringHead ==
  ASSUME NEW s \in Seq(Token), NEW t \in Seq(Token),
         SortOrder(At(s, 1), At(t, 1)) # 0
  PROVE  StringOrder(s, t) = SortOrder(At(s, 1), At(t, 1))
<1>0. Len(s) \in Nat /\ Len(t) \in Nat
  BY AtFacts
<1> DEFINE n == Len(s) + Len(t) + 1
           f == [i \in 1..n |-> SortOrder(At(s, i), At(t, i))]
<1>1. n \in Nat /\ Len(s) =< n /\ Len(t) =< n /\ 1 \in 1..n
  BY <1>0
<1> HIDE DEF n
<1>2. StringOrder(s, t) = First(f)
  BY <1>1, StringRounds
<1>3. /\ f[1] # 0 /\ f[1] = SortOrder(At(s, 1), At(t, 1))
      /\ f \in [1..n -> Orders]
  BY <1>1, StringRounds
<1> HIDE DEF f
<1>4. First(f) = f[1]
  <2>1. 1..n \in SUBSET Nat /\ \A j \in 1..n : j < 1 => f[j] = 0
    BY <1>1
  <2>2. PICK k \in 1..n : Decides(f, 1..n, k)
    BY <1>1, <1>3, <2>1, FirstIs DEF Undecided
  <2>3. k = 1
    BY <1>1, <1>3, <2>1, <2>2, DecidesOnce
  <2> QED BY <2>2, <2>3 DEF Decides
<1> QED BY <1>2, <1>3, <1>4

(* Segments and what remains.                                               *)
LEMMA SegmentFacts ==
  ASSUME NEW style, NEW v \in Seq(Token)
  PROVE  /\ Segment(style, v) \in Seq(Token)
         /\ Len(Segment(style, v)) \in 0..Len(v)
         /\ \A i \in 1..Len(Segment(style, v)) :
              /\ InSegment(style, v)[i]
              /\ At(Segment(style, v), i) = At(v, i)
         /\ Len(Segment(style, v)) < Len(v) =>
              ~InSegment(style, v)[Len(Segment(style, v)) + 1]
<1> DEFINE n == Stop(InSegment(style, v))
<1>1. Len(v) \in Nat /\ DOMAIN InSegment(style, v) = 1..Len(v)
  BY AtFacts DEF InSegment
<1>2. /\ n \in 0..Len(v)
      /\ \A i \in 1..n : InSegment(style, v)[i]
      /\ n < Len(v) => ~InSegment(style, v)[n + 1]
  BY <1>1, StopIs
<1>3. Segment(style, v) = UpTo(v, n)
  BY DEF Segment
<1> HIDE DEF n
<1>4. /\ Segment(style, v) \in Seq(Token)
      /\ Len(Segment(style, v)) = n
      /\ \A i \in Nat \ {0} : At(Segment(style, v), i) = IF i =< n THEN At(v, i) ELSE End
  BY <1>2, <1>3, UpToFacts
<1>5. \A i \in 1..n : i \in Nat \ {0} /\ i =< n
  BY <1>1, <1>2
<1> QED BY <1>2, <1>4, <1>5

(* Its head: of what is no number it is the first token, unless a dot. *)
LEMMA SegmentHead ==
  ASSUME NEW style, NEW v \in Seq(Token)
  PROVE  At(Segment(style, v), 1) = IF style = "rpm" /\ At(v, 1) = Dot THEN End ELSE At(v, 1)
<1> DEFINE s == Segment(style, v)
<1>1. /\ s \in Seq(Token) /\ Len(s) \in 0..Len(v)
      /\ \A i \in 1..Len(s) : InSegment(style, v)[i] /\ At(s, i) = At(v, i)
      /\ Len(s) < Len(v) => ~InSegment(style, v)[Len(s) + 1]
  BY SegmentFacts
<1>2. Len(v) \in Nat /\ Len(s) \in Nat
  BY <1>1, AtFacts
<1> HIDE DEF s
<1>3. CASE v = <<>>
  <2>1. At(v, 1) = End /\ Len(v) = 0 /\ End # Dot
    BY <1>3, AtFacts, TokenFacts
  <2>2. At(s, 1) = End
    BY <1>1, <1>2, <2>1, AtFacts
  <2> QED BY <2>1, <2>2 DEF s
<1>4. CASE v # <<>>
  <2>1. 1 \in 1..Len(v) /\ At(v, 1) = v[1]
    BY <1>2, <1>4, AtFacts
  <2>2. InSegment(style, v)[1] <=> (style = "rpm" => v[1] # Dot)
    BY <2>1, AtFacts DEF InSegment
  <2>3. CASE style = "rpm" /\ v[1] = Dot
    <3>1. Len(s) = 0
      <4>1. 1 \notin 1..Len(s)
        BY <1>1, <2>2, <2>3
      <4> QED BY <1>2, <4>1
    <3>2. At(s, 1) = End
      BY <1>1, <3>1, AtFacts
    <3> QED BY <2>1, <2>3, <3>2 DEF s
  <2>4. CASE ~(style = "rpm" /\ v[1] = Dot)
    <3>1. Len(s) # 0
      <4>1. Len(s) = 0 => Len(s) < Len(v) /\ Len(s) + 1 = 1
        BY <1>2, <2>1
      <4> QED BY <1>1, <2>2, <2>4, <4>1
    <3>2. At(s, 1) = At(v, 1)
      BY <1>1, <1>2, <3>1
    <3> QED BY <2>1, <2>4, <3>2 DEF s
  <2> QED BY <2>3, <2>4
<1> QED BY <1>3, <1>4

LEMMA RestFacts ==
  ASSUME NEW style, NEW v \in Seq(Token)
  PROVE  /\ Rest(style, v) \in Seq(Token)
         /\ Len(Rest(style, v)) =< Len(v)
         /\ Len(v) # 0 => Len(Rest(style, v)) < Len(v)
<1> DEFINE s == Segment(style, v)
           m == IF style = "rpm" /\ At(v, Len(s) + 1) = Dot THEN Len(s) + 2 ELSE Len(s) + 1
<1>1. Len(v) \in Nat /\ Len(s) \in 0..Len(v) /\ s \in Seq(Token)
  BY SegmentFacts, AtFacts
<1>2. m \in Nat \ {0}
  BY <1>1
<1>3. Rest(style, v) = From(v, m)
  BY DEF Rest
<1>4. Len(v) # 0 => m > 1
  <2>1. CASE Len(s) = 0
    <3>1. At(s, 1) = End
      BY <1>1, <2>1, AtFacts
    <3>2. Len(v) # 0 => At(v, 1) # End
      BY <1>1, AtFacts
    <3>3. Len(v) # 0 => style = "rpm" /\ At(v, 1) = Dot
      BY <3>1, <3>2, SegmentHead
    <3> QED BY <2>1, <3>3
  <2>2. CASE Len(s) # 0
    BY <1>1, <2>2
  <2> QED BY <2>1, <2>2
<1> HIDE DEF m
<1>5. /\ From(v, m) \in Seq(Token)
      /\ Len(From(v, m)) = IF m =< Len(v) THEN Len(v) - m + 1 ELSE 0
  BY <1>2, FromFacts
<1> QED BY <1>1, <1>2, <1>3, <1>4, <1>5

LEMMA RestsAre ==
  ASSUME NEW style, NEW v \in Seq(Token)
  PROVE  /\ Rests(style, v)[0] = v
         /\ \A k \in Nat : /\ Rests(style, v)[k] \in Seq(Token)
                           /\ Rests(style, v)[k + 1] = Rest(style, Rests(style, v)[k])
                           /\ Rests(style, v)[k + 1] = Rests(style, Rest(style, v))[k]
<1> DEFINE step == [w \in Seq(Token) |-> Rest(style, w)]
<1>1. step \in [Seq(Token) -> Seq(Token)]
  BY RestFacts
<1>2. step[v] = Rest(style, v) /\ Rest(style, v) \in Seq(Token)
  BY RestFacts
<1>3. /\ Rests(style, v) = Rounds(step, v)
      /\ Rests(style, Rest(style, v)) = Rounds(step, step[v])
  BY <1>2 DEF Rests
<1>4. /\ Rounds(step, v)[0] = v
      /\ \A k \in Nat : /\ Rounds(step, v)[k] \in Seq(Token)
                        /\ Rounds(step, v)[k + 1] = step[Rounds(step, v)[k]]
  <2> DEFINE S == Seq(Token)
  <2>1. step \in [S -> S] /\ v \in S
    BY <1>1
  <2> HIDE DEF S, step
  <2>2. IsRun(Rounds(step, v), step, v, S)
    BY <2>1, RoundsRun
  <2> QED BY <2>2 DEF IsRun, S
<1>5. \A k \in Nat : Rounds(step, v)[k + 1] = Rounds(step, step[v])[k]
  <2> DEFINE S == Seq(Token)
  <2>1. step \in [S -> S] /\ v \in S
    BY <1>1
  <2> HIDE DEF S, step
  <2> QED BY <2>1, RoundsShift
<1>6. \A w \in Seq(Token) : step[w] = Rest(style, w)
  OBVIOUS
<1> HIDE DEF step
<1> QED BY <1>3, <1>4, <1>5, <1>6

LEMMA RestsEnd ==
  ASSUME NEW style, NEW v \in Seq(Token), NEW k \in Nat, Len(v) =< k
  PROVE  Rests(style, v)[k] = <<>>
<1> DEFINE step == [w \in Seq(Token) |-> Rest(style, w)]
<1>1. step \in [Seq(Token) -> Seq(Token)]
  BY RestFacts
<1>2. \A w \in Seq(Token) : Len(step[w]) =< Len(w) /\ (Len(w) # 0 => Len(step[w]) < Len(w))
  BY RestFacts
<1>3. Rests(style, v) = Rounds(step, v)
  BY DEF Rests
<1> HIDE DEF step
<1> QED BY <1>1, <1>2, <1>3, RoundsEnd

(* One round of the comparison sorts what remains by how it begins, and     *)
(* then by its first segment.                                               *)
Standing(style, x) ==
  IF x = Tilde THEN 0 ELSE IF x = End THEN 1
  ELSE IF IsNumber(x) <=> style = "rpm" THEN 3 ELSE 2

Within(style, v, w) ==
  IF End \in {At(v, 1), At(w, 1)} THEN 0
  ELSE IF IsNumber(At(v, 1)) /\ IsNumber(At(w, 1)) THEN Order(At(v, 1).value, At(w, 1).value)
  ELSE StringOrder(Segment(style, v), Segment(style, w))

LEMMA RoundOrderIs ==
  ASSUME NEW style, NEW v \in Seq(Token), NEW w \in Seq(Token)
  PROVE  RoundOrder(style, v, w)
           = Then(Order(Standing(style, At(v, 1)), Standing(style, At(w, 1))), Within(style, v, w))
<1> DEFINE x == At(v, 1)
           y == At(w, 1)
           texts == StringOrder(Segment(style, v), Segment(style, w))
           numbers == Order(x.value, y.value)
           standing == Order(Standing(style, x), Standing(style, y))
<1>1. x \in Chars /\ y \in Chars
  BY AtFacts
<1>2. ~IsNumber(End) /\ ~IsNumber(Tilde) /\ Tilde # End
  BY TokenFacts
<1>3. RoundOrder(style, v, w)
        = IF End \in {x, y} THEN EndOrder(x, y)
          ELSE IF IsNumber(x) THEN IF IsNumber(y) THEN numbers ELSE MixedOrder(style, y)
          ELSE IF IsNumber(y) THEN -MixedOrder(style, x) ELSE texts
  BY DEF RoundOrder
<1>4. Within(style, v, w) = IF End \in {x, y} THEN 0
                            ELSE IF IsNumber(x) /\ IsNumber(y) THEN numbers ELSE texts
  BY DEF Within
<1>5. ASSUME ~IsNumber(x), ~IsNumber(y), End \notin {x, y}, standing # 0
      PROVE  texts = standing
  <2> DEFINE a == At(Segment(style, v), 1)
             b == At(Segment(style, w), 1)
  <2>1. Segment(style, v) \in Seq(Token) /\ Segment(style, w) \in Seq(Token)
    BY SegmentFacts
  <2>2. a \in Chars /\ b \in Chars
    BY <2>1, AtFacts
  <2>3. /\ a = IF style = "rpm" /\ x = Dot THEN End ELSE x
        /\ b = IF style = "rpm" /\ y = Dot THEN End ELSE y
    BY SegmentHead
  <2>4. (a = Tilde <=> x = Tilde) /\ (b = Tilde <=> y = Tilde)
    BY <2>3, TokenFacts
  <2>5. /\ Sorting(a) \in 0..3 /\ Sorting(b) \in 0..3
        /\ x = Tilde <=> Sorting(a) = 0
        /\ y = Tilde <=> Sorting(b) = 0
    BY <2>2, <2>4, SortingFacts
  <2>6. SortOrder(a, b) = standing
    BY <1>5, <2>5 DEF Standing, SortOrder, Order, Then
  <2> HIDE DEF standing, a, b
  <2> QED BY <1>5, <2>1, <2>6, StringHead DEF a, b
<1> SUFFICES RoundOrder(style, v, w) = Then(standing, Within(style, v, w))
  OBVIOUS
<1> HIDE DEF x, y, texts, numbers
<1>6. CASE End \in {x, y}
  BY <1>2, <1>3, <1>4, <1>6 DEF EndOrder, Standing, Order, Then, standing
<1>7. CASE End \notin {x, y} /\ (IsNumber(x) \/ IsNumber(y))
  BY <1>2, <1>3, <1>4, <1>7 DEF MixedOrder, Standing, Order, Then, standing
<1>8. CASE End \notin {x, y} /\ ~IsNumber(x) /\ ~IsNumber(y)
  BY <1>3, <1>4, <1>5, <1>8 DEF Then
<1> QED BY <1>6, <1>7, <1>8

LEMMA RoundOrderFacts ==
  ASSUME NEW style
  PROVE  /\ \A v, w \in Seq(Token) : /\ RoundOrder(style, v, w) \in Orders
                                     /\ RoundOrder(style, v, w) = -RoundOrder(style, w, v)
         /\ \A v, w, u \in Seq(Token) :
              Agree(RoundOrder(style, v, w), RoundOrder(style, w, u), RoundOrder(style, v, u))
         /\ RoundOrder(style, <<>>, <<>>) = 0
<1> DEFINE S(v) == Standing(style, At(v, 1))
           W(v, w) == Within(style, v, w)
           O(v, w) == Order(S(v), S(w))
<1>1. \A v \in Seq(Token) : S(v) \in Int
  BY DEF Standing
<1>2. \A v, w \in Seq(Token) : O(v, w) \in Orders /\ O(v, w) = -O(w, v) /\ (O(v, w) = 0 <=> S(v) = S(w))
  BY <1>1, OrderFacts
<1>3. \A v, w, u \in Seq(Token) : Agree(O(v, w), O(w, u), O(v, u))
  BY <1>1, OrderFacts
<1>4. \A v, w \in Seq(Token) : RoundOrder(style, v, w) = Then(O(v, w), W(v, w))
  BY RoundOrderIs
<1>5. \A v \in Seq(Token) : At(v, 1) \in Chars /\ At(v, 1).value \in Int
  BY AtFacts, TokenFacts
<1>6. \A v \in Seq(Token) : Segment(style, v) \in Seq(Token)
  BY SegmentFacts
<1>7. \A v, w \in Seq(Token) : W(v, w) \in Orders /\ W(v, w) = -W(w, v)
  <2> TAKE v, w \in Seq(Token)
  <2>1. /\ Order(At(v, 1).value, At(w, 1).value) \in Orders
        /\ Order(At(v, 1).value, At(w, 1).value) = -Order(At(w, 1).value, At(v, 1).value)
    BY <1>5, OrderFacts
  <2>2. /\ StringOrder(Segment(style, v), Segment(style, w)) \in Orders
        /\ StringOrder(Segment(style, v), Segment(style, w))
             = -StringOrder(Segment(style, w), Segment(style, v))
    BY <1>6, StringOrderFacts
  <2> QED BY <2>1, <2>2 DEF Within, Orders
<1>8. ASSUME NEW v \in Seq(Token), NEW w \in Seq(Token), S(v) = S(w)
      PROVE  /\ At(v, 1) = End <=> At(w, 1) = End
             /\ IsNumber(At(v, 1)) <=> IsNumber(At(w, 1))
  BY <1>8, TokenFacts DEF Standing
<1>9. ASSUME NEW v \in Seq(Token), NEW w \in Seq(Token), NEW u \in Seq(Token),
             S(v) = S(w), S(w) = S(u)
      PROVE  Agree(W(v, w), W(w, u), W(v, u))
  <2>1. Agree(Order(At(v, 1).value, At(w, 1).value), Order(At(w, 1).value, At(u, 1).value),
              Order(At(v, 1).value, At(u, 1).value))
    BY <1>5, OrderFacts
  <2>2. Agree(StringOrder(Segment(style, v), Segment(style, w)),
              StringOrder(Segment(style, w), Segment(style, u)),
              StringOrder(Segment(style, v), Segment(style, u)))
    BY <1>6, StringOrderFacts
  <2>3. Agree(0, 0, 0)
    BY DEF Agree
  <2>4. /\ At(v, 1) = End <=> At(w, 1) = End
        /\ At(u, 1) = End <=> At(w, 1) = End
        /\ IsNumber(At(v, 1)) <=> IsNumber(At(w, 1))
        /\ IsNumber(At(u, 1)) <=> IsNumber(At(w, 1))
    BY <1>8, <1>9
  <2> QED BY <2>1, <2>2, <2>3, <2>4 DEF Within
<1> HIDE DEF S, W, O
<1>10. \A v, w \in Seq(Token) : /\ RoundOrder(style, v, w) \in Orders
                                /\ RoundOrder(style, v, w) = -RoundOrder(style, w, v)
  BY <1>2, <1>4, <1>7, ThenFacts
<1>11. ASSUME NEW v \in Seq(Token), NEW w \in Seq(Token), NEW u \in Seq(Token)
       PROVE  Agree(RoundOrder(style, v, w), RoundOrder(style, w, u), RoundOrder(style, v, u))
  <2>1. O(v, w) = 0 /\ O(w, u) = 0 => Agree(W(v, w), W(w, u), W(v, u))
    BY <1>2, <1>9
  <2>2. /\ O(v, w) \in Orders /\ O(w, u) \in Orders /\ O(v, u) \in Orders
        /\ W(v, w) \in Orders /\ W(w, u) \in Orders /\ W(v, u) \in Orders
        /\ Agree(O(v, w), O(w, u), O(v, u))
    BY <1>2, <1>3, <1>7
  <2>3. Agree(Then(O(v, w), W(v, w)), Then(O(w, u), W(w, u)), Then(O(v, u), W(v, u)))
    BY <2>1, <2>2, ThenFacts
  <2> QED BY <1>4, <2>3
<1>12. RoundOrder(style, <<>>, <<>>) = 0
  <2>1. <<>> \in Seq(Token)
    OBVIOUS
  <2> QED BY <2>1, AtFacts DEF RoundOrder, EndOrder
<1> QED BY <1>10, <1>11, <1>12

LEMMA PartRounds ==
  ASSUME NEW style, NEW v \in Seq(Token), NEW w \in Seq(Token), NEW n \in Nat,
         Len(v) =< n, Len(w) =< n
  PROVE  /\ [k \in 0..n |-> RoundOrder(style, Rests(style, v)[k], Rests(style, w)[k])]
               \in [0..n -> Orders]
         /\ PartOrder(style, v, w)
              = First([k \in 0..n |-> RoundOrder(style, Rests(style, v)[k], Rests(style, w)[k])])
<1> DEFINE m == Longer(v, w)
           round(k) == RoundOrder(style, Rests(style, v)[k], Rests(style, w)[k])
           a == [k \in 0..m |-> round(k)]
           b == [k \in 0..n |-> round(k)]
<1>1. m \in Nat /\ m =< n /\ Len(v) =< m /\ Len(w) =< m
  BY AtFacts DEF Longer
<1> HIDE DEF m
<1>2. \A k \in Nat : Rests(style, v)[k] \in Seq(Token) /\ Rests(style, w)[k] \in Seq(Token)
  BY RestsAre
<1>3. \A k \in Nat : round(k) \in Orders
  BY <1>2, RoundOrderFacts
<1>4. \A k \in Nat : m < k => round(k) = 0
  BY <1>1, AtFacts, RestsEnd, RoundOrderFacts
<1> HIDE DEF round
<1>5. a \in [0..m -> Orders] /\ b \in [0..n -> Orders]
  BY <1>1, <1>3
<1>6. /\ \A k \in 0..m : a[k] = b[k]
      /\ \A k \in 0..n : m < k => b[k] = 0
  BY <1>1, <1>4
<1>7. First(a) = First(b)
  <2> DEFINE C == 0..m
             D == 0..n
  <2> HIDE DEF a, b
  <2>1. Extended(a, b, C, D)
    BY <1>1, <1>6 DEF Extended
  <2>2. D \in SUBSET Nat /\ C \in SUBSET D
    BY <1>1
  <2>3. a \in [C -> Orders] /\ b \in [D -> Orders]
    BY <1>5
  <2> HIDE DEF C, D
  <2> QED BY <2>1, <2>2, <2>3, FirstExtended
<1> QED BY <1>5, <1>7 DEF PartOrder, m, round

(* The order of parts is total and transitive. *)
LEMMA PartOrderFacts ==
  ASSUME NEW style
  PROVE  /\ \A v, w \in Seq(Token) : /\ PartOrder(style, v, w) \in Orders
                                     /\ PartOrder(style, v, w) = -PartOrder(style, w, v)
         /\ \A v, w, u \in Seq(Token) :
              Agree(PartOrder(style, v, w), PartOrder(style, w, u), PartOrder(style, v, u))
<1>1. ASSUME NEW v \in Seq(Token), NEW w \in Seq(Token), NEW u \in Seq(Token)
      PROVE  /\ PartOrder(style, v, w) \in Orders
             /\ PartOrder(style, v, w) = -PartOrder(style, w, v)
             /\ Agree(PartOrder(style, v, w), PartOrder(style, w, u), PartOrder(style, v, u))
  <2>0. Len(v) \in Nat /\ Len(w) \in Nat /\ Len(u) \in Nat
    BY AtFacts
  <2> DEFINE n == Len(v) + Len(w) + Len(u)
             r(x, k) == Rests(style, x)[k]
             f(x, y) == [k \in 0..n |-> RoundOrder(style, r(x, k), r(y, k))]
  <2>1. n \in Nat /\ Len(v) =< n /\ Len(w) =< n /\ Len(u) =< n
    BY <2>0
  <2>2. \A k \in Nat : r(v, k) \in Seq(Token) /\ r(w, k) \in Seq(Token) /\ r(u, k) \in Seq(Token)
    BY RestsAre
  <2> HIDE DEF n
  <2>3. /\ PartOrder(style, v, w) = First(f(v, w)) /\ f(v, w) \in [0..n -> Orders]
        /\ PartOrder(style, w, v) = First(f(w, v)) /\ f(w, v) \in [0..n -> Orders]
        /\ PartOrder(style, w, u) = First(f(w, u)) /\ f(w, u) \in [0..n -> Orders]
        /\ PartOrder(style, v, u) = First(f(v, u)) /\ f(v, u) \in [0..n -> Orders]
    BY <2>1, PartRounds
  <2> HIDE DEF r
  <2>4. ASSUME NEW k \in 0..n
        PROVE  /\ f(v, w)[k] = -f(w, v)[k]
               /\ Agree(f(v, w)[k], f(w, u)[k], f(v, u)[k])
    <3>0. k \in Nat
      BY <2>1
    <3>1. r(v, k) \in Seq(Token) /\ r(w, k) \in Seq(Token) /\ r(u, k) \in Seq(Token)
      BY <2>2, <3>0
    <3>2. /\ f(v, w)[k] = RoundOrder(style, r(v, k), r(w, k))
          /\ f(w, v)[k] = RoundOrder(style, r(w, k), r(v, k))
          /\ f(w, u)[k] = RoundOrder(style, r(w, k), r(u, k))
          /\ f(v, u)[k] = RoundOrder(style, r(v, k), r(u, k))
      OBVIOUS
    <3> QED BY <3>1, <3>2, RoundOrderFacts
  <2>5. 0..n \in SUBSET Nat
    BY <2>1
  <2> DEFINE D == 0..n
             vw == f(v, w)
             wv == f(w, v)
             wu == f(w, u)
             vu == f(v, u)
  <2> HIDE DEF f
  <2>6. vw \in [D -> Orders] /\ wv \in [D -> Orders] /\ wu \in [D -> Orders] /\ vu \in [D -> Orders]
    BY <2>3
  <2>7. D \in SUBSET Nat /\ (\A k \in D : vw[k] = -wv[k]) /\ (\A k \in D : Agree(vw[k], wu[k], vu[k]))
    BY <2>4, <2>5
  <2> HIDE DEF D, vw, wv, wu, vu
  <2>8. First(vw) \in Orders /\ First(vw) = -First(wv)
    BY <2>6, <2>7, FirstFacts
  <2>9. Agree(First(vw), First(wu), First(vu))
    BY <2>6, <2>7, FirstFacts
  <2> QED BY <2>3, <2>8, <2>9 DEF vw, wv, wu, vu
<1> QED BY <1>1

(* The special cases.                                                       *)
LEMMA MarkerBegins ==
  ASSUME NEW v \in Seq(Token), NEW n \in Nat \ {0}, IsMarker(From(v, n))
  PROVE  n \in DOMAIN v /\ At(v, n).class = "word"
<1> DEFINE m == From(v, n)
<1>1. /\ m \in Seq(Token)
      /\ Len(m) = IF n =< Len(v) THEN Len(v) - n + 1 ELSE 0
      /\ At(m, 1) = At(v, n + 1 - 1)
  BY FromFacts
<1>2. m # <<>> /\ m[1].class = "word"
  BY DEF IsMarker
<1> HIDE DEF m
<1>3. Len(m) # 0 /\ Len(m) \in Nat /\ m[1] = At(m, 1)
  BY <1>1, <1>2, AtFacts
<1>4. n \in 1..Len(v) /\ n + 1 - 1 = n
  BY <1>1, <1>3, AtFacts
<1> QED BY <1>1, <1>2, <1>3, <1>4, AtFacts

LEMMA SpecialCases ==
  ASSUME NEW fmt, NEW v \in Seq(Token), NEW w \in Seq(Token)
  PROVE  /\ ~(IsPreRelease(fmt, v, w) /\ IsPreRelease(fmt, w, v))
         /\ ~(HasMarkerForNumber(v, w) /\ HasMarkerForNumber(w, v))
         /\ MarkerFree(v) => ~IsPreRelease(fmt, v, w) /\ ~HasMarkerForNumber(v, w)
<1>0. Len(v) \in Nat /\ Len(w) \in Nat /\ DOMAIN v = 1..Len(v) /\ DOMAIN w = 1..Len(w)
  BY AtFacts
<1>1. ~(IsPreRelease(fmt, v, w) /\ IsPreRelease(fmt, w, v))
  BY <1>0 DEF IsPreRelease
<1>2. ASSUME HasMarkerForNumber(v, w), HasMarkerForNumber(w, v) PROVE FALSE
  <2>1. PICK i \in DOMAIN v \cap DOMAIN w : IsLastDot(v, i) /\ IsMarker(From(v, i + 1))
    BY <1>2 DEF HasMarkerForNumber
  <2>2. PICK j \in DOMAIN w \cap DOMAIN v : IsLastDot(v, j) /\ IsNumber(At(v, j + 1))
    BY <1>2 DEF HasMarkerForNumber
  <2>3. i \in Nat /\ j \in Nat /\ i =< j /\ j =< i
    BY <1>0, <2>1, <2>2 DEF IsLastDot
  <2>4. i = j
    BY <2>3
  <2>5. At(v, i + 1).class = "word"
    BY <2>1, <2>3, MarkerBegins
  <2> QED BY <2>2, <2>4, <2>5 DEF IsNumber
<1>3. ASSUME MarkerFree(v), NEW n \in Nat \ {0} PROVE ~IsMarker(From(v, n))
  BY <1>3, MarkerBegins DEF MarkerFree
<1>4. ASSUME MarkerFree(v) PROVE ~IsPreRelease(fmt, v, w)
  <2>1. Len(w) + 1 \in Nat \ {0} /\ Len(w) + 2 \in Nat \ {0}
    BY <1>0
  <2> QED BY <1>3, <1>4, <2>1 DEF IsPreRelease
<1>5. ASSUME MarkerFree(v) PROVE ~HasMarkerForNumber(v, w)
  <2>1. \A i \in DOMAIN v : i + 1 \in Nat \ {0}
    BY <1>0
  <2> QED BY <1>3, <1>5, <2>1 DEF HasMarkerForNumber
<1> QED BY <1>1, <1>2, <1>4, <1>5

Style(fmt) == IF fmt = "rpm" THEN "rpm" ELSE "debian"

LEMMA UpstreamOrderFacts ==
  ASSUME NEW fmt, NEW v \in Seq(Token), NEW w \in Seq(Token)
  PROVE  /\ UpstreamOrder(fmt, v, w) \in Orders
         /\ UpstreamOrder(fmt, v, w) = -UpstreamOrder(fmt, w, v)
         /\ MarkerFree(v) /\ MarkerFree(w) =>
              UpstreamOrder(fmt, v, w) = PartOrder(Style(fmt), v, w)
<1> DEFINE P(x, y) == PartOrder(Style(fmt), x, y)
<1>1. /\ UpstreamOrder(fmt, v, w)
           = IF IsPreRelease(fmt, v, w) THEN -1
             ELSE IF IsPreRelease(fmt, w, v) THEN 1
             ELSE IF HasMarkerForNumber(v, w) THEN -1
             ELSE IF HasMarkerForNumber(w, v) THEN 1
             ELSE P(v, w)
      /\ UpstreamOrder(fmt, w, v)
           = IF IsPreRelease(fmt, w, v) THEN -1
             ELSE IF IsPreRelease(fmt, v, w) THEN 1
             ELSE IF HasMarkerForNumber(w, v) THEN -1
             ELSE IF HasMarkerForNumber(v, w) THEN 1
             ELSE P(w, v)
  BY DEF UpstreamOrder, Versioning, Style
<1>2. P(v, w) \in Orders /\ P(w, v) \in Orders /\ P(v, w) = -P(w, v)
  BY PartOrderFacts
<1>3. /\ ~(IsPreRelease(fmt, v, w) /\ IsPreRelease(fmt, w, v))
      /\ ~(HasMarkerForNumber(v, w) /\ HasMarkerForNumber(w, v))
      /\ MarkerFree(v) => ~IsPreRelease(fmt, v, w) /\ ~HasMarkerForNumber(v, w)
      /\ MarkerFree(w) => ~IsPreRelease(fmt, w, v) /\ ~HasMarkerForNumber(w, v)
  BY SpecialCases
<1> HIDE DEF P
<1>4. UpstreamOrder(fmt, v, w) \in Orders /\ UpstreamOrder(fmt, v, w) = -UpstreamOrder(fmt, w, v)
  BY <1>1, <1>2, <1>3 DEF Orders
<1>5. MarkerFree(v) /\ MarkerFree(w) => UpstreamOrder(fmt, v, w) = P(v, w)
  BY <1>1, <1>3
<1> QED BY <1>4, <1>5 DEF P

LEMMA NormalizedFacts ==
  ASSUME NEW v \in Seq(Token)
  PROVE  Normalized(v) \in Seq(Token) /\ (MarkerFree(v) => MarkerFree(Normalized(v)))
<1> DEFINE n == <<Tilde, v[2]>>
<1>1. CASE Normalized(v) = v
  BY <1>1
<1>2. CASE Normalized(v) # v
  <2>1. Len(v) = 2 /\ IsNumber(v[2]) /\ Normalized(v) = n
    BY <1>2 DEF Normalized
  <2>2. v[2] \in Token /\ Tilde \in Token
    <3>1. 2 \in 1..Len(v)
      BY <2>1
    <3> QED BY <3>1, ElementOfSeq, TokenFacts
  <2>3. n \in Seq(Token) /\ Len(n) = 2 /\ n[1] = Tilde /\ n[2] = v[2]
    BY <2>2
  <2> HIDE DEF n
  <2>4. ASSUME NEW i \in DOMAIN n, IsMarker(From(n, i)) PROVE FALSE
    <3>1. i \in 1..2 /\ DOMAIN n = 1..2
      BY <2>3, <2>4, AtFacts
    <3>2. At(n, i).class = "word" /\ At(n, i) = n[i]
      BY <2>3, <2>4, <3>1, MarkerBegins DEF At
    <3>3. i = 1 \/ i = 2
      BY <3>1
    <3> QED BY <2>1, <2>3, <3>2, <3>3 DEF IsNumber, Tilde
  <2> QED BY <2>1, <2>3, <2>4 DEF MarkerFree
<1> QED BY <1>1, <1>2

(* No revision comes first for RPM. *)
Absent(fmt, v) == IF fmt = "rpm" /\ v = None THEN 0 ELSE 1

LEMMA RevisionOrderFacts ==
  ASSUME NEW fmt, NEW r \in Seq(Token), NEW s \in Seq(Token)
  PROVE  /\ RevisionOrder(fmt, r, s) \in Orders
         /\ RevisionOrder(fmt, r, s) = -RevisionOrder(fmt, s, r)
         /\ RevisionOrder(fmt, r, s)
              = Then(Order(Absent(fmt, Normalized(r)), Absent(fmt, Normalized(s))),
                     UpstreamOrder(fmt, Normalized(r), Normalized(s)))
<1> DEFINE v == Normalized(r)
           w == Normalized(s)
           R(x, y) == IF fmt = "rpm" /\ x # y /\ None \in {x, y}
                        THEN IF x = None THEN -1 ELSE 1
                        ELSE UpstreamOrder(fmt, x, y)
           T(x, y) == Then(Order(Absent(fmt, x), Absent(fmt, y)), UpstreamOrder(fmt, x, y))
<1>1. RevisionOrder(fmt, r, s) = R(v, w) /\ RevisionOrder(fmt, s, r) = R(w, v)
  BY DEF RevisionOrder
<1>2. v \in Seq(Token) /\ w \in Seq(Token)
  BY NormalizedFacts
<1>3. /\ UpstreamOrder(fmt, v, w) \in Orders /\ UpstreamOrder(fmt, w, v) \in Orders
      /\ UpstreamOrder(fmt, v, w) = -UpstreamOrder(fmt, w, v)
  BY <1>2, UpstreamOrderFacts
<1> HIDE DEF v, w
<1>4. R(v, w) = T(v, w)
  BY DEF Absent, Order, Then
<1>5. R(v, w) \in Orders /\ R(v, w) = -R(w, v)
  BY <1>3 DEF Orders
<1> QED BY <1>1, <1>4, <1>5 DEF v, w

(* Versions.                                                                *)
LEMMA CompareFacts ==
  ASSUME NEW fmt
  PROVE  /\ \A a, b \in Samples : /\ Compare(fmt, a, b) \in Orders
                                  /\ Compare(fmt, a, b) = -Compare(fmt, b, a)
         /\ \A a, b, c \in Plain :
              Agree(Compare(fmt, a, b), Compare(fmt, b, c), Compare(fmt, a, c))
<1> DEFINE E(a, b) == Order(a.epoch, b.epoch)
           U(a, b) == UpstreamOrder(fmt, a.upstream, b.upstream)
           R(a, b) == RevisionOrder(fmt, a.revision, b.revision)
           N(a) == Normalized(a.revision)
           A(a, b) == Order(Absent(fmt, N(a)), Absent(fmt, N(b)))
           F(a, b) == UpstreamOrder(fmt, N(a), N(b))
<1>1. \A a \in Samples : a.epoch \in Int /\ a.upstream \in Seq(Token) /\ a.revision \in Seq(Token)
  BY VersionOrderAssumption
<1>2. \A a \in Samples : N(a) \in Seq(Token)
  BY <1>1, NormalizedFacts
<1>3. \A a, b \in Samples : E(a, b) \in Orders /\ E(a, b) = -E(b, a)
  BY <1>1, OrderFacts
<1>4. \A a, b \in Samples : U(a, b) \in Orders /\ U(a, b) = -U(b, a)
  BY <1>1, UpstreamOrderFacts
<1>5. \A a, b \in Samples : /\ R(a, b) \in Orders /\ R(a, b) = -R(b, a)
                            /\ R(a, b) = Then(A(a, b), F(a, b))
  BY <1>1, RevisionOrderFacts
<1>6. \A a, b \in Samples : A(a, b) \in Orders /\ F(a, b) \in Orders
  <2>1. \A a \in Samples : Absent(fmt, N(a)) \in Int
    BY DEF Absent
  <2> QED BY <1>2, <2>1, OrderFacts, UpstreamOrderFacts
<1>7. \A a, b \in Samples : Compare(fmt, a, b) = Then(E(a, b), Then(U(a, b), R(a, b)))
  BY DEF Compare
<1>8. Plain \subseteq Samples /\ \A a \in Plain : MarkerFree(a.upstream) /\ MarkerFree(N(a))
  BY <1>1, NormalizedFacts DEF Plain
<1>9. ASSUME NEW a \in Plain, NEW b \in Plain, NEW c \in Plain
      PROVE  /\ Agree(E(a, b), E(b, c), E(a, c))
             /\ Agree(U(a, b), U(b, c), U(a, c))
             /\ Agree(A(a, b), A(b, c), A(a, c))
             /\ Agree(F(a, b), F(b, c), F(a, c))
  <2>1. Agree(E(a, b), E(b, c), E(a, c))
    BY <1>1, <1>8, OrderFacts
  <2>2. Agree(A(a, b), A(b, c), A(a, c))
    <3>1. \A x \in Samples : Absent(fmt, N(x)) \in Int
      BY DEF Absent
    <3> QED BY <1>8, <3>1, OrderFacts
  <2>3. ASSUME NEW x \in Seq(Token), NEW y \in Seq(Token), NEW z \in Seq(Token),
               MarkerFree(x), MarkerFree(y), MarkerFree(z)
        PROVE  Agree(UpstreamOrder(fmt, x, y), UpstreamOrder(fmt, y, z), UpstreamOrder(fmt, x, z))
    <3>1. /\ UpstreamOrder(fmt, x, y) = PartOrder(Style(fmt), x, y)
          /\ UpstreamOrder(fmt, y, z) = PartOrder(Style(fmt), y, z)
          /\ UpstreamOrder(fmt, x, z) = PartOrder(Style(fmt), x, z)
      BY <2>3, UpstreamOrderFacts
    <3> QED BY <3>1, PartOrderFacts
  <2>4. Agree(U(a, b), U(b, c), U(a, c))
    BY <1>1, <1>8, <2>3
  <2>5. Agree(F(a, b), F(b, c), F(a, c))
    BY <1>2, <1>8, <2>3
  <2> QED BY <2>1, <2>2, <2>4, <2>5
<1> HIDE DEF E, U, R, A, F
<1>10. \A a, b \in Samples : Then(U(a, b), R(a, b)) \in Orders
                               /\ Then(U(a, b), R(a, b)) = -Then(U(b, a), R(b, a))
  <2> TAKE a, b \in Samples
  <2>1. /\ U(a, b) \in Orders /\ U(b, a) \in Orders /\ U(a, b) = -U(b, a)
        /\ R(a, b) \in Orders /\ R(b, a) \in Orders /\ R(a, b) = -R(b, a)
    BY <1>4, <1>5
  <2> QED BY <2>1, ThenFacts
<1>11. \A a, b \in Samples : /\ Compare(fmt, a, b) \in Orders
                             /\ Compare(fmt, a, b) = -Compare(fmt, b, a)
  <2> TAKE a, b \in Samples
  <2> DEFINE ab == Then(U(a, b), R(a, b))
             ba == Then(U(b, a), R(b, a))
  <2>1. /\ Compare(fmt, a, b) = Then(E(a, b), ab)
        /\ Compare(fmt, b, a) = Then(E(b, a), ba)
    BY <1>7
  <2>2. /\ E(a, b) \in Orders /\ E(b, a) \in Orders /\ E(a, b) = -E(b, a)
        /\ ab \in Orders /\ ba \in Orders /\ ab = -ba
    BY <1>3, <1>10
  <2> HIDE DEF ab, ba
  <2>3. Then(E(a, b), ab) \in Orders /\ Then(E(a, b), ab) = -Then(E(b, a), ba)
    BY <2>2 DEF Then, Orders
  <2> QED BY <2>1, <2>3
<1>12. ASSUME NEW a \in Plain, NEW b \in Plain, NEW c \in Plain
       PROVE  Agree(Compare(fmt, a, b), Compare(fmt, b, c), Compare(fmt, a, c))
  <2>1. \A x, y \in {a, b, c} : /\ E(x, y) \in Orders /\ U(x, y) \in Orders /\ R(x, y) \in Orders
                                /\ A(x, y) \in Orders /\ F(x, y) \in Orders
                                /\ Then(U(x, y), R(x, y)) \in Orders
                                /\ R(x, y) = Then(A(x, y), F(x, y))
                                /\ Compare(fmt, x, y) = Then(E(x, y), Then(U(x, y), R(x, y)))
    BY <1>3, <1>4, <1>5, <1>6, <1>7, <1>8, <1>10
  <2>2. Agree(Then(A(a, b), F(a, b)), Then(A(b, c), F(b, c)), Then(A(a, c), F(a, c)))
    BY <1>9, <2>1, ThenFacts
  <2>3. Agree(R(a, b), R(b, c), R(a, c))
    BY <2>1, <2>2
  <2>4. Agree(Then(U(a, b), R(a, b)), Then(U(b, c), R(b, c)), Then(U(a, c), R(a, c)))
    BY <1>9, <2>1, <2>3, ThenFacts
  <2>5. Agree(Then(E(a, b), Then(U(a, b), R(a, b))), Then(E(b, c), Then(U(b, c), R(b, c))),
              Then(E(a, c), Then(U(a, c), R(a, c))))
    BY <1>9, <2>1, <2>4, ThenFacts
  <2> QED BY <2>1, <2>5
<1> QED BY <1>11, <1>12

(* How many are older tells the place. *)
LEMMA OlderTellPlace ==
  ASSUME NEW fmt, NEW a \in Plain, NEW b \in Plain
  PROVE  Compare(fmt, a, b) = Order(Cardinality({c \in Plain : Compare(fmt, c, a) = -1}),
                                    Cardinality({c \in Plain : Compare(fmt, c, b) = -1}))
<1> DEFINE C(x, y) == Compare(fmt, x, y)
           Older(x) == {c \in Plain : C(c, x) = -1}
<1>1. /\ \A x, y \in Plain : C(x, y) \in Orders /\ C(x, y) = -C(y, x)
      /\ \A x, y, z \in Plain : Agree(C(x, y), C(y, z), C(x, z))
  BY CompareFacts DEF Plain
<1> HIDE DEF C
<1>2. \A x \in Plain : C(x, x) = 0
  BY <1>1 DEF Orders
<1>3. IsFiniteSet(Plain)
  BY VersionOrderAssumption, FS_Subset DEF Plain
<1>4. \A x \in Plain : IsFiniteSet(Older(x)) /\ Cardinality(Older(x)) \in Nat
  BY <1>3, FS_Subset, FS_CardinalityType
<1>5. ASSUME NEW x \in Plain, NEW y \in Plain, C(x, y) = -1
      PROVE  Cardinality(Older(x)) < Cardinality(Older(y))
  <2>1. Older(x) \subseteq Older(y)
    BY <1>1, <1>5 DEF Agree
  <2>2. x \in Older(y) /\ x \notin Older(x)
    BY <1>2, <1>5
  <2>3. Older(x) # Older(y)
    BY <2>2
  <2> HIDE DEF Older
  <2> QED BY <1>4, <2>1, <2>3, FS_Subset
<1>6. CASE C(a, b) = -1
  BY <1>4, <1>5, <1>6 DEF Order, C
<1>7. CASE C(a, b) = 1
  <2>1. C(b, a) = -1
    BY <1>1, <1>7
  <2>2. Cardinality(Older(b)) < Cardinality(Older(a))
    BY <1>5, <2>1
  <2> QED BY <1>4, <1>7, <2>2 DEF Order, C
<1>8. CASE C(a, b) = 0
  <2>1. C(b, a) = 0
    BY <1>1, <1>8
  <2>2. Older(a) = Older(b)
    BY <1>1, <1>8, <2>1 DEF Agree
  <2> QED BY <1>4, <1>8, <2>2 DEF Order, C
<1> QED BY <1>1, <1>6, <1>7, <1>8 DEF Orders

(* The Debian policy.                                                       *)
LEMMA TextFacts ==
  ASSUME NEW v \in Seq(Token)
  PROVE  /\ Text(v) \in Seq(Token) /\ Len(Text(v)) \in 0..Len(v)
         /\ \A i \in 1..Len(Text(v)) : ~IsNumber(At(v, i))
         /\ \A i \in Nat \ {0} : At(Text(v), i) = IF i =< Len(Text(v)) THEN At(v, i) ELSE End
         /\ IsNumber(At(v, Len(Text(v)) + 1)) \/ At(v, Len(Text(v)) + 1) = End
<1> DEFINE f == [i \in DOMAIN v |-> ~IsNumber(v[i])]
           n == Stop(f)
<1>1. Len(v) \in Nat /\ DOMAIN v = 1..Len(v) /\ DOMAIN f = 1..Len(v)
  BY AtFacts
<1>2. \A i \in 1..Len(v) : f[i] <=> ~IsNumber(v[i])
  BY <1>1
<1>3. Text(v) = UpTo(v, n)
  BY DEF Text
<1> HIDE DEF f
<1>4. /\ n \in 0..Len(v)
      /\ \A i \in 1..n : f[i]
      /\ n < Len(v) => ~f[n + 1]
  BY <1>1, StopIs
<1> HIDE DEF n
<1>5. /\ Text(v) \in Seq(Token)
      /\ Len(Text(v)) = n
      /\ \A i \in Nat \ {0} : At(Text(v), i) = IF i =< n THEN At(v, i) ELSE End
  BY <1>3, <1>4, UpToFacts
<1>6. ASSUME NEW i \in 1..n PROVE ~IsNumber(At(v, i))
  <2>1. i \in 1..Len(v) /\ f[i]
    BY <1>1, <1>4
  <2> QED BY <1>2, <2>1, AtFacts
<1>7. IsNumber(At(v, n + 1)) \/ At(v, n + 1) = End
  <2>1. CASE n < Len(v)
    <3>1. n + 1 \in 1..Len(v) /\ ~f[n + 1]
      BY <1>1, <1>4, <2>1
    <3> QED BY <1>2, <3>1, AtFacts
  <2>2. CASE n = Len(v)
    <3>1. n + 1 \notin 1..Len(v) /\ n + 1 \in Int
      BY <1>1, <2>2
    <3> QED BY <3>1, AtFacts
  <2>3. n < Len(v) \/ n = Len(v)
    <3>1. Len(v) \in Nat
      BY <1>1
    <3>2. n \in 0..Len(v)
      BY <1>4
    <3> QED BY <3>1, <3>2
  <2> QED BY <2>1, <2>2, <2>3
<1> QED BY <1>4, <1>5, <1>6, <1>7

LEMMA BeyondFacts ==
  ASSUME NEW v \in Seq(Token)
  PROVE  /\ Beyond(v) \in Seq(Token)
         /\ Len(Beyond(v)) =< Len(v)
         /\ Len(v) # 0 => Len(Beyond(v)) < Len(v)
<1>1. Len(v) \in Nat /\ Len(Text(v)) \in 0..Len(v)
  BY AtFacts, TextFacts
<1>2. Len(Text(v)) + 2 \in Nat \ {0}
  BY <1>1
<1>3. /\ Beyond(v) \in Seq(Token)
      /\ Len(Beyond(v)) = IF Len(Text(v)) + 2 =< Len(v) THEN Len(v) - (Len(Text(v)) + 2) + 1 ELSE 0
  BY <1>2, FromFacts DEF Beyond
<1> QED BY <1>1, <1>3

LEMMA BeyondsAre ==
  ASSUME NEW v \in Seq(Token)
  PROVE  /\ Beyonds(v)[0] = v
         /\ \A k \in Nat : /\ Beyonds(v)[k] \in Seq(Token)
                           /\ Beyonds(v)[k + 1] = Beyonds(Beyond(v))[k]
                           /\ Len(v) =< k => Beyonds(v)[k] = <<>>
<1> DEFINE step == [w \in Seq(Token) |-> Beyond(w)]
<1>1. step \in [Seq(Token) -> Seq(Token)]
  BY BeyondFacts
<1>2. \A w \in Seq(Token) : Len(step[w]) =< Len(w) /\ (Len(w) # 0 => Len(step[w]) < Len(w))
  BY BeyondFacts
<1>3. Beyonds(v) = Rounds(step, v) /\ Beyonds(Beyond(v)) = Rounds(step, step[v])
  BY DEF Beyonds
<1> HIDE DEF step
<1>4. Rounds(step, v)[0] = v /\ \A k \in Nat : Rounds(step, v)[k] \in Seq(Token)
  <2> DEFINE S == Seq(Token)
  <2>1. step \in [S -> S] /\ v \in S
    BY <1>1
  <2> HIDE DEF S
  <2>2. IsRun(Rounds(step, v), step, v, S)
    BY <2>1, RoundsRun
  <2> QED BY <2>2 DEF IsRun, S
<1>5. \A k \in Nat : Rounds(step, v)[k + 1] = Rounds(step, step[v])[k]
  <2> DEFINE S == Seq(Token)
  <2>1. step \in [S -> S] /\ v \in S
    BY <1>1
  <2> HIDE DEF S
  <2> QED BY <2>1, RoundsShift
<1>6. \A k \in Nat : Len(v) =< k => Rounds(step, v)[k] = <<>>
  BY <1>1, <1>2, RoundsEnd
<1> QED BY <1>3, <1>4, <1>5, <1>6

LEMMA LexicalIsStringOrder ==
  ASSUME NEW s \in Seq(Token), NEW t \in Seq(Token)
  PROVE  Lexical(s, t) = StringOrder(s, t)
<1> DEFINE n == Longer(s, t)
<1>1. n \in Nat /\ Len(s) =< n /\ Len(t) =< n
  BY LongerFacts
<1>2. Lexical(s, t) = First([i \in 1..n |-> SortOrder(At(s, i), At(t, i))])
  BY DEF Lexical, SortOrder
<1> HIDE DEF n
<1> QED BY <1>1, <1>2, StringRounds

PolicyRound(x, y) == Then(Lexical(Text(x), Text(y)), Order(Figure(x), Figure(y)))

LEMMA PolicyRoundFacts ==
  /\ \A x, y \in Seq(Token) : PolicyRound(x, y) \in Orders
  /\ PolicyRound(<<>>, <<>>) = 0
<1>1. ASSUME NEW x \in Seq(Token), NEW y \in Seq(Token)
      PROVE  PolicyRound(x, y) \in Orders /\ (x = y => PolicyRound(x, y) = 0)
  <2>1. Text(x) \in Seq(Token) /\ Text(y) \in Seq(Token)
    BY TextFacts
  <2>2. /\ StringOrder(Text(x), Text(y)) \in Orders
        /\ StringOrder(Text(x), Text(y)) = -StringOrder(Text(y), Text(x))
    BY <2>1, StringOrderFacts
  <2>3. Lexical(Text(x), Text(y)) \in Orders /\ (x = y => Lexical(Text(x), Text(y)) = 0)
    BY <2>1, <2>2, LexicalIsStringOrder DEF Orders
  <2>4. ASSUME NEW z \in Seq(Token) PROVE Figure(z) \in Int
    <3>1. Len(z) \in Nat /\ Len(Text(z)) \in 0..Len(z)
      BY AtFacts, TextFacts
    <3>2. At(z, Len(Text(z)) + 1) \in Chars
      BY <3>1, AtFacts
    <3> QED BY <3>2, TokenFacts DEF Figure
  <2>5. Order(Figure(x), Figure(y)) \in Orders /\ (x = y => Order(Figure(x), Figure(y)) = 0)
    BY <2>4, OrderFacts
  <2> QED BY <2>3, <2>5, ThenFacts DEF PolicyRound, Then
<1>2. <<>> \in Seq(Token)
  OBVIOUS
<1> QED BY <1>1, <1>2

LEMMA PolicyRounds ==
  ASSUME NEW v \in Seq(Token), NEW w \in Seq(Token), NEW n \in Nat,
         Len(v) =< n, Len(w) =< n
  PROVE  /\ [k \in 0..n |-> PolicyRound(Beyonds(v)[k], Beyonds(w)[k])] \in [0..n -> Orders]
         /\ Policy(v, w) = First([k \in 0..n |-> PolicyRound(Beyonds(v)[k], Beyonds(w)[k])])
<1> DEFINE m == Longer(v, w)
           round(k) == PolicyRound(Beyonds(v)[k], Beyonds(w)[k])
           a == [k \in 0..m |-> round(k)]
           b == [k \in 0..n |-> round(k)]
<1>0. Policy(v, w) = First(a)
  BY DEF Policy, PolicyRound
<1>1. m \in Nat /\ m =< n /\ Len(v) =< m /\ Len(w) =< m
  BY AtFacts DEF Longer
<1> HIDE DEF m
<1>2. \A k \in Nat : Beyonds(v)[k] \in Seq(Token) /\ Beyonds(w)[k] \in Seq(Token)
  BY BeyondsAre
<1>3. \A k \in Nat : round(k) \in Orders
  BY <1>2, PolicyRoundFacts
<1>4. ASSUME NEW k \in Nat, m < k PROVE round(k) = 0
  <2>1. Len(v) =< k /\ Len(w) =< k
    BY <1>1, <1>4, AtFacts
  <2>2. Beyonds(v)[k] = <<>> /\ Beyonds(w)[k] = <<>>
    BY <2>1, BeyondsAre
  <2> QED BY <2>2, PolicyRoundFacts
<1> HIDE DEF round
<1>5. a \in [0..m -> Orders] /\ b \in [0..n -> Orders]
  BY <1>1, <1>3
<1>6. /\ \A k \in 0..m : a[k] = b[k]
      /\ \A k \in 0..n : m < k => b[k] = 0
  BY <1>1, <1>4
<1>7. First(a) = First(b)
  <2> DEFINE C == 0..m
             D == 0..n
  <2> HIDE DEF a, b
  <2>1. Extended(a, b, C, D)
    BY <1>1, <1>6 DEF Extended
  <2>2. D \in SUBSET Nat /\ C \in SUBSET D
    BY <1>1
  <2>3. a \in [C -> Orders] /\ b \in [D -> Orders]
    BY <1>5
  <2> HIDE DEF C, D
  <2> QED BY <2>1, <2>2, <2>3, FirstExtended
<1> QED BY <1>0, <1>5, <1>7 DEF round

(* One round of either, and then the rest. *)
LEMMA PartUnfolded ==
  ASSUME NEW style, NEW v \in Seq(Token), NEW w \in Seq(Token)
  PROVE  PartOrder(style, v, w)
           = Then(RoundOrder(style, v, w), PartOrder(style, Rest(style, v), Rest(style, w)))
<1>0. Len(v) \in Nat /\ Len(w) \in Nat
  BY AtFacts
<1> DEFINE n == Len(v) + Len(w)
           x == Rest(style, v)
           y == Rest(style, w)
           a == [k \in 0..(n + 1) |-> RoundOrder(style, Rests(style, v)[k], Rests(style, w)[k])]
           b == [k \in 0..n |-> RoundOrder(style, Rests(style, x)[k], Rests(style, y)[k])]
<1>1. /\ x \in Seq(Token) /\ Len(x) =< Len(v) /\ Len(x) \in Nat
      /\ y \in Seq(Token) /\ Len(y) =< Len(w) /\ Len(y) \in Nat
  BY RestFacts, AtFacts
<1>2. /\ n \in Nat /\ n + 1 \in Nat /\ Len(v) =< n + 1 /\ Len(w) =< n + 1
      /\ Len(x) =< n /\ Len(y) =< n
  BY <1>0, <1>1
<1>3. \A k \in Nat : /\ Rests(style, v)[k + 1] = Rests(style, x)[k]
                     /\ Rests(style, w)[k + 1] = Rests(style, y)[k]
  BY RestsAre
<1> HIDE DEF n, x, y
<1>4. PartOrder(style, v, w) = First(a) /\ a \in [0..(n + 1) -> Orders]
  BY <1>2, PartRounds
<1>5. PartOrder(style, x, y) = First(b) /\ b \in [0..n -> Orders]
  BY <1>1, <1>2, PartRounds
<1>6. \A k \in 0..n : b[k] = a[k + 1]
  BY <1>2, <1>3
<1>7. a[0] = RoundOrder(style, v, w)
  <2>1. 0 \in 0..(n + 1) /\ Rests(style, v)[0] = v /\ Rests(style, w)[0] = w
    BY <1>2, RestsAre
  <2> QED BY <2>1
<1> HIDE DEF a, b
<1>8. First(a) = Then(a[0], First(b))
  BY <1>2, <1>4, <1>5, <1>6, FirstUnfolded
<1> QED BY <1>4, <1>5, <1>7, <1>8 DEF x, y

LEMMA PolicyUnfolded ==
  ASSUME NEW v \in Seq(Token), NEW w \in Seq(Token)
  PROVE  Policy(v, w) = Then(PolicyRound(v, w), Policy(Beyond(v), Beyond(w)))
<1>0. Len(v) \in Nat /\ Len(w) \in Nat
  BY AtFacts
<1> DEFINE n == Len(v) + Len(w)
           x == Beyond(v)
           y == Beyond(w)
           a == [k \in 0..(n + 1) |-> PolicyRound(Beyonds(v)[k], Beyonds(w)[k])]
           b == [k \in 0..n |-> PolicyRound(Beyonds(x)[k], Beyonds(y)[k])]
<1>1. /\ x \in Seq(Token) /\ Len(x) =< Len(v) /\ Len(x) \in Nat
      /\ y \in Seq(Token) /\ Len(y) =< Len(w) /\ Len(y) \in Nat
  BY BeyondFacts, AtFacts
<1>2. /\ n \in Nat /\ n + 1 \in Nat /\ Len(v) =< n + 1 /\ Len(w) =< n + 1
      /\ Len(x) =< n /\ Len(y) =< n
  BY <1>0, <1>1
<1>3. \A k \in Nat : /\ Beyonds(v)[k + 1] = Beyonds(x)[k]
                     /\ Beyonds(w)[k + 1] = Beyonds(y)[k]
  BY BeyondsAre
<1> HIDE DEF n, x, y
<1>4. Policy(v, w) = First(a) /\ a \in [0..(n + 1) -> Orders]
  BY <1>2, PolicyRounds
<1>5. Policy(x, y) = First(b) /\ b \in [0..n -> Orders]
  BY <1>1, <1>2, PolicyRounds
<1>6. \A k \in 0..n : b[k] = a[k + 1]
  BY <1>2, <1>3
<1>7. a[0] = PolicyRound(v, w)
  <2>1. 0 \in 0..(n + 1) /\ Beyonds(v)[0] = v /\ Beyonds(w)[0] = w
    BY <1>2, BeyondsAre
  <2> QED BY <2>1
<1> HIDE DEF a, b
<1>8. First(a) = Then(a[0], First(b))
  BY <1>2, <1>4, <1>5, <1>6, FirstUnfolded
<1> QED BY <1>4, <1>5, <1>7, <1>8 DEF x, y

LEMMA NothingEqual ==
  /\ \A style : PartOrder(style, <<>>, <<>>) = 0
  /\ Policy(<<>>, <<>>) = 0
<1>1. <<>> \in Seq(Token) /\ Len(<<>>) = 0
  OBVIOUS
<1>2. ASSUME NEW style PROVE PartOrder(style, <<>>, <<>>) = 0
  <2>1. PartOrder(style, <<>>, <<>>) \in Orders /\ PartOrder(style, <<>>, <<>>) = -PartOrder(style, <<>>, <<>>)
    BY <1>1, PartOrderFacts
  <2> QED BY <2>1 DEF Orders
<1>3. Policy(<<>>, <<>>) = 0
  <2> DEFINE a == [k \in 0..0 |-> PolicyRound(Beyonds(<<>>)[k], Beyonds(<<>>)[k])]
  <2>1. Policy(<<>>, <<>>) = First(a) /\ a \in [0..0 -> Orders] /\ 0..0 \in SUBSET Nat
    BY <1>1, PolicyRounds
  <2>2. \A k \in 0..0 : a[k] = 0
    <3> TAKE k \in 0..0
    <3>0. Beyonds(<<>>)[0] = <<>>
      BY <1>1, BeyondsAre
    <3>1. k = 0 /\ 0 \in 0..0 /\ Beyonds(<<>>)[0] = <<>>
      BY <3>0
    <3>2. a[0] = PolicyRound(<<>>, <<>>)
      BY <3>1
    <3> HIDE DEF a
    <3> QED BY <3>1, <3>2, PolicyRoundFacts
  <2> HIDE DEF a
  <2> QED BY <2>1, <2>2, FirstIs DEF Undecided, Decides
<1> QED BY <1>2, <1>3

(* Parts in which numbers and texts alternate and that end in a number, or  *)
(* what is left of them.                                                    *)
Regular(v) ==
  \A i \in Nat \ {0} : /\ IsNumber(At(v, i)) => ~IsNumber(At(v, i + 1))
                       /\ At(v, i) # End /\ At(v, i + 1) = End => IsNumber(At(v, i))

LEMMA FromRegular ==
  ASSUME NEW v \in Seq(Token), Regular(v), NEW n \in Nat \ {0}
  PROVE  From(v, n) \in Seq(Token) /\ Regular(From(v, n))
<1>1. /\ From(v, n) \in Seq(Token)
      /\ \A i \in Nat \ {0} : At(From(v, n), i) = At(v, n + i - 1)
  BY FromFacts
<1>2. ASSUME NEW i \in Nat \ {0}
      PROVE  /\ IsNumber(At(From(v, n), i)) => ~IsNumber(At(From(v, n), i + 1))
             /\ At(From(v, n), i) # End /\ At(From(v, n), i + 1) = End =>
                  IsNumber(At(From(v, n), i))
  <2> DEFINE j == n + i - 1
  <2>1. j \in Nat \ {0} /\ i + 1 \in Nat \ {0} /\ n + (i + 1) - 1 = j + 1
    OBVIOUS
  <2>2. At(From(v, n), i) = At(v, j) /\ At(From(v, n), i + 1) = At(v, j + 1)
    BY <1>1, <2>1
  <2> HIDE DEF j
  <2> QED BY <2>1, <2>2 DEF Regular
<1> QED BY <1>1, <1>2 DEF Regular

(* A number at the beginning is the first segment. *)
LEMMA NumberFirst ==
  ASSUME NEW v \in Seq(Token), Regular(v), IsNumber(At(v, 1))
  PROVE  /\ Rest("debian", v) = From(v, 2)
         /\ Len(Text(v)) = 0 /\ Text(v) = <<>>
         /\ Beyond(v) = From(v, 2)
         /\ Figure(v) = At(v, 1).value
<1> DEFINE s == Segment("debian", v)
<1>1. Len(v) \in Nat /\ DOMAIN v = 1..Len(v) /\ 1 \in 1..Len(v) /\ v[1] = At(v, 1)
  <2>1. At(v, 1) # End
    BY TokenFacts
  <2> QED BY <2>1, AtFacts
<1>2. /\ s \in Seq(Token) /\ Len(s) \in 0..Len(v)
      /\ \A i \in 1..Len(s) : InSegment("debian", v)[i]
      /\ Len(s) < Len(v) => ~InSegment("debian", v)[Len(s) + 1]
  BY SegmentFacts
<1>3. \A i \in 1..Len(v) : InSegment("debian", v)[i] <=> IsNumber(v[i])
  BY <1>1 DEF InSegment
<1> HIDE DEF s
<1>4. ~(2 =< Len(s))
  <2> SUFFICES ASSUME 2 =< Len(s) PROVE FALSE
    OBVIOUS
  <2>1. 2 \in 1..Len(s) /\ 2 \in 1..Len(v)
    BY <1>1, <1>2
  <2>2. IsNumber(v[2]) /\ v[2] = At(v, 2)
    BY <1>2, <1>3, <2>1, AtFacts
  <2>3. 1 \in Nat \ {0} /\ 1 + 1 = 2
    OBVIOUS
  <2> QED BY <2>2, <2>3 DEF Regular
<1>5. ~(Len(s) = 0)
  <2> SUFFICES ASSUME Len(s) = 0 PROVE FALSE
    OBVIOUS
  <2>1. Len(s) < Len(v) /\ Len(s) + 1 = 1
    BY <1>1
  <2> QED BY <1>1, <1>2, <1>3, <2>1
<1>6. Len(s) = 1
  <2>1. Len(s) \in Nat
    BY <1>1, <1>2
  <2>2. \A m \in Nat : 2 =< m \/ m = 0 \/ m = 1
    OBVIOUS
  <2> QED BY <1>4, <1>5, <2>1, <2>2
<1>7. Rest("debian", v) = From(v, 2)
  <2>1. Rest("debian", v) = From(v, Len(s) + 1)
    BY DEF Rest, s
  <2> QED BY <1>6, <2>1
<1>8. Len(Text(v)) = 0
  <2> SUFFICES ASSUME Len(Text(v)) # 0 PROVE FALSE
    OBVIOUS
  <2>1. 1 \in 1..Len(Text(v))
    BY <1>1, TextFacts
  <2> QED BY <2>1, TextFacts
<1>9. Text(v) = <<>>
  BY <1>8, TextFacts, AtFacts
<1> QED BY <1>7, <1>8, <1>9 DEF Beyond, Figure

(* A text at the beginning is; after it comes a number. *)
LEMMA TextFirst ==
  ASSUME NEW v \in Seq(Token), Regular(v), ~IsNumber(At(v, 1)), At(v, 1) # End
  PROVE  /\ Segment("debian", v) = Text(v)
         /\ At(Text(v), 1) = At(v, 1)
         /\ Rest("debian", v) = From(v, Len(Text(v)) + 1)
         /\ IsNumber(At(v, Len(Text(v)) + 1))
<1> DEFINE n == Len(Text(v))
           f == InSegment("debian", v)
<1>1. Len(v) \in Nat /\ DOMAIN v = 1..Len(v) /\ 1 \in 1..Len(v) /\ v[1] = At(v, 1)
  BY AtFacts
<1>2. /\ n \in 0..Len(v) /\ \A i \in 1..n : ~IsNumber(At(v, i))
      /\ \A i \in Nat \ {0} : At(Text(v), i) = IF i =< n THEN At(v, i) ELSE End
      /\ IsNumber(At(v, n + 1)) \/ At(v, n + 1) = End
  BY TextFacts
<1>3. DOMAIN f = 1..Len(v) /\ \A i \in 1..Len(v) : f[i] <=> ~IsNumber(v[i])
  <2>1. ~IsNumber(v[1])
    BY <1>1
  <2>2. f = [i \in 1..Len(v) |-> IsNumber(v[i]) = IsNumber(v[1])
                                   /\ ("debian" = "rpm" => v[i] # Dot)]
    BY <1>1 DEF InSegment
  <2>3. "debian" # "rpm"
    OBVIOUS
  <2>4. DOMAIN f = 1..Len(v) /\ \A i \in 1..Len(v) : f[i] = (IsNumber(v[i]) = IsNumber(v[1]))
    BY <2>2, <2>3
  <2> HIDE DEF f
  <2> QED BY <2>1, <2>4 DEF IsNumber
<1>4. n # 0
  <2> SUFFICES ASSUME n = 0 PROVE FALSE
    OBVIOUS
  <2>1. n + 1 = 1
    OBVIOUS
  <2> HIDE DEF n
  <2> QED BY <1>2, <2>1
<1> HIDE DEF n, f
<1>5. IsNumber(At(v, n + 1))
  <2> SUFFICES ASSUME At(v, n + 1) = End PROVE FALSE
    BY <1>2
  <2>1. n \in Nat \ {0} /\ n \in 1..n /\ n \in 1..Len(v) /\ n \in Int
    BY <1>1, <1>2, <1>4
  <2>2. At(v, n) # End /\ ~IsNumber(At(v, n))
    BY <1>2, <2>1, AtFacts
  <2> QED BY <2>1, <2>2 DEF Regular
<1>6. n < Len(v) /\ n + 1 \in 1..Len(v)
  <2>1. At(v, n + 1) # End /\ n + 1 \in Int
    BY <1>1, <1>2, <1>5, TokenFacts
  <2>2. n + 1 \in 1..Len(v)
    BY <2>1, AtFacts
  <2> QED BY <1>1, <1>2, <2>2
<1>7. \A i \in 1..n : f[i]
  <2> TAKE i \in 1..n
  <2>1. i \in 1..Len(v) /\ ~IsNumber(At(v, i))
    BY <1>1, <1>2
  <2> QED BY <1>3, <2>1, AtFacts
<1>8. ~f[n + 1]
  BY <1>3, <1>5, <1>6, AtFacts
<1>9. Stop(f) = n
  BY <1>1, <1>2, <1>3, <1>7, <1>8, StopOnly
<1>10. Segment("debian", v) = Text(v)
  <2>1. Stop([i \in DOMAIN v |-> ~IsNumber(v[i])]) = n
    <3> DEFINE g == [i \in DOMAIN v |-> ~IsNumber(v[i])]
    <3>1. DOMAIN g = 1..Len(v) /\ \A i \in 1..Len(v) : g[i] <=> f[i]
      BY <1>1, <1>3
    <3>2. (\A i \in 1..n : g[i]) /\ ~g[n + 1]
      <4>1. \A i \in 1..n : i \in 1..Len(v)
        BY <1>1, <1>2
      <4> QED BY <1>6, <1>7, <1>8, <3>1, <4>1
    <3> HIDE DEF g
    <3>3. Stop(g) = n
      BY <1>1, <1>2, <3>1, <3>2, StopOnly
    <3> QED BY <3>3 DEF g
  <2> QED BY <1>9, <2>1 DEF Segment, Text, f
<1>11. At(Text(v), 1) = At(v, 1)
  BY <1>1, <1>2, <1>4
<1>12. Rest("debian", v) = From(v, n + 1)
  BY <1>10 DEF Rest, n
<1> QED BY <1>5, <1>10, <1>11, <1>12 DEF n

(* The heads decide when only one begins with a text. *)
TextHead(v) == IF IsNumber(At(v, 1)) THEN End ELSE At(v, 1)

LEMMA TextHeadFacts ==
  ASSUME NEW v \in Seq(Token), Regular(v)
  PROVE  /\ Text(v) \in Seq(Token)
         /\ At(Text(v), 1) = TextHead(v)
         /\ TextHead(v) \in Chars
<1>1. Text(v) \in Seq(Token) /\ Len(v) \in Nat /\ Len(Text(v)) \in 0..Len(v)
  BY TextFacts, AtFacts
<1>2. CASE IsNumber(At(v, 1))
  <2>1. Text(v) = <<>>
    BY <1>2, NumberFirst
  <2>2. At(Text(v), 1) = End
    BY <1>1, <2>1, AtFacts
  <2>3. TextHead(v) = End /\ End \in Chars
    BY <1>2 DEF TextHead, Chars
  <2> QED BY <1>1, <2>2, <2>3
<1>3. CASE ~IsNumber(At(v, 1)) /\ At(v, 1) # End
  <2>1. At(Text(v), 1) = At(v, 1)
    BY <1>3, TextFirst
  <2> QED BY <1>1, <1>3, <2>1, AtFacts DEF TextHead
<1>4. CASE ~IsNumber(At(v, 1)) /\ At(v, 1) = End
  <2>1. Len(v) = 0
    BY <1>4, AtFacts
  <2>2. Len(Text(v)) = 0
    BY <1>1, <2>1
  <2>3. At(Text(v), 1) = End
    BY <1>1, <2>2, AtFacts
  <2> QED BY <1>1, <1>4, <2>3, AtFacts DEF TextHead
<1> QED BY <1>2, <1>3, <1>4

LEMMA HeadsDecide ==
  ASSUME NEW v \in Seq(Token), NEW w \in Seq(Token), Regular(v), Regular(w),
         (TextHead(v) = End) # (TextHead(w) = End)
  PROVE  PartOrder("debian", v, w) = Policy(v, w)
<1> DEFINE d == SortOrder(TextHead(v), TextHead(w))
           x == At(v, 1)
           y == At(w, 1)
<1>1. /\ TextHead(v) \in Chars /\ TextHead(w) \in Chars
      /\ Text(v) \in Seq(Token) /\ At(Text(v), 1) = TextHead(v)
      /\ Text(w) \in Seq(Token) /\ At(Text(w), 1) = TextHead(w)
  BY TextHeadFacts
<1>2. d # 0
  <2>1. Sorting(TextHead(v)) # Sorting(TextHead(w))
    BY <1>1, SortingFacts
  <2>2. Sorting(TextHead(v)) \in Int /\ Sorting(TextHead(w)) \in Int
    BY <1>1, SortingFacts
  <2>3. Order(Sorting(TextHead(v)), Sorting(TextHead(w))) # 0
    BY <2>1, <2>2, OrderFacts
  <2> QED BY <2>3 DEF SortOrder, Then
<1>3. Policy(v, w) = d
  <2>1. StringOrder(Text(v), Text(w)) = d
    BY <1>1, <1>2, StringHead
  <2>2. Lexical(Text(v), Text(w)) = d
    BY <1>1, <2>1, LexicalIsStringOrder
  <2>3. PolicyRound(v, w) = d
    BY <1>2, <2>2 DEF PolicyRound, Then
  <2> QED BY <1>2, <2>3, PolicyUnfolded DEF Then
<1>4. RoundOrder("debian", v, w) = d
  <2>1. x \in Chars /\ y \in Chars
    BY AtFacts
  <2>2. /\ Tilde # End /\ ~IsNumber(End) /\ ~IsNumber(Tilde)
        /\ \A c \in Chars : CharOrder(c, End) = SortOrder(c, End) /\ CharOrder(End, c) = SortOrder(End, c)
    BY TokenFacts, CharOrderSorts DEF Chars
  <2>3. CASE TextHead(w) = End
    <3>1. x # End /\ ~IsNumber(x) /\ TextHead(v) = x
      BY <2>3, <2>2 DEF TextHead
    <3>2. d = EndOrder(x, End)
      BY <2>1, <2>2, <2>3, <3>1 DEF CharOrder
    <3>3. CASE y = End
      <4>1. RoundOrder("debian", v, w) = EndOrder(x, y)
        BY <3>3 DEF RoundOrder
      <4> QED BY <3>2, <3>3, <4>1
    <3>4. CASE y # End
      <4>1. IsNumber(y)
        BY <2>3, <3>4 DEF TextHead
      <4>2. RoundOrder("debian", v, w) = -MixedOrder("debian", x)
        BY <3>1, <3>4, <4>1 DEF RoundOrder
      <4>3. -MixedOrder("debian", x) = IF x = Tilde THEN -1 ELSE 1
        BY DEF MixedOrder
      <4>4. EndOrder(x, End) = IF x = Tilde THEN -1 ELSE 1
        BY <3>1 DEF EndOrder
      <4> QED BY <3>2, <4>2, <4>3, <4>4
    <3> QED BY <3>3, <3>4
  <2>4. CASE TextHead(v) = End
    <3>1. y # End /\ ~IsNumber(y) /\ TextHead(w) = y
      BY <2>4, <2>2 DEF TextHead
    <3>2. d = EndOrder(End, y)
      BY <2>1, <2>2, <2>4, <3>1 DEF CharOrder
    <3>3. CASE x = End
      <4>1. RoundOrder("debian", v, w) = EndOrder(x, y)
        BY <3>3 DEF RoundOrder
      <4> QED BY <3>2, <3>3, <4>1
    <3>4. CASE x # End
      <4>1. IsNumber(x)
        BY <2>4, <3>4 DEF TextHead
      <4>2. RoundOrder("debian", v, w) = MixedOrder("debian", y)
        BY <3>1, <3>4, <4>1 DEF RoundOrder
      <4>3. MixedOrder("debian", y) = IF y = Tilde THEN 1 ELSE -1
        BY DEF MixedOrder
      <4>4. EndOrder(End, y) = IF y = Tilde THEN 1 ELSE -1
        BY <3>1 DEF EndOrder
      <4> QED BY <3>2, <4>2, <4>3, <4>4
    <3> QED BY <3>3, <3>4
  <2> QED BY <2>3, <2>4
<1>5. PartOrder("debian", v, w) = d
  BY <1>2, <1>4, PartUnfolded DEF Then
<1> QED BY <1>3, <1>5

(* A round of two numbers, or of two texts and the numbers after them. *)
Comparable(v, w) == (v = <<>> => ~IsNumber(At(w, 1))) /\ (w = <<>> => ~IsNumber(At(v, 1)))

LEMMA NumbersRound ==
  ASSUME NEW v \in Seq(Token), NEW w \in Seq(Token), Regular(v), Regular(w),
         IsNumber(At(v, 1)), IsNumber(At(w, 1))
  PROVE  /\ PartOrder("debian", v, w)
              = Then(Order(At(v, 1).value, At(w, 1).value),
                     PartOrder("debian", From(v, 2), From(w, 2)))
         /\ Policy(v, w)
              = Then(Order(At(v, 1).value, At(w, 1).value), Policy(From(v, 2), From(w, 2)))
         /\ Len(From(v, 2)) < Len(v)
         /\ Comparable(From(v, 2), From(w, 2))
<1>1. /\ Rest("debian", v) = From(v, 2) /\ Text(v) = <<>>
      /\ Beyond(v) = From(v, 2) /\ Figure(v) = At(v, 1).value
      /\ Rest("debian", w) = From(w, 2) /\ Text(w) = <<>>
      /\ Beyond(w) = From(w, 2) /\ Figure(w) = At(w, 1).value
  BY NumberFirst
<1>2. At(v, 1) # End /\ At(w, 1) # End
  BY TokenFacts
<1>3. RoundOrder("debian", v, w) = Order(At(v, 1).value, At(w, 1).value)
  BY <1>2 DEF RoundOrder
<1>4. Lexical(<<>>, <<>>) = 0
  <2>1. <<>> \in Seq(Token)
    OBVIOUS
  <2>2. StringOrder(<<>>, <<>>) \in Orders /\ StringOrder(<<>>, <<>>) = -StringOrder(<<>>, <<>>)
    BY <2>1, StringOrderFacts
  <2>3. StringOrder(<<>>, <<>>) = 0
    BY <2>2 DEF Orders
  <2> QED BY <2>1, <2>3, LexicalIsStringOrder
<1>5. PolicyRound(v, w) = Order(At(v, 1).value, At(w, 1).value)
  BY <1>1, <1>4 DEF PolicyRound, Then
<1>6. Len(From(v, 2)) < Len(v)
  <2>0. v # <<>>
    BY <1>2, AtFacts
  <2>1. Len(v) \in Nat /\ Len(v) # 0
    BY <2>0, AtFacts
  <2>2. Len(From(v, 2)) = IF 2 =< Len(v) THEN Len(v) - 2 + 1 ELSE 0
    <3>1. 2 \in Nat \ {0}
      OBVIOUS
    <3> QED BY <3>1, FromFacts
  <2> QED BY <2>1, <2>2
<1>7. Comparable(From(v, 2), From(w, 2))
  <2>1. At(From(v, 2), 1) = At(v, 2) /\ At(From(w, 2), 1) = At(w, 2)
    <3>1. 2 \in Nat \ {0} /\ 1 \in Nat \ {0} /\ 2 + 1 - 1 = 2
      OBVIOUS
    <3> QED BY <3>1, FromFacts
  <2>2. 1 \in Nat \ {0} /\ 1 + 1 = 2
    OBVIOUS
  <2>3. ~IsNumber(At(v, 2)) /\ ~IsNumber(At(w, 2))
    BY <2>2 DEF Regular
  <2> QED BY <2>1, <2>3 DEF Comparable
<1> QED BY <1>1, <1>3, <1>5, <1>6, <1>7, PartUnfolded, PolicyUnfolded

LEMMA FromFrom ==
  ASSUME NEW v \in Seq(Token), NEW m \in Nat \ {0}
  PROVE  From(From(v, m), 2) = From(v, m + 1)
<1>1. /\ From(v, m) \in Seq(Token) /\ From(v, m + 1) \in Seq(Token)
      /\ From(From(v, m), 2) \in Seq(Token)
  BY FromFacts
<1>2. ASSUME NEW i \in Nat \ {0} PROVE At(From(From(v, m), 2), i) = At(From(v, m + 1), i)
  <2>1. 2 \in Nat \ {0} /\ 2 + i - 1 \in Nat \ {0} /\ m + 1 \in Nat \ {0}
    OBVIOUS
  <2>2. At(From(From(v, m), 2), i) = At(From(v, m), 2 + i - 1)
    BY <1>1, <2>1, FromFacts
  <2>3. At(From(v, m), 2 + i - 1) = At(v, m + (2 + i - 1) - 1)
    BY <2>1, FromFacts
  <2>4. At(From(v, m + 1), i) = At(v, (m + 1) + i - 1)
    BY <2>1, FromFacts
  <2>5. m + (2 + i - 1) - 1 = (m + 1) + i - 1
    OBVIOUS
  <2> QED BY <2>2, <2>3, <2>4, <2>5
<1> QED BY <1>1, <1>2, SameParts

LEMMA TextsRound ==
  ASSUME NEW v \in Seq(Token), NEW w \in Seq(Token), Regular(v), Regular(w),
         TextHead(v) # End, TextHead(w) # End
  PROVE  \E x, y \in Seq(Token), head \in Orders :
           /\ Regular(x) /\ Regular(y) /\ Comparable(x, y) /\ Len(x) < Len(v)
           /\ PartOrder("debian", v, w) = Then(head, PartOrder("debian", x, y))
           /\ Policy(v, w) = Then(head, Policy(x, y))
<1> DEFINE m == Len(Text(v)) + 1
           n == Len(Text(w)) + 1
           a == From(v, m)
           b == From(w, n)
           text == Lexical(Text(v), Text(w))
           figure == Order(At(v, m).value, At(w, n).value)
<1>1. /\ At(v, 1) # End /\ ~IsNumber(At(v, 1))
      /\ At(w, 1) # End /\ ~IsNumber(At(w, 1))
  BY DEF TextHead
<1>2. /\ Segment("debian", v) = Text(v) /\ Rest("debian", v) = a /\ IsNumber(At(v, m))
      /\ Segment("debian", w) = Text(w) /\ Rest("debian", w) = b /\ IsNumber(At(w, n))
  BY <1>1, TextFirst
<1>3. /\ Text(v) \in Seq(Token) /\ Len(v) \in Nat /\ m \in Nat \ {0}
      /\ Text(w) \in Seq(Token) /\ Len(w) \in Nat /\ n \in Nat \ {0}
  BY TextFacts, AtFacts
<1>4. RoundOrder("debian", v, w) = text
  <2>1. RoundOrder("debian", v, w) = StringOrder(Text(v), Text(w))
    BY <1>1, <1>2 DEF RoundOrder
  <2> QED BY <1>3, <2>1, LexicalIsStringOrder
<1>5. text \in Orders
  BY <1>3, StringOrderFacts, LexicalIsStringOrder
<1>6. /\ Beyond(v) = From(v, m + 1) /\ Figure(v) = At(v, m).value
      /\ Beyond(w) = From(w, n + 1) /\ Figure(w) = At(w, n).value
  <2>1. Len(Text(v)) \in Nat /\ Len(Text(w)) \in Nat
    BY <1>3, AtFacts
  <2>2. m + 1 = Len(Text(v)) + 2 /\ n + 1 = Len(Text(w)) + 2
    BY <2>1
  <2> QED BY <2>2 DEF Beyond, Figure
<1>7. /\ At(v, m) \in Chars /\ At(v, m) # End
      /\ At(w, n) \in Chars /\ At(w, n) # End
  <2>1. m \in Int /\ n \in Int
    BY <1>3
  <2> QED BY <1>2, <2>1, AtFacts, TokenFacts
<1> HIDE DEF m, n
<1>8. figure \in Orders
  <2>1. At(v, m).value \in Int /\ At(w, n).value \in Int
    BY <1>7, TokenFacts
  <2> QED BY <2>1, OrderFacts
<1>9. /\ a \in Seq(Token) /\ Regular(a) /\ At(a, 1) = At(v, m) /\ From(a, 2) = From(v, m + 1)
      /\ b \in Seq(Token) /\ Regular(b) /\ At(b, 1) = At(w, n) /\ From(b, 2) = From(w, n + 1)
  <2>1. a \in Seq(Token) /\ Regular(a) /\ b \in Seq(Token) /\ Regular(b)
    BY <1>3, FromRegular
  <2>2. From(a, 2) = From(v, m + 1) /\ From(b, 2) = From(w, n + 1)
    BY <1>3, FromFrom
  <2>3. 1 \in Nat \ {0} /\ m + 1 - 1 = m /\ n + 1 - 1 = n
    BY <1>3
  <2>4. At(a, 1) = At(v, m + 1 - 1) /\ At(b, 1) = At(w, n + 1 - 1)
    BY <1>3, <2>3, FromFacts
  <2> QED BY <2>1, <2>2, <2>3, <2>4
<1> HIDE DEF a, b
<1>10. /\ PartOrder("debian", a, b) = Then(figure, PartOrder("debian", From(a, 2), From(b, 2)))
       /\ Len(From(a, 2)) < Len(a)
       /\ Comparable(From(a, 2), From(b, 2))
  <2>1. /\ PartOrder("debian", a, b)
              = Then(Order(At(a, 1).value, At(b, 1).value),
                     PartOrder("debian", From(a, 2), From(b, 2)))
        /\ Len(From(a, 2)) < Len(a)
        /\ Comparable(From(a, 2), From(b, 2))
    <3>1. IsNumber(At(a, 1)) /\ IsNumber(At(b, 1))
      BY <1>2, <1>9
    <3> QED BY <1>9, <3>1, NumbersRound
  <2> QED BY <1>9, <2>1
<1>11. /\ From(a, 2) \in Seq(Token) /\ Regular(From(a, 2))
       /\ From(b, 2) \in Seq(Token) /\ Regular(From(b, 2))
  <2>1. 2 \in Nat \ {0}
    OBVIOUS
  <2> QED BY <1>9, <2>1, FromRegular
<1>12. Len(From(a, 2)) < Len(v)
  <2>1. Len(a) =< Len(v)
    <3>1. Len(a) = IF m =< Len(v) THEN Len(v) - m + 1 ELSE 0
      BY <1>3, FromFacts DEF a
    <3> QED BY <1>3, <3>1
  <2>2. Len(a) \in Nat /\ Len(From(a, 2)) \in Nat
    BY <1>9, <1>11, AtFacts
  <2> QED BY <1>3, <1>10, <2>1, <2>2
<1> DEFINE x == From(a, 2)
           y == From(b, 2)
<1>13. PartOrder("debian", v, w) = Then(text, Then(figure, PartOrder("debian", x, y)))
  BY <1>2, <1>4, <1>10, PartUnfolded
<1>14. Policy(v, w) = Then(Then(text, figure), Policy(x, y))
  <2>1. PolicyRound(v, w) = Then(text, figure)
    BY <1>6 DEF PolicyRound
  <2>2. Beyond(v) = x /\ Beyond(w) = y
    BY <1>6, <1>9
  <2> QED BY <2>1, <2>2, PolicyUnfolded
<1> HIDE DEF text, figure, x, y
<1>15. Then(text, Then(figure, PartOrder("debian", x, y))) = Then(Then(text, figure), PartOrder("debian", x, y))
  BY DEF Then
<1>16. Then(text, figure) \in Orders
  BY <1>5, <1>8, ThenFacts
<1>17. /\ x \in Seq(Token) /\ Regular(x) /\ y \in Seq(Token) /\ Regular(y)
       /\ Comparable(x, y) /\ Len(x) < Len(v)
  BY <1>10, <1>11, <1>12 DEF x, y
<1> QED BY <1>13, <1>14, <1>15, <1>16, <1>17

(* Parts that end in a number are in the order of the policy.               *)
LEMMA OrderIsPolicy ==
  ASSUME NEW v \in Seq(Token), NEW w \in Seq(Token),
         Regular(v), Regular(w), Comparable(v, w)
  PROVE  PartOrder("debian", v, w) = Policy(v, w)
<1> DEFINE Same(n) == \A x, y \in Seq(Token) :
                        Len(x) =< n /\ Regular(x) /\ Regular(y) /\ Comparable(x, y) =>
                          PartOrder("debian", x, y) = Policy(x, y)
           S == {n \in Nat : Same(n)}
<1>1. ASSUME NEW x \in Seq(Token), NEW y \in Seq(Token),
             Regular(x), Regular(y), Comparable(x, y),
             \A t, u \in Seq(Token) :
               Len(t) < Len(x) /\ Regular(t) /\ Regular(u) /\ Comparable(t, u) =>
                 PartOrder("debian", t, u) = Policy(t, u)
      PROVE  PartOrder("debian", x, y) = Policy(x, y)
  <2> HIDE DEF Same, S
  <2>1. CASE (TextHead(x) = End) # (TextHead(y) = End)
    BY <1>1, <2>1, HeadsDecide
  <2>2. CASE TextHead(x) # End /\ TextHead(y) # End
    <3>1. PICK t, u \in Seq(Token), head \in Orders :
            /\ Regular(t) /\ Regular(u) /\ Comparable(t, u) /\ Len(t) < Len(x)
            /\ PartOrder("debian", x, y) = Then(head, PartOrder("debian", t, u))
            /\ Policy(x, y) = Then(head, Policy(t, u))
      BY <1>1, <2>2, TextsRound
    <3>2. PartOrder("debian", t, u) = Policy(t, u)
      BY <1>1, <3>1
    <3> QED BY <3>1, <3>2
  <2>3. CASE TextHead(x) = End /\ TextHead(y) = End
    <3>1. CASE x = <<>> /\ y = <<>>
      BY <3>1, NothingEqual
    <3>2. CASE IsNumber(At(x, 1)) /\ IsNumber(At(y, 1))
      <4>1. /\ PartOrder("debian", x, y)
                 = Then(Order(At(x, 1).value, At(y, 1).value),
                        PartOrder("debian", From(x, 2), From(y, 2)))
            /\ Policy(x, y)
                 = Then(Order(At(x, 1).value, At(y, 1).value), Policy(From(x, 2), From(y, 2)))
            /\ Len(From(x, 2)) < Len(x)
            /\ Comparable(From(x, 2), From(y, 2))
        BY <1>1, <3>2, NumbersRound
      <4>2. /\ From(x, 2) \in Seq(Token) /\ Regular(From(x, 2))
            /\ From(y, 2) \in Seq(Token) /\ Regular(From(y, 2))
        <5>1. 2 \in Nat \ {0}
          OBVIOUS
        <5> QED BY <1>1, <5>1, FromRegular
      <4>3. PartOrder("debian", From(x, 2), From(y, 2)) = Policy(From(x, 2), From(y, 2))
        BY <1>1, <4>1, <4>2
      <4> QED BY <4>1, <4>3
    <3>3. /\ IsNumber(At(x, 1)) \/ x = <<>>
          /\ IsNumber(At(y, 1)) \/ y = <<>>
      BY <2>3, AtFacts DEF TextHead
    <3>4. /\ x = <<>> => ~IsNumber(At(y, 1))
          /\ y = <<>> => ~IsNumber(At(x, 1))
      BY <1>1 DEF Comparable
    <3> QED BY <3>1, <3>2, <3>3, <3>4
  <2> QED BY <2>1, <2>2, <2>3
<1>2. \A x \in Seq(Token) : Len(x) \in Nat
  BY AtFacts
<1>3. 0 \in S
  <2> SUFFICES ASSUME NEW x \in Seq(Token), NEW y \in Seq(Token),
                      Len(x) =< 0, Regular(x), Regular(y), Comparable(x, y)
               PROVE  PartOrder("debian", x, y) = Policy(x, y)
    OBVIOUS
  <2>1. \A t \in Seq(Token) : ~(Len(t) < Len(x))
    BY <1>2
  <2> QED BY <1>1, <2>1
<1>4. ASSUME NEW n \in S PROVE n + 1 \in S
  <2> SUFFICES ASSUME NEW x \in Seq(Token), NEW y \in Seq(Token),
                      Len(x) =< n + 1, Regular(x), Regular(y), Comparable(x, y)
               PROVE  PartOrder("debian", x, y) = Policy(x, y)
    OBVIOUS
  <2>1. \A t \in Seq(Token) : Len(t) < Len(x) => Len(t) =< n
    BY <1>2
  <2> QED BY <1>1, <2>1
<1> HIDE DEF Same
<1>5. S = Nat
  BY <1>3, <1>4, SetInduction
<1>6. Same(Len(v)) /\ Len(v) =< Len(v)
  BY <1>2, <1>5
<1> QED BY <1>6 DEF Same

LEMMA EndsRegular ==
  ASSUME NEW v \in Seq(Token), Apart(v), v # <<>>, IsNumber(v[Len(v)])
  PROVE  Regular(v)
<1>1. Len(v) \in Nat \ {0}
  BY AtFacts
<1> SUFFICES ASSUME NEW i \in Nat \ {0}
             PROVE  /\ IsNumber(At(v, i)) => ~IsNumber(At(v, i + 1))
                    /\ At(v, i) # End /\ At(v, i + 1) = End => IsNumber(At(v, i))
  BY DEF Regular
<1>2. i \in Int /\ i + 1 \in Int
  OBVIOUS
<1>3. CASE i + 1 \in 1..Len(v)
  <2>1. i \in 1..Len(v) /\ i + 1 \in 2..Len(v) /\ (i + 1) - 1 = i
    BY <1>1, <1>3
  <2>2. At(v, i) = v[i] /\ At(v, i + 1) = v[i + 1] /\ At(v, i + 1) # End
    BY <1>2, <1>3, <2>1, AtFacts
  <2>3. ~(IsNumber(v[i]) /\ IsNumber(v[i + 1]))
    BY <2>1 DEF Apart
  <2> QED BY <2>2, <2>3
<1>4. CASE i + 1 \notin 1..Len(v)
  <2>1. At(v, i + 1) = End /\ ~IsNumber(At(v, i + 1))
    BY <1>2, <1>4, AtFacts, TokenFacts
  <2>2. ASSUME At(v, i) # End PROVE IsNumber(At(v, i))
    <3>1. i \in 1..Len(v)
      BY <1>2, <2>2, AtFacts
    <3>2. i = Len(v)
      BY <1>1, <1>4, <3>1
    <3>3. At(v, i) = v[i]
      BY <1>2, <3>1, AtFacts
    <3> QED BY <3>2, <3>3
  <2> QED BY <2>1, <2>2
<1> QED BY <1>3, <1>4

-----------------------------------------------------------------------------
(* For any versions to be compared, of any length and with any words for    *)
(* markers: the comparison sort_candidates makes (resolve/candidate.rs:270) *)
(* is the same from either side; it puts the versions without pre-release   *)
(* markers in one order, so that the candidate that comes first does not    *)
(* depend on the order of the comparisons; and between upstream versions    *)
(* that end in a number it is the order of the Debian policy                *)
(* (version_compare.rs:4).                                                  *)
THEOREM OrderOfVersions == VersionSpec => []VersionsOrdered
<1> DEFINE Compared == format \in Formats /\ best \in Samples
<1>1. VersionInit => Compared
  BY DEF VersionInit
<1>2. Compared /\ [\E v \in Samples : Consider(v)]_versionVars => Compared'
  BY DEF Consider, versionVars
<1>3. Compared => VersionsOrdered
  <2> SUFFICES ASSUME Compared PROVE VersionsOrdered
    OBVIOUS
  <2>1. \A a \in Samples : Compare(format, best, a) = -Compare(format, a, best)
    BY CompareFacts
  <2>2. ASSUME NEW p \in {q \in Places : q.in = format /\ q.of = best}, NEW q \in Places, q.in = format
        PROVE  /\ Compare(format, best, q.of) = Order(p.after, q.after)
               /\ format = "deb" /\ EndsInNumber(best) /\ EndsInNumber(q.of) =>
                    UpstreamOrder("deb", best.upstream, q.of.upstream)
                      = Policy(best.upstream, q.of.upstream)
    <3>0. ASSUME NEW place \in Places
          PROVE  /\ place.of \in Plain
                 /\ place.after = Cardinality({b \in Plain : Compare(place.in, b, place.of) = -1})
      <4> DEFINE older(a, fmt) == Cardinality({b \in Plain : Compare(fmt, b, a) = -1})
      <4>1. Places = {[of |-> a, in |-> fmt, after |-> older(a, fmt)] : a \in Plain, fmt \in Formats}
        BY DEF Places, older
      <4> HIDE DEF older
      <4>2. PICK a \in Plain, fmt \in Formats : place = [of |-> a, in |-> fmt, after |-> older(a, fmt)]
        BY <4>1
      <4>3. place.of = a /\ place.in = fmt /\ place.after = older(a, fmt)
        BY <4>2
      <4>4. place.of \in Plain /\ place.after = older(place.of, place.in)
        BY <4>3
      <4> QED BY <4>4 DEF older
    <3>1. /\ best \in Plain
          /\ p.after = Cardinality({b \in Plain : Compare(format, b, best) = -1})
      <4>1. p \in Places /\ p.in = format /\ p.of = best
        OBVIOUS
      <4> QED BY <3>0, <4>1
    <3>2. /\ q.of \in Plain
          /\ q.after = Cardinality({b \in Plain : Compare(format, b, q.of) = -1})
      BY <2>2, <3>0
    <3>3. Compare(format, best, q.of) = Order(p.after, q.after)
      BY <3>1, <3>2, OlderTellPlace
    <3> DEFINE v == best.upstream
               w == q.of.upstream
    <3>4. ASSUME EndsInNumber(best), EndsInNumber(q.of)
          PROVE  UpstreamOrder("deb", v, w) = Policy(v, w)
      <4>1. /\ v \in Seq(Token) /\ Apart(v) /\ MarkerFree(v)
            /\ w \in Seq(Token) /\ Apart(w) /\ MarkerFree(w)
        BY <3>1, <3>2, VersionOrderAssumption DEF Plain
      <4>2. /\ v # <<>> /\ IsNumber(v[Len(v)])
            /\ w # <<>> /\ IsNumber(w[Len(w)])
        BY <3>4 DEF EndsInNumber
      <4> HIDE DEF v, w
      <4>3. Regular(v) /\ Regular(w)
        BY <4>1, <4>2, EndsRegular
      <4>4. Comparable(v, w)
        BY <4>2 DEF Comparable
      <4>5. UpstreamOrder("deb", v, w) = PartOrder("debian", v, w)
        <5>1. Style("deb") = "debian"
          BY DEF Style
        <5> QED BY <4>1, <5>1, UpstreamOrderFacts
      <4> QED BY <4>1, <4>3, <4>4, <4>5, OrderIsPolicy
    <3> QED BY <3>3, <3>4
  <2> QED BY <2>1, <2>2 DEF VersionsOrdered
<1> QED BY <1>1, <1>2, <1>3, PTL DEF VersionSpec
=============================================================================
