----------------------- MODULE TransitionHistoryProofs -----------------------
(***************************************************************************)
(* Machine-checked proofs about TransitionHistory: how old an expired      *)
(* revision is, and how long an exemption from a window lasts.             *)
(***************************************************************************)
EXTENDS TransitionHistory, TransitionProofs

-----------------------------------------------------------------------------
(***************************************************************************)
(* The inductive invariant.                                                *)
(***************************************************************************)

(* The history records instants in the past, and the running template. *)
BornOK ==
    /\ born \in [Keys -> [Templates -> Times \cup {None}]]
    /\ \A k \in Keys :
         /\ born[k][object[k].containers] # None
         /\ \A c \in Templates : born[k][c] # None => born[k][c] <= clock

(* The entry's identity is that of a template which ran, under the object, *)
(* no later than the entry says.                                           *)
DatedBy(birth, st, tracked) == \E d \in Templates :
    /\ Trackable(d, tracked)
    /\ st.tracking = TrackingSpecHash(d, tracked)
    /\ st.revision = RevisionHash(d, tracked)
    /\ birth[d] # None
    /\ birth[d] <= st.firstSeen

(* The reconcile in flight is for the object under its key, be it alive or *)
(* being deleted.                                                          *)
SameObject == pc # "idle" /\ rec.cur.uid = object[rec.key].uid

Dated ==
    /\ \A k \in Keys : store[k].uid = object[k].uid =>
         \E p \in Policies : DatedBy(born[k], store[k], p.tracked)
    /\ SameObject => born[rec.key][rec.cur.containers] # None
    /\ Loaded /\ SameObject => DatedBy(born[rec.key], rec.doc[rec.key], rec.pol.tracked)
    /\ Loaded => rec.doc[rec.key].revision = RevisionHash(rec.cur.containers, rec.pol.tracked)

(* The instance an entry names was open, under some policy, before t. *)
OpenedAt(st, t) ==
    st.windowId # None =>
      \E p \in Policies, s \in Times : s <= t /\ p.window[s] = st.windowId

Opened ==
    /\ \A k \in Keys : OpenedAt(store[k], clock)
    /\ Loaded => rec.now <= clock /\ OpenedAt(rec.doc[rec.key], rec.now)

(* The instance is not open, under any policy, from t on. *)
Over(id, t) == \A p \in Policies, u \in Times : t <= u => p.window[u] # id

Skips(st, id) == st.skip # None /\ st.windowId = id

(* A live object that was exempted has the skip in its entry, until the    *)
(* instance is over.                                                       *)
EntrySkips == \A k \in Keys : object[k].phase = "live" /\ exempt[k] # None =>
    \/ store[k].uid = object[k].uid /\ Skips(store[k], exempt[k])
    \/ Over(exempt[k], clock)

(* ... and so has the document of the reconcile in flight for it. *)
DocumentSkips == Loaded /\ OnTarget /\ exempt[rec.key] # None =>
    \/ Skips(rec.doc[rec.key], exempt[rec.key])
    \/ Over(exempt[rec.key], rec.now)

(* The skip in an object's entry is the exemption it has. *)
SkipsCount == \A k \in Keys :
    store[k].uid = object[k].uid /\ store[k].skip # None => exempt[k] = store[k].windowId

(* What a reconcile writes for an earlier object exempts nothing. *)
StaleExemptsNothing == pc # "idle" /\ ~SameObject =>
    exempt[rec.key] = None /\ store[rec.key].uid # object[rec.key].uid

Exempted == EntrySkips /\ DocumentSkips /\ SkipsCount /\ StaleExemptsNothing

AgeInductive == OwnedInv /\ BornOK /\ Dated
SkipInductive == OwnedInv /\ Opened /\ Exempted

-----------------------------------------------------------------------------
(***************************************************************************)
(* The age of a revision.                                                  *)
(***************************************************************************)

(* What was born under an object keeps its date. *)
BornKept == \A k \in Keys : object'[k].uid = object[k].uid =>
    \A c \in Templates : born[k][c] # None => born'[k][c] = born[k][c]

(* A tracking hash determines the tracking definition. *)
LEMMA TrackingDetermined ==
    ASSUME NEW c, NEW d, NEW a, NEW b,
           TrackingSpecHash(c, a) = TrackingSpecHash(d, b)
    PROVE  a = b
<1>1. /\ (a = AllContainers) = (b = AllContainers)
      /\ TrackedNames(c, a) = TrackedNames(d, b)
  BY DEF TrackingSpecHash
<1> QED BY <1>1 DEF TrackedNames

(* The history goes on. *)
LEMMA BornStep ==
    ASSUME TypeOK, TypeOK', BornOK, [HNext]_hvars, clock <= clock'
    PROVE  BornOK' /\ BornKept
<1>1. /\ clock \in Times /\ clock' \in Times /\ Times \subseteq Int /\ None \notin Times
      /\ \A k \in Keys : object[k].containers \in Templates /\ object'[k].containers \in Templates
  BY BoundsAssumption, NoneIsNoNumber DEF TypeOK, Times
<1>2. CASE UNCHANGED hvars
  BY <1>2 DEF hvars, history, vars, BornOK, BornKept
<1>3. CASE HNext
  <2> DEFINE F(k) == IF Replaced(k) THEN FirstRun(object'[k].containers, clock)
                     ELSE [born[k] EXCEPT ![object'[k].containers] =
                             IF @ = None THEN clock ELSE @]
  <2>1. born' = [k \in Keys |-> F(k)]
    BY <1>3 DEF HNext, Observed
  <2>2. ASSUME NEW k \in Keys
        PROVE  /\ F(k) \in [Templates -> Times \cup {None}]
               /\ F(k)[object'[k].containers] # None
               /\ \A c \in Templates : F(k)[c] # None => F(k)[c] <= clock
               /\ ~Replaced(k) => \A c \in Templates : born[k][c] # None => F(k)[c] = born[k][c]
    <3>1. born[k] \in [Templates -> Times \cup {None}]
      BY DEF BornOK
    <3>2. CASE Replaced(k)
      BY <1>1, <3>2 DEF FirstRun
    <3>3. CASE ~Replaced(k)
      BY <1>1, <3>1, <3>3 DEF BornOK
    <3> QED BY <3>2, <3>3
  <2> HIDE DEF F
  <2>3. \A k \in Keys, c \in Templates : F(k)[c] # None => F(k)[c] <= clock'
    <3> SUFFICES ASSUME NEW k \in Keys, NEW c \in Templates, F(k)[c] # None
                 PROVE  F(k)[c] <= clock'
      OBVIOUS
    <3> DEFINE x == F(k)[c]
    <3>1. x \in Int /\ clock \in Int /\ clock' \in Int /\ x <= clock
      BY <1>1, <2>2
    <3> HIDE DEF x
    <3>2. x <= clock'
      BY <3>1
    <3> QED BY <3>2 DEF x
  <2> QED BY <2>1, <2>2, <2>3 DEF BornOK, BornKept, Replaced
<1> QED BY <1>2, <1>3

(* A dated entry stays dated, whatever its window state becomes. *)
LEMMA DatedStays ==
    ASSUME NEW birth, NEW later,
           \A c \in Templates : birth[c] # None => later[c] = birth[c],
           NEW old, NEW new, NEW tracked, DatedBy(birth, old, tracked),
           new.tracking = old.tracking, new.revision = old.revision,
           new.firstSeen = old.firstSeen
    PROVE  DatedBy(later, new, tracked)
  BY DEF DatedBy

(* The entry a reconcile computes is dated under its own policy: the date  *)
(* is that of the previous entry, with the same images, or it is now.      *)
LEMMA IdentityDated ==
    ASSUME NEW birth \in [Templates -> Times \cup {None}], NEW now \in Times,
           \A c \in Templates : birth[c] # None => birth[c] <= now,
           NEW previous, NEW cur \in [uid : UIDs, containers : Templates], NEW p \in Policies,
           birth[cur.containers] # None, Trackable(cur.containers, p.tracked),
           SameUID(previous, cur) => \E q \in Policies : DatedBy(birth, previous, q.tracked)
    PROVE  DatedBy(birth, reconcileIdentity(previous, cur, p, now), p.tracked)
<1> DEFINE st == reconcileIdentity(previous, cur, p, now)
<1>1. /\ st.tracking = TrackingSpecHash(cur.containers, p.tracked)
      /\ st.revision = RevisionHash(cur.containers, p.tracked)
      /\ st.firstSeen = IF SameIdentity(previous, cur, p) THEN previous.firstSeen ELSE now
  BY DEF reconcileIdentity
<1> HIDE DEF st
<1>2. CASE SameIdentity(previous, cur, p)
  <2>1. PICK q \in Policies : DatedBy(birth, previous, q.tracked)
    BY <1>2 DEF SameIdentity
  <2>2. PICK d \in Templates : /\ Trackable(d, q.tracked)
                               /\ previous.tracking = TrackingSpecHash(d, q.tracked)
                               /\ previous.revision = RevisionHash(d, q.tracked)
                               /\ birth[d] # None /\ birth[d] <= previous.firstSeen
    BY <2>1 DEF DatedBy
  <2>3. /\ previous.tracking = TrackingSpecHash(cur.containers, p.tracked)
        /\ previous.revision = RevisionHash(cur.containers, p.tracked)
    BY <1>2 DEF SameIdentity
  <2>4. q.tracked = p.tracked
    <3>1. TrackingSpecHash(d, q.tracked) = TrackingSpecHash(cur.containers, p.tracked)
      BY <2>2, <2>3
    <3> QED BY ONLY <3>1, TrackingDetermined, Zenon
  <2>5. st.tracking = previous.tracking /\ st.revision = previous.revision
        /\ st.firstSeen = previous.firstSeen
    BY <1>1, <1>2, <2>3
  <2> QED BY <2>2, <2>4, <2>5 DEF DatedBy, st
<1>3. CASE ~SameIdentity(previous, cur, p)
  <2>1. cur.containers \in Templates
    OBVIOUS
  <2> QED BY <1>1, <1>3, <2>1 DEF DatedBy, st
<1> QED BY <1>2, <1>3

(* Saves, and the drop of an entry. *)
LEMMA DatedSave ==
    ASSUME TypeInv, Owned, Owned', Shaped, Dated, BornOK, BornKept, SaveShape \/ ForgetShape
    PROVE  Dated'
<1>1. /\ Loaded /\ rec.key \in Keys /\ rec.pol \in Policies /\ object' = object
      /\ rec.doc \in [Keys -> WorkloadStates]
  BY LocalTypes DEF SaveShape, ForgetShape, Loaded
<1>2. \A k \in Keys, c \in Templates : born[k][c] # None => born'[k][c] = born[k][c]
  BY <1>1 DEF BornKept
<1>3. \A k \in Keys : object[k].uid # NoUID
  BY UIDTypes
<1>4. rec.doc[rec.key].uid = rec.cur.uid
  BY <1>1 DEF Owned, Attributed
<1>5. ASSUME NEW k \in Keys, store'[k].uid = object[k].uid
      PROVE  \E p \in Policies : DatedBy(born'[k], store'[k], p.tracked)
  <2>1. EntryStep(k)
    BY StoreStep DEF Owned
  <2>2. CASE store'[k] = store[k]
    BY <1>2, <1>5, <2>2, DatedStays DEF Dated
  <2>3. CASE k = rec.key /\ SameEntry(rec.doc[k], store'[k])
    <3>1. SameObject
      BY <1>1, <1>4, <1>5, <2>3 DEF SameEntry, SameObject, Loaded
    <3>2. DatedBy(born[k], rec.doc[k], rec.pol.tracked)
      BY <1>1, <2>3, <3>1 DEF Dated
    <3>3. DatedBy(born'[k], store'[k], rec.pol.tracked)
      BY <1>2, <2>3, <3>2, DatedStays DEF SameEntry
    <3> QED BY <1>1, <3>3
  <2>4. CASE store'[k] = NoState
    BY <1>3, <1>5, <2>4 DEF NoState
  <2> QED BY <2>1, <2>2, <2>3, <2>4 DEF EntryStep
<1>6. CASE pc' = "idle"
  BY <1>1, <1>5, <1>6 DEF Dated, SameObject, Loaded
<1>7. CASE pc' # "idle"
  <2>1. SaveShape /\ TaskKept /\ rec'.doc = store'
    BY <1>7 DEF SaveShape, ForgetShape
  <2>2. rec'.key = rec.key /\ rec'.cur = rec.cur /\ rec'.pol = rec.pol
    BY <2>1 DEF TaskKept
  <2>3. SameObject' => SameObject
    BY <1>1, <2>2 DEF SameObject, Loaded
  <2>4. SameObject => DatedBy(born[rec.key], rec.doc[rec.key], rec.pol.tracked)
    BY <1>1 DEF Dated
  <2>5. SameEntry(rec.doc[rec.key], store'[rec.key])
    BY <1>1, <2>1 DEF SaveShape
  <2>6. SameObject => DatedBy(born'[rec.key], store'[rec.key], rec.pol.tracked)
    <3>1. \A c \in Templates : born[rec.key][c] # None => born'[rec.key][c] = born[rec.key][c]
      BY <1>1, <1>2
    <3> QED BY <2>4, <2>5, <3>1, DatedStays DEF SameEntry
  <2>7. SameObject => born'[rec.key][rec.cur.containers] # None
    <3>1. rec.cur.containers \in Templates
      BY <1>1, LocalTypes DEF Loaded
    <3> QED BY <1>1, <1>2, <3>1 DEF Dated
  <2>8. store'[rec.key].revision = RevisionHash(rec.cur.containers, rec.pol.tracked)
    BY <1>1, <2>5 DEF Dated, SameEntry
  <2> QED BY <1>1, <1>5, <2>1, <2>2, <2>3, <2>6, <2>7, <2>8 DEF Dated
<1> QED BY <1>6, <1>7

(* The start of a reconcile and its load of the document. *)
LEMMA DatedLoad ==
    ASSUME TypeInv, Owned, Dated, BornOK, BornOK', BornKept,
           (\E k \in Keys : Start(k)) \/ (\E p \in Policies : Begin(p))
    PROVE  Dated'
<1>1. UNCHANGED <<object, store, clock>>
  BY DEF Start, Begin
<1>2. \A k \in Keys, c \in Templates : born[k][c] # None => born'[k][c] = born[k][c]
  BY <1>1 DEF BornKept
<1>3. \A k \in Keys : store'[k].uid = object'[k].uid =>
        \E p \in Policies : DatedBy(born'[k], store'[k], p.tracked)
  BY <1>1, <1>2, DatedStays DEF Dated
<1>4. CASE \E k \in Keys : Start(k)
  <2>1. PICK k \in Keys : Start(k)
    BY <1>4
  <2>2. pc' = "begin" /\ rec'.key = k /\ rec'.cur.containers = object[k].containers
    BY <2>1 DEF Start
  <2>3. born'[k][object[k].containers] # None
    BY <1>1 DEF BornOK
  <2> QED BY <1>3, <2>2, <2>3 DEF Dated, Loaded
<1>5. CASE \E p \in Policies : Begin(p)
  <2>1. PICK p \in Policies : Begin(p)
    BY <1>5
  <2> DEFINE k == rec.key
             st == reconcileIdentity(store[k], rec.cur, p, clock)
  <2>2. /\ pc = "begin" /\ rec \in Reconciles /\ k \in Keys
        /\ rec.cur \in [uid : UIDs, containers : Templates] /\ clock \in Times
        /\ store \in [Keys -> WorkloadStates]
    BY <2>1, LocalTypes DEF Begin, TypeInv, TypeOK
  <2>3. /\ rec'.key = k /\ rec'.cur = rec.cur /\ rec'.pol = p
        /\ rec'.doc = [store EXCEPT ![k] = st] /\ Trackable(rec.cur.containers, p.tracked)
    BY <2>1, <2>2 DEF Begin, Reconciles
  <2>4. rec'.doc[k] = st
    BY <2>2, <2>3
  <2>5. SameObject' => SameObject
    BY <1>1, <2>2, <2>3 DEF SameObject
  <2>6. SameObject => born'[k][rec.cur.containers] # None
    BY <1>2, <2>2 DEF Dated
  <2>7. ASSUME SameObject PROVE DatedBy(born'[k], st, p.tracked)
    <3>1. /\ born'[k] \in [Templates -> Times \cup {None}]
          /\ \A c \in Templates : born'[k][c] # None => born'[k][c] <= clock
      BY <1>1, <2>2 DEF BornOK
    <3>2. SameUID(store[k], rec.cur) => \E q \in Policies : DatedBy(born'[k], store[k], q.tracked)
      BY <1>1, <1>3, <2>2, <2>7 DEF SameObject, SameUID
    <3> QED BY <2>2, <2>3, <2>6, <2>7, <3>1, <3>2, IdentityDated
  <2>8. st.revision = RevisionHash(rec.cur.containers, p.tracked)
    BY DEF reconcileIdentity
  <2> HIDE DEF st
  <2> QED BY <1>3, <2>3, <2>4, <2>5, <2>6, <2>7, <2>8 DEF Dated
<1> QED BY <1>4, <1>5

(* What bringing the window of an entry up to date leaves alone. *)
LEMMA EnterWindowKeeps ==
    ASSUME NEW st \in WorkloadStates, NEW id
    PROVE  /\ EnterWindow(st, id).tracking = st.tracking
           /\ EnterWindow(st, id).revision = st.revision
           /\ EnterWindow(st, id).firstSeen = st.firstSeen
           /\ EnterWindow(st, id).uid = st.uid
  BY DEF EnterWindow, reconcileWindowCycle, WorkloadStates

(* Calls on the workload, and the read of its scale. *)
LEMMA DatedCall ==
    ASSUME TypeInv, Dated, BornKept, ReadShape \/ CallShape
    PROVE  Dated'
<1>1. /\ pc # "idle" /\ rec.key \in Keys /\ rec.doc \in [Keys -> WorkloadStates]
      /\ rec.doc[rec.key] \in WorkloadStates /\ rec.cur.containers \in Templates
  BY LocalTypes DEF ReadShape, CallShape
<1>2. store' = store /\ \A k \in Keys : object'[k].uid = object[k].uid
  BY DEF ReadShape, CallShape
<1>3. \A k \in Keys, c \in Templates : born[k][c] # None => born'[k][c] = born[k][c]
  BY <1>2 DEF BornKept
<1>4. \A k \in Keys : store'[k].uid = object'[k].uid =>
        \E p \in Policies : DatedBy(born'[k], store'[k], p.tracked)
  BY <1>2, <1>3, DatedStays DEF Dated
<1>5. CASE pc' = "idle"
  BY <1>4, <1>5 DEF Dated, SameObject, Loaded
<1>6. CASE pc' # "idle"
  <2>1. Loaded /\ TaskKept
    BY <1>6 DEF ReadShape, CallShape, Loaded
  <2>2. rec'.key = rec.key /\ rec'.cur = rec.cur /\ rec'.pol = rec.pol
    BY <2>1 DEF TaskKept
  <2>3. /\ rec'.doc[rec.key].tracking = rec.doc[rec.key].tracking
        /\ rec'.doc[rec.key].revision = rec.doc[rec.key].revision
        /\ rec'.doc[rec.key].firstSeen = rec.doc[rec.key].firstSeen
    <3>1. CASE ReadShape
      <4> DEFINE st == EnterWindow(rec.doc[rec.key], rec.pol.window[rec.now])
      <4>1. rec'.doc = [rec.doc EXCEPT ![rec.key] = st]
        BY <1>6, <3>1 DEF ReadShape
      <4>2. /\ st.tracking = rec.doc[rec.key].tracking
            /\ st.revision = rec.doc[rec.key].revision
            /\ st.firstSeen = rec.doc[rec.key].firstSeen
        BY <1>1, EnterWindowKeeps
      <4> HIDE DEF st
      <4> QED BY <1>1, <4>1, <4>2
    <3>2. CASE CallShape
      BY <1>6, <3>2 DEF CallShape
    <3> QED BY <3>1, <3>2
  <2>4. SameObject' => SameObject
    BY <1>1, <1>2, <2>2 DEF SameObject
  <2>5. SameObject => DatedBy(born[rec.key], rec.doc[rec.key], rec.pol.tracked)
    BY <2>1 DEF Dated
  <2>6. SameObject => DatedBy(born'[rec.key], rec'.doc[rec.key], rec.pol.tracked)
    <3>1. \A c \in Templates : born[rec.key][c] # None => born'[rec.key][c] = born[rec.key][c]
      BY <1>1, <1>3
    <3> QED BY <2>3, <2>5, <3>1, DatedStays
  <2>7. SameObject => born'[rec.key][rec.cur.containers] # None
    BY <1>1, <1>3 DEF Dated
  <2>8. rec'.doc[rec.key].revision = RevisionHash(rec.cur.containers, rec.pol.tracked)
    BY <2>1, <2>3 DEF Dated
  <2> QED BY <1>4, <2>2, <2>4, <2>6, <2>7, <2>8 DEF Dated
<1> QED BY <1>5, <1>6

(* The environment: a recreated object is ahead of every entry. *)
LEMMA DatedOutside ==
    ASSUME TypeInv, Owned, Dated, BornKept, OutsideShape
    PROVE  Dated'
<1>1. /\ UNCHANGED <<store, pc, rec>>
      /\ \A k \in Keys : object'[k].uid = object[k].uid \/ object'[k].uid = object[k].uid + 1
  BY DEF OutsideShape
<1>2. /\ \A k \in Keys : object[k].uid \in Int /\ store[k].uid \in Int
      /\ pc # "idle" => rec.key \in Keys /\ rec.cur.uid \in Int /\ rec.cur.containers \in Templates
  BY UIDTypes, LocalTypes
<1>3. \A k \in Keys : store[k].uid = object'[k].uid => object'[k].uid = object[k].uid
  BY <1>1, <1>2 DEF Owned, Attributed
<1>4. SameObject' => SameObject /\ object'[rec.key].uid = object[rec.key].uid
  BY <1>1, <1>2 DEF Owned, Attributed, SameObject
<1>5. ASSUME NEW k \in Keys, store'[k].uid = object'[k].uid
      PROVE  \E p \in Policies : DatedBy(born'[k], store'[k], p.tracked)
  <2>1. object'[k].uid = object[k].uid /\ store'[k] = store[k]
    BY <1>1, <1>3, <1>5
  <2>2. \A c \in Templates : born[k][c] # None => born'[k][c] = born[k][c]
    BY <2>1 DEF BornKept
  <2> QED BY <1>5, <2>1, <2>2, DatedStays DEF Dated
<1>6. ASSUME SameObject'
      PROVE  /\ born'[rec.key][rec.cur.containers] # None
             /\ Loaded => DatedBy(born'[rec.key], rec.doc[rec.key], rec.pol.tracked)
  <2>1. SameObject /\ rec.key \in Keys /\ rec.cur.containers \in Templates
    BY <1>2, <1>4, <1>6 DEF SameObject
  <2>2. \A c \in Templates : born[rec.key][c] # None => born'[rec.key][c] = born[rec.key][c]
    BY <1>4, <1>6, <2>1 DEF BornKept
  <2> QED BY <2>1, <2>2, DatedStays DEF Dated
<1> QED BY <1>1, <1>5, <1>6 DEF Dated, Loaded

LEMMA AgeInit == HInit => AgeInductive
<1> SUFFICES ASSUME HInit PROVE AgeInductive
  OBVIOUS
<1>1. OwnedInv
  BY OwnedInit DEF HInit
<1>2. /\ \A k \in Keys : object[k].containers \in Templates /\ object[k].uid # store[k].uid
      /\ clock = 0 /\ 0 \in Times /\ 0 # None
  BY BoundsAssumption, NoneIsNoNumber DEF HInit, Init, NoState, NoUID, Times
<1>3. BornOK
  <2>1. \A c \in Templates : /\ FirstRun(c, 0) \in [Templates -> Times \cup {None}]
                             /\ FirstRun(c, 0)[c] = 0
                             /\ \A d \in Templates : FirstRun(c, 0)[d] \in {0, None}
    BY <1>2 DEF FirstRun
  <2>2. born = [k \in Keys |-> FirstRun(object[k].containers, 0)]
    BY DEF HInit
  <2>3. \A k \in Keys : /\ born[k] \in [Templates -> Times \cup {None}]
                        /\ born[k][object[k].containers] = 0
                        /\ \A d \in Templates : born[k][d] \in {0, None}
    BY <1>2, <2>1, <2>2
  <2>4. born \in [Keys -> [Templates -> Times \cup {None}]]
    BY <2>2, <2>3
  <2> QED BY <1>2, <2>3, <2>4 DEF BornOK
<1>4. Dated
  BY <1>2 DEF HInit, Init, Dated, SameObject, Loaded
<1> QED BY <1>1, <1>3, <1>4 DEF AgeInductive

LEMMA AgeNext == AgeInductive /\ [HNext]_hvars => AgeInductive'
<1> SUFFICES ASSUME AgeInductive, [HNext]_hvars PROVE AgeInductive'
  OBVIOUS
<1>1. [Next]_vars /\ OwnedInv
  BY DEF HNext, hvars, AgeInductive
<1>2. OwnedInv' /\ Shaped
  BY <1>1, OwnedNext
<1>3. TypeInv /\ Owned /\ TypeInv' /\ Owned' /\ BornOK /\ Dated
  BY <1>1, <1>2 DEF OwnedInv, AgeInductive
<1>4. clock <= clock'
  <2>1. clock \in Int
    BY <1>3, BoundsAssumption DEF TypeInv, TypeOK, Times
  <2>2. clock' = clock \/ clock <= clock'
    BY <1>2 DEF Shaped, SaveShape, ForgetShape, ReadShape, CallShape, OutsideShape, Start, Begin
  <2> QED BY <2>1, <2>2
<1>5. BornOK' /\ BornKept
  BY <1>3, <1>4, BornStep DEF TypeInv
<1>6. Dated'
  BY <1>2, <1>3, <1>5, DatedSave, DatedLoad, DatedCall, DatedOutside DEF Shaped
<1> QED BY <1>2, <1>5, <1>6 DEF AgeInductive

(* Some template with the tracked images has run under the object for at   *)
(* least maxAge when the entry's revision is expired.                      *)
LEMMA ExpiredHasRun ==
    ASSUME AgeInductive, OnTarget, pc # "begin",
           Expired(rec.now, rec.doc[rec.key].firstSeen, rec.pol.maxAge)
    PROVE  \E age \in RanFor(rec.key, rec.doc[rec.key].revision, rec.pol.tracked, rec.now) :
              age >= rec.pol.maxAge
<1> DEFINE k == rec.key
           st == rec.doc[k]
<1>1. Loaded /\ SameObject /\ TypeInv
  BY DEF OnTarget, Loaded, SameObject, AgeInductive, OwnedInv
<1>2. k \in Keys /\ rec.now \in Times /\ st \in WorkloadStates /\ rec.pol \in Policies
  BY <1>1, LocalTypes DEF Loaded
<1>3. PICK d \in Templates : /\ Trackable(d, rec.pol.tracked)
                             /\ st.revision = RevisionHash(d, rec.pol.tracked)
                             /\ born[k][d] # None /\ born[k][d] <= st.firstSeen
  BY <1>1 DEF AgeInductive, Dated, DatedBy
<1>4. /\ born[k][d] \in Int /\ st.firstSeen \in Int /\ rec.now \in Int
      /\ rec.pol.maxAge \in Int
  BY <1>2, <1>3, BoundsAssumption, PoliciesAssumption
  DEF AgeInductive, BornOK, WorkloadStates, Times
<1>5. rec.now - born[k][d] >= rec.pol.maxAge
  BY <1>3, <1>4 DEF Expired
<1>6. rec.now - born[k][d] \in RanFor(k, st.revision, rec.pol.tracked, rec.now)
  BY <1>3 DEF RanFor
<1> QED BY <1>5, <1>6

(* A reconcile that holds a revision to be expired works on an object      *)
(* whose tracked images first ran under it at least maxAge ago, for every  *)
(* history of redeploys, recreations, changes of the tracking definition   *)
(* and lost reconciles (reconcileIdentity, CalculateRevision, Decide).     *)
THEOREM NoEarlyExpiry == HSpec => []ExpiryNeverEarly
<1>1. AgeInductive => ExpiryNeverEarly
  BY ExpiredHasRun DEF ExpiryNeverEarly
<1> QED BY <1>1, AgeInit, AgeNext, PTL DEF HSpec

(* The object a deletion names is the one that was read, with the images   *)
(* that were read.                                                         *)
AsRead == OnTarget /\ object[rec.key].containers = rec.cur.containers

(* A pending deletion of an object that is as it was read is of images     *)
(* that have exceeded maxAge.                                              *)
DeletesExpiredAsRead ==
    pc = "delete" /\ AsRead =>
      LET tracked == rec.pol.tracked
      IN  \E age \in RanFor(rec.key, RevisionHash(object[rec.key].containers, tracked),
                            tracked, rec.now) : age >= rec.pol.maxAge

(* Young images are deleted only if the owner redeployed or recreated the  *)
(* workload between the reconcile's read and its deletion, which goes by   *)
(* name: the history of run history_delete is the only way                 *)
(* (Reconcile's delete branch, DeleteWorkload).                            *)
THEOREM DeletesOnlyExpiredAsRead == HSpec => []DeletesExpiredAsRead
<1>1. AgeInductive => DeletesExpiredAsRead
  <2> SUFFICES ASSUME AgeInductive, pc = "delete", AsRead
               PROVE  \E age \in RanFor(rec.key, RevisionHash(object[rec.key].containers,
                                                              rec.pol.tracked),
                                        rec.pol.tracked, rec.now) : age >= rec.pol.maxAge
    BY DEF DeletesExpiredAsRead
  <2>1. Expired(rec.now, rec.doc[rec.key].firstSeen, rec.pol.maxAge) /\ Loaded
    BY DEF AgeInductive, OwnedInv, CallJustified, Loaded
  <2>2. rec.doc[rec.key].revision = RevisionHash(object[rec.key].containers, rec.pol.tracked)
    BY <2>1 DEF AgeInductive, Dated, AsRead
  <2> QED BY <2>1, <2>2, ExpiredHasRun DEF AsRead
<1> QED BY <1>1, AgeInit, AgeNext, PTL DEF HSpec

-----------------------------------------------------------------------------
(***************************************************************************)
(* How long an exemption lasts.                                            *)
(***************************************************************************)

(* Later instants. *)
LEMMA Later ==
    ASSUME NEW s \in Times, NEW t \in Times, s <= t
    PROVE  /\ \A st : OpenedAt(st, s) => OpenedAt(st, t)
           /\ \A id : Over(id, s) => Over(id, t)
<1>1. \A u \in Times : (u <= s => u <= t) /\ (t <= u => s <= u)
  BY BoundsAssumption DEF Times
<1> QED BY <1>1 DEF OpenedAt, Over

(* What every step does to the clock, the phases and the UIDs. *)
LEMMA StepFacts ==
    ASSUME TypeInv, TypeInv', Shaped
    PROVE  /\ clock \in Times /\ clock' \in Times /\ clock <= clock'
           /\ \A k \in Keys : object'[k].uid = object[k].uid /\ object'[k].phase = "live" =>
                object[k].phase = "live"
           /\ \A k \in Keys : object'[k].uid # object[k].uid =>
                object'[k].uid = object[k].uid + 1 /\ OutsideShape
<1>1. clock \in Times /\ clock' \in Times
  BY DEF TypeInv, TypeOK
<1>2. clock' = clock \/ clock <= clock'
  BY DEF Shaped, SaveShape, ForgetShape, ReadShape, CallShape, OutsideShape, Start, Begin
<1>3. clock <= clock'
  BY <1>1, <1>2, BoundsAssumption DEF Times
<1>4. CASE object' = object
  BY <1>1, <1>3, <1>4
<1>5. CASE CallShape
  BY <1>1, <1>3, <1>5 DEF CallShape
<1>6. CASE OutsideShape
  <2>1. \A k \in Keys : object[k].uid \in Int
    BY UIDTypes
  <2> QED BY <1>1, <1>3, <1>6, <2>1 DEF OutsideShape
<1> QED BY <1>4, <1>5, <1>6 DEF Shaped, SaveShape, ForgetShape, ReadShape, Start, Begin

(* The instances in entries were open. *)
LEMMA OpenedNext ==
    ASSUME TypeInv, TypeInv', Owned, Opened, Shaped
    PROVE  Opened'
<1>1. clock \in Times /\ clock' \in Times /\ clock <= clock'
  BY StepFacts
<1>2. ASSUME NEW k \in Keys PROVE OpenedAt(store'[k], clock')
  <2>1. EntryStep(k)
    BY StoreStep DEF Owned
  <2>2. CASE store'[k] = store[k]
    BY <1>1, <2>2, Later DEF Opened
  <2>3. CASE SaveShape /\ k = rec.key /\ SameEntry(rec.doc[k], store'[k])
    <3>1. Loaded /\ rec.now \in Times
      BY <2>3, LocalTypes DEF SaveShape, Loaded
    <3>2. rec.now <= clock /\ OpenedAt(rec.doc[k], rec.now)
      BY <2>3, <3>1 DEF Opened
    <3>3. OpenedAt(rec.doc[k], clock)
      BY <1>1, <3>1, <3>2, Later
    <3>4. OpenedAt(rec.doc[k], clock')
      BY <1>1, <3>3, Later
    <3> QED BY <2>3, <3>4 DEF SameEntry, OpenedAt
  <2>4. CASE store'[k] = NoState
    BY <2>4 DEF NoState, OpenedAt
  <2> QED BY <2>1, <2>2, <2>3, <2>4 DEF EntryStep
<1>3. ASSUME Loaded' PROVE rec'.now <= clock' /\ OpenedAt(rec'.doc[rec'.key], rec'.now)
  <2>1. CASE SaveShape
    <3>1. Loaded /\ rec.key \in Keys /\ rec.now \in Times
      BY <2>1, LocalTypes DEF SaveShape, Loaded
    <3>2. rec'.key = rec.key /\ rec'.now = rec.now /\ rec'.doc = store'
      BY <1>3, <2>1 DEF SaveShape, TaskKept, Loaded
    <3>3. SameEntry(rec.doc[rec.key], store'[rec.key])
      <4>1. rec.doc \in [Keys -> WorkloadStates]
        BY <3>1, LocalTypes DEF Loaded
      <4> QED BY <2>1, <3>1, <4>1 DEF SaveShape
    <3> QED BY <2>1, <3>1, <3>2, <3>3 DEF SaveShape, SameEntry, Opened, OpenedAt
  <2>2. CASE ReadShape
    <3> DEFINE old == rec.doc[rec.key]
               id == rec.pol.window[rec.now]
    <3>1. /\ Loaded /\ rec.key \in Keys /\ rec.now \in Times /\ rec.pol \in Policies
          /\ rec.doc \in [Keys -> WorkloadStates] /\ old \in WorkloadStates
      BY <2>2, LocalTypes DEF ReadShape, Loaded
    <3>2. /\ rec'.key = rec.key /\ rec'.now = rec.now /\ clock' = clock
          /\ rec'.doc[rec.key] = EnterWindow(old, id)
      BY <1>3, <2>2, <3>1 DEF ReadShape, TaskKept, Loaded
    <3>3. EnterWindow(old, id).windowId \in {None, id, old.windowId}
      BY <3>1 DEF EnterWindow, reconcileWindowCycle, WorkloadStates
    <3>4. OpenedAt(old, rec.now) /\ rec.now <= clock
      BY <3>1 DEF Opened
    <3>5. rec.now <= rec.now
      BY <3>1, BoundsAssumption DEF Times
    <3> HIDE DEF old
    <3> QED BY <3>1, <3>2, <3>3, <3>4, <3>5 DEF OpenedAt
  <2>3. CASE CallShape
    BY <1>3, <2>3 DEF CallShape, TaskKept, Loaded, Opened
  <2>4. CASE OutsideShape
    <3>1. rec' = rec /\ Loaded /\ rec.now <= clock /\ OpenedAt(rec.doc[rec.key], rec.now)
      BY <1>3, <2>4 DEF OutsideShape, Loaded, Opened
    <3>2. rec.now \in Times
      BY <3>1, LocalTypes DEF Loaded
    <3>3. rec.now <= clock'
      BY <1>1, <3>1, <3>2, BoundsAssumption DEF Times
    <3> QED BY <3>1, <3>3
  <2>5. ASSUME NEW p \in Policies, Begin(p)
        PROVE  rec'.now <= clock' /\ OpenedAt(rec'.doc[rec'.key], rec'.now)
    <3> DEFINE st == reconcileIdentity(store[rec.key], rec.cur, p, clock)
    <3>1. rec \in Reconciles /\ rec.key \in Keys /\ store \in [Keys -> WorkloadStates]
      BY <2>5, LocalTypes DEF Begin, TypeInv, TypeOK
    <3>2. rec'.key = rec.key /\ rec'.now = clock /\ rec'.doc = [store EXCEPT ![rec.key] = st]
      BY <2>5, <3>1 DEF Begin, Reconciles
    <3>3. st.windowId \in {None, store[rec.key].windowId}
      BY DEF reconcileIdentity, NoState
    <3> HIDE DEF st
    <3>4. rec'.doc[rec.key] = st
      BY <3>1, <3>2
    <3> QED BY <1>1, <3>1, <3>2, <3>3, <3>4 DEF Opened, OpenedAt
  <2>6. ~ForgetShape /\ ~(\E k \in Keys : Start(k))
    BY <1>3 DEF ForgetShape, Start, Loaded
  <2> QED BY <2>1, <2>2, <2>3, <2>4, <2>5, <2>6 DEF Shaped
<1> QED BY <1>2, <1>3 DEF Opened

(* How a step changes the exemption of an object. *)
ExemptStep(k) ==
    IF object'[k].uid # object[k].uid THEN exempt'[k] = None
    ELSE IF store'[k].uid = object[k].uid /\ store'[k].skip # None
         THEN exempt'[k] = store'[k].windowId
         ELSE exempt'[k] = exempt[k]

LEMMA ExemptSteps ==
    ASSUME SkipsCount, [HNext]_hvars, NEW k \in Keys
    PROVE  /\ ExemptStep(k)
           /\ object'[k].uid = object[k].uid /\ store'[k] = store[k] => exempt'[k] = exempt[k]
<1>1. ExemptStep(k)
  <2>1. CASE UNCHANGED hvars
    BY <2>1 DEF hvars, history, vars, ExemptStep, SkipsCount
  <2>2. CASE HNext
    BY <2>2 DEF HNext, Observed, Replaced, ExemptStep
  <2> QED BY <2>1, <2>2
<1> QED BY <1>1 DEF ExemptStep, SkipsCount

(* What an entry step means for the exemption: the entry of the object is  *)
(* the one before, or the one the reconcile for this object saved, and a   *)
(* reconcile for an earlier object changes nothing.                        *)
LEMMA EntryExempts ==
    ASSUME TypeInv, TypeInv', Owned, Exempted, Shaped, [HNext]_hvars,
           NEW k \in Keys, object'[k].uid = object[k].uid
    PROVE  \/ store'[k] = store[k] /\ exempt'[k] = exempt[k]
           \/ /\ SaveShape /\ k = rec.key /\ SameEntry(rec.doc[k], store'[k])
              /\ SameObject /\ store'[k].uid = object[k].uid
           \/ /\ k = rec.key /\ pc # "idle" /\ store'[k].uid # object[k].uid
              /\ exempt'[k] = exempt[k]
              /\ object[k].phase = "live" => exempt[k] = None
<1>1. EntryStep(k) /\ ExemptStep(k)
  BY StoreStep, ExemptSteps DEF Owned, Exempted
<1>2. CASE store'[k] = store[k]
  BY <1>2, ExemptSteps DEF Exempted
<1>3. CASE SaveShape /\ k = rec.key /\ SameEntry(rec.doc[k], store'[k])
  <2>1. store'[k].uid = rec.cur.uid /\ pc # "idle"
    BY <1>3 DEF SaveShape, SameEntry, Owned, Attributed, Loaded
  <2>2. CASE SameObject
    BY <1>3, <2>1, <2>2 DEF SameObject
  <2>3. CASE ~SameObject
    <3>1. store'[k].uid # object[k].uid
      BY <1>3, <2>1, <2>3 DEF SameObject
    <3>2. exempt'[k] = exempt[k]
      BY <1>1, <3>1 DEF ExemptStep
    <3> QED BY <1>3, <2>1, <2>3, <3>1, <3>2 DEF Exempted, StaleExemptsNothing
  <2> QED BY <2>2, <2>3
<1>4. CASE ForgetShape /\ k = rec.key /\ store'[k] = NoState
  <2>1. store'[k].uid # object[k].uid
    BY <1>4, UIDTypes DEF NoState
  <2>2. exempt'[k] = exempt[k]
    BY <1>1, <2>1 DEF ExemptStep
  <2>3. object[k].phase = "live" => ~SameObject
    BY <1>4 DEF ForgetShape, Owned, DeletionAccepted, SameObject
  <2> QED BY <1>4, <2>1, <2>2, <2>3 DEF ForgetShape, Exempted, StaleExemptsNothing
<1> QED BY <1>1, <1>2, <1>3, <1>4 DEF EntryStep

(* The entries of exempted objects. *)
LEMMA EntrySkipsNext ==
    ASSUME TypeInv, TypeInv', Owned, Opened, Exempted, Shaped, [HNext]_hvars
    PROVE  EntrySkips'
<1> SUFFICES ASSUME NEW k \in Keys, object'[k].phase = "live", exempt'[k] # None
             PROVE  \/ store'[k].uid = object'[k].uid /\ Skips(store'[k], exempt'[k])
                    \/ Over(exempt'[k], clock')
  BY DEF EntrySkips
<1>1. ExemptStep(k)
  BY ExemptSteps DEF Exempted
<1>2. object'[k].uid = object[k].uid /\ object[k].phase = "live"
  BY <1>1, StepFacts DEF ExemptStep
<1>3. clock \in Times /\ clock' \in Times /\ clock <= clock'
  BY StepFacts
<1>4. CASE store'[k] = store[k] /\ exempt'[k] = exempt[k]
  <2>1. \/ store[k].uid = object[k].uid /\ Skips(store[k], exempt[k])
        \/ Over(exempt[k], clock)
    BY <1>2, <1>4 DEF Exempted, EntrySkips
  <2> QED BY <1>2, <1>3, <1>4, <2>1, Later
<1>5. CASE /\ SaveShape /\ k = rec.key /\ SameEntry(rec.doc[k], store'[k])
           /\ SameObject /\ store'[k].uid = object[k].uid
  <2>1. CASE store'[k].skip # None
    BY <1>1, <1>2, <1>5, <2>1 DEF ExemptStep, Skips
  <2>2. CASE store'[k].skip = None
    <3>1. exempt'[k] = exempt[k] /\ rec.doc[k].skip = None
      BY <1>1, <1>2, <1>5, <2>2 DEF ExemptStep, SameEntry
    <3>2. Loaded /\ OnTarget
      BY <1>2, <1>5 DEF SaveShape, SameObject, OnTarget
    <3>3. Over(exempt[k], rec.now)
      BY <1>5, <3>1, <3>2 DEF Exempted, DocumentSkips, Skips
    <3>4. rec.now \in Times /\ rec.now <= clock
      BY <3>2, LocalTypes DEF Loaded, Opened
    <3>5. Over(exempt[k], clock)
      BY <1>3, <3>3, <3>4, Later
    <3> QED BY <1>3, <3>1, <3>5, Later
  <2> QED BY <2>1, <2>2
<1>6. CASE exempt'[k] = exempt[k] /\ (object[k].phase = "live" => exempt[k] = None)
  BY <1>2, <1>6
<1> QED BY <1>2, <1>4, <1>5, <1>6, EntryExempts

(* The skips in entries, and reconciles for earlier objects. *)
LEMMA SkipsCountNext ==
    ASSUME TypeInv, TypeInv', Owned, Exempted, Shaped, [HNext]_hvars
    PROVE  SkipsCount' /\ StaleExemptsNothing'
<1>1. \A k \in Keys : store[k].uid \in Int /\ object[k].uid \in Int
  BY UIDTypes
<1>2. \A k \in Keys : store[k].uid <= object[k].uid
  BY DEF Owned, Attributed
<1>3. \A k \in Keys : object'[k].uid # object[k].uid => store'[k].uid # object'[k].uid
  <2> SUFFICES ASSUME NEW k \in Keys, object'[k].uid # object[k].uid
               PROVE  store'[k].uid # object'[k].uid
    OBVIOUS
  <2>1. object'[k].uid = object[k].uid + 1 /\ store' = store
    BY StepFacts DEF OutsideShape
  <2> QED BY <1>1, <1>2, <2>1
<1>4. \A k \in Keys : ExemptStep(k)
  BY ExemptSteps DEF Exempted
<1>5. SkipsCount'
  BY <1>3, <1>4 DEF SkipsCount, ExemptStep
<1>6. ASSUME pc' # "idle", ~SameObject'
      PROVE  exempt'[rec'.key] = None /\ store'[rec'.key].uid # object'[rec'.key].uid
  <2>1. ~(\E k \in Keys : Start(k))
    BY <1>6 DEF Start, SameObject
  <2>2. pc # "idle" /\ rec'.key = rec.key /\ rec'.cur = rec.cur
    <3>1. CASE SaveShape \/ ForgetShape \/ ReadShape \/ CallShape
      BY <1>6, <3>1 DEF SaveShape, ForgetShape, ReadShape, CallShape, TaskKept, Loaded
    <3>2. CASE OutsideShape
      BY <1>6, <3>2 DEF OutsideShape
    <3>3. CASE \E p \in Policies : Begin(p)
      <4>1. pc = "begin" /\ rec \in Reconciles
        BY <3>3, LocalTypes DEF Begin
      <4> QED BY <3>3, <4>1 DEF Begin, Reconciles
    <3> QED BY <2>1, <3>1, <3>2, <3>3 DEF Shaped
  <2>3. rec.key \in Keys
    BY <2>2, LocalTypes
  <2>4. CASE object'[rec.key].uid # object[rec.key].uid
    BY <1>3, <1>4, <2>2, <2>3, <2>4 DEF ExemptStep
  <2>5. CASE object'[rec.key].uid = object[rec.key].uid
    <3>1. ~SameObject
      BY <1>6, <2>2, <2>5 DEF SameObject
    <3>2. exempt[rec.key] = None /\ store[rec.key].uid # object[rec.key].uid
      BY <2>2, <3>1 DEF Exempted, StaleExemptsNothing
    <3> QED BY <2>2, <2>3, <2>5, <3>1, <3>2, EntryExempts
  <2> QED BY <2>4, <2>5
<1>7. StaleExemptsNothing'
  BY <1>6 DEF StaleExemptsNothing
<1> QED BY <1>5, <1>7

(* Bringing the window of an entry up to date drops a skip only when the   *)
(* instance it was for is over.                                            *)
LEMMA SkipOutlives ==
    ASSUME InstancesAreStretches, NEW st \in WorkloadStates, NEW p \in Policies,
           NEW now \in Times, NEW id, id # None, Skips(st, id), OpenedAt(st, now)
    PROVE  Skips(EnterWindow(st, p.window[now]), id) \/ Over(id, now)
<1>1. CASE p.window[now] = id
  BY <1>1 DEF Skips, EnterWindow, reconcileWindowCycle, WorkloadStates
<1>2. CASE p.window[now] # id
  <2>1. PICK q \in Policies, s \in Times : s <= now /\ q.window[s] = id
    BY DEF Skips, OpenedAt
  <2>2. ASSUME NEW o \in Policies, NEW u \in Times, now <= u, o.window[u] = id
        PROVE  FALSE
    <3>1. p.window[now] = q.window[s]
      BY <2>1, <2>2 DEF InstancesAreStretches
    <3> QED BY <1>2, <2>1, <3>1
  <2> QED BY <2>2 DEF Over
<1> QED BY <1>1, <1>2

(* The document of the reconcile in flight. *)
LEMMA DocumentSkipsNext ==
    ASSUME InstancesAreStretches, TypeInv, TypeInv', Owned, Opened, Exempted,
           Shaped, [HNext]_hvars
    PROVE  DocumentSkips'
<1> SUFFICES ASSUME Loaded', OnTarget', exempt'[rec'.key] # None
             PROVE  \/ Skips(rec'.doc[rec'.key], exempt'[rec'.key])
                    \/ Over(exempt'[rec'.key], rec'.now)
  BY DEF DocumentSkips
<1> DEFINE k == rec.key
<1>1. /\ pc # "idle" /\ rec'.key = k /\ rec'.cur = rec.cur
      /\ ~ForgetShape /\ ~(\E j \in Keys : Start(j))
  <2>1. CASE SaveShape \/ ForgetShape \/ ReadShape \/ CallShape
    BY <2>1 DEF SaveShape, ForgetShape, ReadShape, CallShape, TaskKept, Loaded, Start
  <2>2. CASE OutsideShape
    BY <2>2 DEF OutsideShape, Loaded, ForgetShape, Start
  <2>3. CASE \E p \in Policies : Begin(p)
    <3>1. pc = "begin" /\ rec \in Reconciles
      BY <2>3, LocalTypes DEF Begin
    <3> QED BY <2>3, <3>1 DEF Begin, Reconciles, ForgetShape, Start
  <2>4. ~(\E j \in Keys : Start(j))
    BY DEF Start, Loaded
  <2> QED BY <2>1, <2>2, <2>3, <2>4 DEF Shaped
<1>2. k \in Keys
  BY <1>1, LocalTypes
<1>3. ExemptStep(k)
  BY <1>2, ExemptSteps DEF Exempted
<1>4. object'[k].uid = object[k].uid /\ object[k].phase = "live" /\ OnTarget
  BY <1>1, <1>2, <1>3, StepFacts DEF ExemptStep, OnTarget
<1>5. store'[k] = store[k] => exempt'[k] = exempt[k]
  BY <1>2, <1>4, ExemptSteps DEF Exempted
<1>6. CASE SaveShape
  <2>1. Loaded /\ rec'.doc = store' /\ rec'.now = rec.now
    BY <1>6 DEF SaveShape, TaskKept, Loaded
  <2>2. SameEntry(rec.doc[k], store'[k])
    <3>1. rec.doc \in [Keys -> WorkloadStates]
      BY <1>1, LocalTypes
    <3> QED BY <1>2, <1>6, <3>1 DEF SaveShape
  <2>3. store'[k].uid = object[k].uid
    BY <1>1, <1>4, <2>1, <2>2 DEF SameEntry, Owned, Attributed, OnTarget
  <2>4. CASE store'[k].skip # None
    BY <1>1, <1>3, <1>4, <2>1, <2>3, <2>4 DEF ExemptStep, Skips
  <2>5. CASE store'[k].skip = None
    <3>1. exempt'[k] = exempt[k] /\ rec.doc[k].skip = None
      BY <1>3, <1>4, <2>2, <2>5 DEF ExemptStep, SameEntry
    <3>2. Over(exempt[k], rec.now)
      BY <1>1, <1>4, <2>1, <3>1 DEF Exempted, DocumentSkips, Skips
    <3> QED BY <1>1, <2>1, <3>1, <3>2
  <2> QED BY <2>4, <2>5
<1>7. CASE ReadShape
  <2>1. /\ Loaded /\ store' = store /\ rec'.now = rec.now
        /\ rec'.doc = [rec.doc EXCEPT ![k] = EnterWindow(rec.doc[k], rec.pol.window[rec.now])]
    BY <1>7 DEF ReadShape, TaskKept, Loaded
  <2>2. /\ rec.doc \in [Keys -> WorkloadStates] /\ rec.doc[k] \in WorkloadStates
        /\ rec.pol \in Policies /\ rec.now \in Times
    BY <1>1, <2>1, LocalTypes DEF Loaded
  <2>3. exempt'[k] = exempt[k]
    BY <1>5, <2>1
  <2>4. Skips(rec.doc[k], exempt[k]) \/ Over(exempt[k], rec.now)
    BY <1>1, <1>4, <2>1, <2>3 DEF Exempted, DocumentSkips
  <2>5. OpenedAt(rec.doc[k], rec.now)
    BY <2>1 DEF Opened
  <2>6. \/ Skips(EnterWindow(rec.doc[k], rec.pol.window[rec.now]), exempt[k])
        \/ Over(exempt[k], rec.now)
    BY <1>1, <2>2, <2>3, <2>4, <2>5, SkipOutlives
  <2> QED BY <1>1, <1>2, <2>1, <2>2, <2>3, <2>6
<1>8. CASE CallShape
  <2>1. Loaded /\ store' = store /\ rec'.now = rec.now /\ rec'.doc = rec.doc
    BY <1>8 DEF CallShape, TaskKept, Loaded
  <2> QED BY <1>1, <1>4, <1>5, <2>1 DEF Exempted, DocumentSkips
<1>9. CASE OutsideShape
  <2>1. Loaded /\ store' = store /\ rec' = rec
    BY <1>9 DEF OutsideShape, Loaded
  <2> QED BY <1>1, <1>4, <1>5, <2>1 DEF Exempted, DocumentSkips
<1>10. ASSUME NEW p \in Policies, Begin(p)
       PROVE  Skips(rec'.doc[k], exempt'[k]) \/ Over(exempt'[k], rec'.now)
  <2> DEFINE st == reconcileIdentity(store[k], rec.cur, p, clock)
  <2>1. rec \in Reconciles /\ store \in [Keys -> WorkloadStates]
    BY <1>1, LocalTypes DEF TypeInv, TypeOK
  <2>2. /\ store' = store /\ rec'.now = clock
        /\ rec'.doc = [store EXCEPT ![k] = st]
    BY <1>10, <2>1 DEF Begin, Reconciles
  <2>3. exempt'[k] = exempt[k] /\ rec'.doc[k] = st
    BY <1>2, <1>5, <2>1, <2>2
  <2>4. \/ store[k].uid = object[k].uid /\ Skips(store[k], exempt[k])
        \/ Over(exempt[k], clock)
    BY <1>1, <1>2, <1>4, <2>3 DEF Exempted, EntrySkips
  <2>5. store[k].uid = object[k].uid => SameUID(store[k], rec.cur)
    BY <1>2, <1>4, UIDTypes DEF OnTarget, SameUID
  <2>6. SameUID(store[k], rec.cur) =>
          st.skip = store[k].skip /\ st.windowId = store[k].windowId
    BY DEF reconcileIdentity
  <2> HIDE DEF st
  <2> QED BY <2>2, <2>3, <2>4, <2>5, <2>6 DEF Skips
<1> QED BY <1>1, <1>6, <1>7, <1>8, <1>9, <1>10 DEF Shaped

LEMMA SkipInit == HInit => SkipInductive
<1> SUFFICES ASSUME HInit PROVE SkipInductive
  OBVIOUS
<1>1. OwnedInv
  BY OwnedInit DEF HInit
<1>2. Opened
  BY DEF HInit, Init, NoState, Opened, OpenedAt, Loaded
<1>3. Exempted
  BY DEF HInit, Init, NoState, Exempted, EntrySkips, DocumentSkips, SkipsCount,
         StaleExemptsNothing, Loaded
<1> QED BY <1>1, <1>2, <1>3 DEF SkipInductive

LEMMA SkipNext ==
    ASSUME InstancesAreStretches
    PROVE  SkipInductive /\ [HNext]_hvars => SkipInductive'
<1> SUFFICES ASSUME SkipInductive, [HNext]_hvars PROVE SkipInductive'
  OBVIOUS
<1>1. [Next]_vars /\ OwnedInv
  BY DEF HNext, hvars, SkipInductive
<1>2. OwnedInv' /\ Shaped
  BY <1>1, OwnedNext
<1>3. TypeInv /\ TypeInv' /\ Owned /\ Opened /\ Exempted
  BY <1>1, <1>2 DEF OwnedInv, SkipInductive
<1>4. Opened'
  BY <1>2, <1>3, OpenedNext
<1>5. EntrySkips' /\ SkipsCount' /\ StaleExemptsNothing' /\ DocumentSkips'
  BY <1>2, <1>3, EntrySkipsNext, SkipsCountNext, DocumentSkipsNext
<1> QED BY <1>2, <1>4, <1>5 DEF SkipInductive, Exempted

(* When a window instance is one stretch of time for all policies, a       *)
(* workload that was exempted from it is not lowered for the schedule as   *)
(* long as it lasts: crashes, further redeploys, lost reconciles and late  *)
(* saves for an earlier object never lose a durable skip                   *)
(* (reconcileIdentity, reconcileWindowCycle, Decide).                      *)
THEOREM ExemptionsHold ==
    ASSUME InstancesAreStretches
    PROVE  HSpec => []ExemptionHolds
<1>1. SkipInductive => ExemptionHolds
  <2> DEFINE id == rec.pol.window[rec.now]
  <2> SUFFICES ASSUME SkipInductive, OnTarget, pc \in {"saveSnapshot", "scaleDown", "scale"},
                      exempt[rec.key] = id
               PROVE  Expired(rec.now, rec.doc[rec.key].firstSeen, rec.pol.maxAge)
    BY DEF ExemptionHolds
  <2>1. Loaded /\ rec.now \in Times /\ rec.pol \in Policies
    BY LocalTypes DEF Loaded, SkipInductive, OwnedInv
  <2>2. CASE id # None /\ rec.doc[rec.key].skip = None
    <3>1. Over(id, rec.now)
      BY <2>1, <2>2 DEF SkipInductive, Exempted, DocumentSkips, Skips
    <3>2. rec.now <= rec.now
      BY <2>1, BoundsAssumption DEF Times
    <3> QED BY <2>1, <3>1, <3>2 DEF Over
  <2> QED BY <2>2 DEF SkipInductive, OwnedInv, CallJustified
<1>2. SkipInductive /\ [HNext]_hvars => SkipInductive'
  BY SkipNext
<1> QED BY <1>1, <1>2, SkipInit, PTL DEF HSpec
=============================================================================
