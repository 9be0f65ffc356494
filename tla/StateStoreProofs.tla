-------------------------- MODULE StateStoreProofs --------------------------
(***************************************************************************)
(* Proofs about StateStore, for any number of clients, keys and retries.   *)
(***************************************************************************)
EXTENDS StateStore, TLAPS

(* The ConfigMap a client got and nobody changed since is decodable and    *)
(* has room for the client's document: the checks of Save still hold when  *)
(* the update is accepted.                                                 *)
Checked == \A c \in Clients : fresh[c] =>
    /\ pc[c] = "saveUpdate"
    /\ cm # Missing /\ Decodes(cm.doc)
    /\ copy[c] = cm.foreign
    /\ ~Exceeded(mine[c], copy[c])

(* What a client holds can be encoded. *)
Sound == \A c \in Clients : ValidateDocument(mine[c])

(* While nobody else writes, the durable document is the client's, but for *)
(* the entry it is saving.                                                 *)
Current == \A c \in Clients : alone[c] =>
    /\ cm # Missing
    /\ pc[c] \in {"loaded", "saveGet", "saveUpdate", "saveCreate"}
    /\ pc[c] = "loaded" => cm.doc = mine[c]
    /\ pc[c] # "loaded" => \E k \in Keys : \A j \in Keys \ {k} : cm.doc[j] = mine[c][j]

Inductive == TypeOK /\ Checked /\ Sound /\ Current

(* The helpers' results are well typed. *)
LEMMA Typed ==
    /\ NewDocument \in Documents /\ ValidateDocument(NewDocument)
    /\ 0 \in 0 .. Steps - 1 /\ 0 \in Foreign
    /\ \A d \in Documents \cup {Malformed}, f \in Foreign :
         /\ [doc |-> d, foreign |-> f] \in ConfigMaps
         /\ [doc |-> d, foreign |-> f].doc = d
         /\ [doc |-> d, foreign |-> f].foreign = f
  BY StoreAssumption DEF NewDocument, Documents, ConfigMaps, ValidateDocument

(* The invariant holds initially. *)
LEMMA InductiveInit == Init => Inductive
  BY Typed DEF Init, Inductive, TypeOK, Checked, Sound, Current

(* A step of client c that writes nothing and holds no fresh copy. *)
LEMMA FailKeeps ==
    ASSUME Inductive, NEW c \in Clients, Fail(c)
    PROVE  Inductive'
<1>1. TypeOK'
  BY Typed DEF Inductive, TypeOK, Fail, Goto, DropCopy
<1>2. Checked'
  BY DEF Inductive, TypeOK, Checked, Fail, Goto, DropCopy
<1>3. Sound'
  BY Typed DEF Inductive, TypeOK, Sound, Fail
<1>4. Current'
  BY DEF Inductive, TypeOK, Current, Fail, Goto
<1> QED BY <1>1, <1>2, <1>3, <1>4 DEF Inductive

(* A client that goes on without a write. *)
LEMMA GoKeeps ==
    ASSUME Inductive, NEW c \in Clients, ~fresh[c],
           NEW next \in {"loadGet", "loadCreate", "saveGet", "saveCreate"}, Goto(c, next),
           alone[c] => pc[c] # "loaded" /\ next \in {"saveGet", "saveCreate"},
           \A x \in Clients \ {c} : copy'[x] = copy[x],
           UNCHANGED <<cm, mine, fresh, alone>>
    PROVE  Checked' /\ Sound' /\ Current'
<1>1. Checked'
  <2>1. ASSUME NEW x \in Clients, fresh'[x]
        PROVE  /\ pc'[x] = "saveUpdate" /\ cm' # Missing /\ Decodes(cm'.doc)
               /\ copy'[x] = cm'.foreign /\ ~Exceeded(mine'[x], copy'[x])
    <3>1. x # c /\ fresh[x] /\ copy'[x] = copy[x] /\ pc'[x] = pc[x]
      BY <2>1 DEF Inductive, TypeOK, Goto
    <3> QED BY <3>1 DEF Inductive, Checked
  <2> QED BY <2>1 DEF Checked, Exceeded
<1>2. Sound'
  BY DEF Inductive, Sound
<1>3. ASSUME NEW x \in Clients, alone'[x]
      PROVE  /\ cm' # Missing
             /\ pc'[x] \in {"loaded", "saveGet", "saveUpdate", "saveCreate"}
             /\ pc'[x] = "loaded" => cm'.doc = mine'[x]
             /\ pc'[x] # "loaded" => \E k \in Keys : \A j \in Keys \ {k} : cm'.doc[j] = mine'[x][j]
  <2>1. CASE x = c
    BY <1>3, <2>1 DEF Inductive, TypeOK, Current, Goto
  <2>2. CASE x # c
    BY <1>3, <2>2 DEF Inductive, TypeOK, Current, Goto
  <2> QED BY <2>1, <2>2
<1> QED BY <1>1, <1>2, <1>3 DEF Current

(* A conflict starts the operation over, or ends it. *)
LEMMA RetryKeeps ==
    ASSUME Inductive, NEW c \in Clients, ~fresh[c],
           NEW start \in {"loadGet", "saveGet"}, Retry(c, start),
           alone[c] => pc[c] # "loaded" /\ start = "saveGet"
    PROVE  Inductive'
<1>1. CASE attempt[c] + 1 < Steps
  <2>1. TypeOK'
    BY <1>1, Typed, StoreAssumption DEF Inductive, TypeOK, Retry, Goto
  <2>2. \A x \in Clients \ {c} : copy'[x] = copy[x]
    BY <1>1 DEF Retry, Inductive, TypeOK
  <2>3. Checked' /\ Sound' /\ Current'
    BY <1>1, <2>2, GoKeeps DEF Retry
  <2> QED BY <2>1, <2>3 DEF Inductive
<1>2. CASE ~(attempt[c] + 1 < Steps)
  BY <1>2, FailKeeps DEF Retry
<1> QED BY <1>1, <1>2

(* The calls of a Load. *)
LEMMA LoadKeeps ==
    ASSUME Inductive, NEW c \in Clients, Load(c) \/ LoadGet(c) \/ LoadCreate(c)
    PROVE  Inductive'
<1> USE DEF Inductive
<1>0. ~fresh[c] /\ ~alone[c]
  BY DEF Load, LoadGet, LoadCreate, Checked, Current
<1>1. CASE Load(c)
  <2>1. TypeOK'
    BY <1>1 DEF Load, TypeOK, Goto
  <2> QED BY <1>0, <1>1, <2>1, GoKeeps DEF Load
<1>2. CASE LoadGet(c)
  <2>1. CASE cm = Missing
    <3>1. TypeOK'
      BY <1>2, <2>1 DEF LoadGet, TypeOK, Goto
    <3> QED BY <1>0, <1>2, <2>1, <3>1, GoKeeps DEF LoadGet
  <2>2. CASE cm # Missing /\ ~Decodes(cm.doc)
    BY <1>2, <2>2, FailKeeps DEF LoadGet
  <2>3. CASE cm # Missing /\ Decodes(cm.doc)
    <3>1. cm.doc \in Documents /\ ValidateDocument(cm.doc)
      BY <2>3 DEF TypeOK, ConfigMaps, Decodes
    <3>2. /\ LoadedWith(c, cm.doc) /\ UNCHANGED <<cm, fresh>> /\ pc[c] = "loadGet"
          /\ alone' = [alone EXCEPT ![c] = TRUE]
      BY <1>2, <2>3 DEF LoadGet
    <3>3. TypeOK'
      BY <3>1, <3>2, Typed DEF TypeOK, LoadedWith, DropCopy, Goto
    <3>4. Checked'
      BY <3>2 DEF TypeOK, Checked, LoadedWith, DropCopy, Goto
    <3>5. Sound'
      BY <3>1, <3>2 DEF TypeOK, Sound, LoadedWith
    <3>6. Current'
      BY <2>3, <3>2 DEF TypeOK, Current, LoadedWith, Goto
    <3> QED BY <3>3, <3>4, <3>5, <3>6
  <2> QED BY <2>1, <2>2, <2>3
<1>3. CASE LoadCreate(c)
  <2>1. CASE cm = Missing
    <3>1. /\ LoadedWith(c, NewDocument) /\ Write([doc |-> NewDocument, foreign |-> 0])
          /\ alone' = [x \in Clients |-> x = c]
      BY <1>3, <2>1 DEF LoadCreate
    <3>2. TypeOK'
      BY <3>1, Typed DEF TypeOK, LoadedWith, DropCopy, Goto, Write
    <3>3. Checked'
      BY <3>1 DEF Checked, Write
    <3>4. Sound'
      BY <3>1, Typed DEF TypeOK, Sound, LoadedWith
    <3>5. cm' # Missing /\ cm'.doc = NewDocument
      BY <3>1, Typed, StoreAssumption DEF Write
    <3>6. Current'
      BY <3>1, <3>5 DEF TypeOK, Current, LoadedWith, Goto
    <3> QED BY <3>2, <3>3, <3>4, <3>6
  <2>2. CASE cm # Missing
    BY <1>0, <1>3, <2>2, RetryKeeps DEF LoadCreate
  <2> QED BY <2>1, <2>2
<1> QED BY <1>1, <1>2, <1>3

(* The caller edits its document. *)
LEMMA SaveKeeps ==
    ASSUME Inductive, NEW c \in Clients, NEW k \in Keys,
           NEW v \in Values \cup {Absent}, Save(c, k, v)
    PROVE  Inductive'
<1> USE DEF Inductive
<1> DEFINE d == [mine[c] EXCEPT ![k] = v]
<1>1. CASE ~ValidateDocument(d)
  BY <1>1, FailKeeps DEF Save
<1>2. CASE ValidateDocument(d)
  <2>1. mine[c] \in Documents /\ d \in Documents /\ \A j \in Keys \ {k} : d[j] = mine[c][j]
    BY DEF TypeOK, Documents
  <2> HIDE DEF d
  <2>2. /\ mine' = [mine EXCEPT ![c] = d] /\ pc[c] = "loaded" /\ Goto(c, "saveGet")
        /\ UNCHANGED <<cm, attempt, copy, fresh, alone>>
    BY <1>2 DEF Save, d
  <2>3. TypeOK'
    BY <2>1, <2>2 DEF TypeOK, Goto
  <2>4. Checked'
    BY <2>2 DEF TypeOK, Checked, Goto
  <2>5. Sound'
    BY <1>2, <2>2 DEF TypeOK, Sound
  <2>6. ASSUME NEW x \in Clients, alone'[x]
        PROVE  /\ cm' # Missing
               /\ pc'[x] \in {"loaded", "saveGet", "saveUpdate", "saveCreate"}
               /\ pc'[x] = "loaded" => cm'.doc = mine'[x]
               /\ pc'[x] # "loaded" => \E i \in Keys : \A j \in Keys \ {i} : cm'.doc[j] = mine'[x][j]
    <3>1. CASE x = c
      BY <2>1, <2>2, <2>6, <3>1 DEF TypeOK, Current, Goto
    <3>2. CASE x # c
      BY <2>2, <2>6, <3>2 DEF TypeOK, Current, Goto
    <3> QED BY <3>1, <3>2
  <2> QED BY <2>3, <2>4, <2>5, <2>6 DEF Current
<1> QED BY <1>1, <1>2

(* What a successful update or create of a Save does. *)
LEMMA WriteKeeps ==
    ASSUME Inductive, NEW c \in Clients, NEW f \in Foreign, Saved(c),
           Write([doc |-> mine[c], foreign |-> f])
    PROVE  Inductive'
<1>1. mine[c] \in Documents
  BY DEF Inductive, TypeOK
<1>2. TypeOK'
  BY <1>1, Typed DEF Inductive, TypeOK, Saved, SeenBy, Write, DropCopy, Goto
<1>3. Checked'
  BY DEF Checked, Write
<1>4. Sound'
  BY DEF Inductive, Sound, Saved
<1>5. cm' # Missing /\ cm'.doc = mine[c]
  BY <1>1, Typed, StoreAssumption DEF Write
<1>6. Current'
  BY <1>5 DEF Inductive, TypeOK, Current, Saved, SeenBy, Goto
<1> QED BY <1>2, <1>3, <1>4, <1>6 DEF Inductive

(* The calls of a Save. *)
LEMMA SavingKeeps ==
    ASSUME Inductive, NEW c \in Clients, SaveGet(c) \/ SaveUpdate(c) \/ SaveCreate(c)
    PROVE  Inductive'
<1> USE DEF Inductive
<1>0. pc[c] # "loaded"
  BY DEF SaveGet, SaveUpdate, SaveCreate
<1>1. CASE SaveGet(c)
  <2>0. ~fresh[c]
    BY <1>1 DEF SaveGet, Checked
  <2>1. CASE cm = Missing
    <3>1. TypeOK'
      BY <1>1, <2>1 DEF SaveGet, TypeOK, Goto
    <3> QED BY <1>0, <1>1, <2>0, <2>1, <3>1, GoKeeps DEF SaveGet
  <2>2. CASE cm # Missing /\ (~Decodes(cm.doc) \/ Exceeded(mine[c], cm.foreign))
    BY <1>1, <2>2, FailKeeps DEF SaveGet
  <2>3. CASE cm # Missing /\ Decodes(cm.doc) /\ ~Exceeded(mine[c], cm.foreign)
    <3>1. /\ pc[c] = "saveGet" /\ pc' = [pc EXCEPT ![c] = "saveUpdate"]
          /\ copy' = [copy EXCEPT ![c] = cm.foreign]
          /\ fresh' = [fresh EXCEPT ![c] = TRUE]
          /\ UNCHANGED <<cm, attempt, mine, alone>>
      BY <1>1, <2>3 DEF SaveGet, Goto
    <3>2. TypeOK'
      BY <2>3, <3>1 DEF TypeOK, ConfigMaps
    <3>3. ASSUME NEW x \in Clients, fresh'[x]
          PROVE  /\ pc'[x] = "saveUpdate" /\ cm' # Missing /\ Decodes(cm'.doc)
                 /\ copy'[x] = cm'.foreign /\ ~Exceeded(mine'[x], copy'[x])
      <4>1. CASE x = c
        BY <2>3, <3>1, <4>1 DEF TypeOK
      <4>2. CASE x # c
        BY <3>1, <3>3, <4>2 DEF TypeOK, Checked
      <4> QED BY <4>1, <4>2
    <3>4. Checked'
      BY <3>1, <3>3 DEF Checked, Exceeded
    <3>5. Sound'
      BY <3>1 DEF Sound
    <3>6. Current'
      BY <3>1 DEF TypeOK, Current
    <3> QED BY <3>2, <3>4, <3>5, <3>6
  <2> QED BY <2>1, <2>2, <2>3
<1>2. CASE SaveUpdate(c)
  <2>1. CASE fresh[c]
    <3>1. copy[c] \in Foreign
      BY DEF TypeOK
    <3> QED BY <1>2, <2>1, <3>1, WriteKeeps DEF SaveUpdate
  <2>2. CASE ~fresh[c]
    BY <1>0, <1>2, <2>2, FailKeeps, RetryKeeps DEF SaveUpdate
  <2> QED BY <2>1, <2>2
<1>3. CASE SaveCreate(c)
  <2>1. ~fresh[c]
    BY <1>3 DEF SaveCreate, Checked
  <2> QED BY <1>0, <1>3, <2>1, Typed, FailKeeps, RetryKeeps, WriteKeeps DEF SaveCreate
<1> QED BY <1>1, <1>2, <1>3

(* Every step preserves the invariant. *)
LEMMA InductiveNext == Inductive /\ [Next]_vars => Inductive'
<1> SUFFICES ASSUME Inductive, [Next]_vars PROVE Inductive'
  OBVIOUS
<1>1. ASSUME NEW c \in Clients, Load(c) \/ Call(c) \/ Leave(c) PROVE Inductive'
  BY <1>1, LoadKeeps, SavingKeeps, FailKeeps DEF Call, Leave
<1>2. ASSUME NEW c \in Clients, NEW k \in Keys, NEW v \in Values \cup {Absent}, Save(c, k, v)
      PROVE  Inductive'
  BY <1>2, SaveKeeps
<1>3. CASE OthersWrite
  <2>1. /\ fresh' = [c \in Clients |-> FALSE] /\ alone' = [c \in Clients |-> FALSE]
        /\ UNCHANGED <<pc, attempt, mine, copy>>
    BY <1>3 DEF OthersWrite, Write, SeenBy
  <2>2. cm' \in ConfigMaps \cup {Missing}
    BY <1>3, Typed DEF OthersWrite, Write, Inductive, TypeOK, ConfigMaps
  <2> QED BY <2>1, <2>2 DEF Inductive, TypeOK, Checked, Sound, Current
<1>4. CASE UNCHANGED vars
  BY <1>4 DEF vars, Inductive, TypeOK, Checked, Sound, Current, Exceeded
<1> QED BY <1>1, <1>2, <1>3, <1>4 DEF Next

(* Every variable keeps its type; no operation is tried more than Steps    *)
(* times.                                                                  *)
THEOREM TypeCorrect == Spec => []TypeOK
<1>1. Inductive => TypeOK
  BY DEF Inductive
<1> QED BY <1>1, InductiveInit, InductiveNext, PTL DEF Spec

(* The calls of a client that write, and what they find and leave.         *)
LEMMA ClientWrites ==
    ASSUME Inductive, [Next]_vars, cm' # cm, NEW c \in Clients, pc'[c] # pc[c]
    PROVE  \/ LoadCreate(c) /\ cm = Missing /\ cm' = [doc |-> NewDocument, foreign |-> 0]
           \/ SaveUpdate(c) /\ fresh[c] /\ cm' = [doc |-> mine[c], foreign |-> copy[c]]
           \/ /\ SaveCreate(c) /\ cm = Missing /\ ~Exceeded(mine[c], 0)
              /\ cm' = [doc |-> mine[c], foreign |-> 0]
<1>1. PICK x \in Clients : LoadCreate(x) \/ SaveUpdate(x) \/ SaveCreate(x)
  BY DEF Next, vars, Call, Leave, Fail, Load, LoadGet, Save, SaveGet, OthersWrite
<1>2. x = c
  BY <1>1 DEF LoadCreate, SaveUpdate, SaveCreate, Retry, Fail, Write, LoadedWith, Saved, Goto,
              Inductive, TypeOK
<1> QED BY <1>1, <1>2 DEF LoadCreate, SaveUpdate, SaveCreate, Retry, Fail, Write

(* A step of some client. *)
LEMMA SomeClient ==
    ASSUME Inductive, [Next]_vars, pc' # pc
    PROVE  \E c \in Clients : pc'[c] # pc[c]
<1>1. pc \in [Clients -> {"idle", "loadGet", "loadCreate", "loaded",
                          "saveGet", "saveUpdate", "saveCreate"}]
  BY DEF Inductive, TypeOK
<1>2. pc' \in [Clients -> {"idle", "loadGet", "loadCreate", "loaded",
                           "saveGet", "saveUpdate", "saveCreate"}]
  BY InductiveNext DEF Inductive, TypeOK
<1> QED BY <1>1, <1>2

(* A document that does not decode survives every Load and Save.           *)
THEOREM MalformedSurvives == Spec => MalformedIsKept
<1>1. ASSUME Inductive, [Next]_vars
      PROVE  [cm # Missing /\ cm' # cm /\ ClientStep => Decodes(cm.doc)]_vars
  BY <1>1, ClientWrites, SomeClient DEF ClientStep, Inductive, Checked
<1> QED BY <1>1, InductiveInit, InductiveNext, PTL DEF Spec, MalformedIsKept

(* No client takes the ConfigMap over its limit or touches its other data. *)
THEOREM WritesAlwaysFit == Spec => WritesFit
<1>1. ASSUME Inductive, [Next]_vars, cm' # cm, ClientStep
      PROVE  /\ ~Exceeded(cm'.doc, cm'.foreign)
             /\ cm # Missing => cm'.foreign = cm.foreign
  <2>1. PICK c \in Clients : pc'[c] # pc[c]
    BY <1>1, SomeClient DEF ClientStep
  <2>2. ~Exceeded(NewDocument, 0)
    BY StoreAssumption, Typed DEF Exceeded
  <2>3. mine[c] \in Documents /\ copy[c] \in Foreign
    BY <1>1 DEF Inductive, TypeOK
  <2> QED BY <1>1, <2>1, <2>2, <2>3, ClientWrites, Typed DEF Inductive, Checked
<1>2. Inductive /\ [Next]_vars =>
        [cm' # cm /\ ClientStep =>
           /\ ~Exceeded(cm'.doc, cm'.foreign)
           /\ cm # Missing => cm'.foreign = cm.foreign]_vars
  BY <1>1
<1> QED BY <1>2, InductiveInit, InductiveNext, PTL DEF Spec, WritesFit

(* A client that nobody interfered with takes back no entry of another     *)
(* workload.                                                               *)
THEOREM EntriesAlwaysSurvive == Spec => EntriesSurvive
<1>1. ASSUME Inductive, [Next]_vars, NEW c \in Clients, cm' # cm, pc'[c] # pc[c], alone[c]
      PROVE  \E k \in Keys : \A j \in Keys \ {k} : cm'.doc[j] = cm.doc[j]
  <2>1. /\ cm # Missing /\ pc[c] = "saveUpdate"
        /\ cm' = [doc |-> mine[c], foreign |-> copy[c]]
    BY <1>1, ClientWrites DEF Inductive, Current, SaveUpdate
  <2>2. cm'.doc = mine[c]
    BY <2>1
  <2> QED BY <1>1, <2>1, <2>2 DEF Inductive, Current
<1>2. Inductive /\ [Next]_vars =>
        [\A c \in Clients : cm' # cm /\ pc'[c] # pc[c] /\ alone[c] =>
           \E k \in Keys : \A j \in Keys \ {k} : cm'.doc[j] = cm.doc[j]]_vars
  BY <1>1
<1> QED BY <1>2, InductiveInit, InductiveNext, PTL DEF Spec, EntriesSurvive

(* How a step of client c looks from outside. *)
LEMMA PhaseStep ==
    ASSUME Inductive, NEW c \in Clients, NEW next, Goto(c, next)
    PROVE  Phase' = [Phase EXCEPT ![c] =
                       IF next \in {"loadGet", "loadCreate"} THEN "loading"
                       ELSE IF next \in {"saveGet", "saveUpdate", "saveCreate"} THEN "saving"
                       ELSE next]
  BY DEF Inductive, TypeOK, Phase, Goto

(* A step from one API call to the next, and an error, are steps of the    *)
(* abstract store.                                                         *)
LEMMA QuietStep ==
    ASSUME Inductive, NEW c \in Clients, UNCHANGED <<cm, mine>>,
           \/ pc[c] \in {"loadGet", "loadCreate"} /\ (Goto(c, "loadGet") \/ Goto(c, "loadCreate"))
           \/ /\ pc[c] \in {"saveGet", "saveUpdate", "saveCreate"}
              /\ Goto(c, "saveGet") \/ Goto(c, "saveUpdate") \/ Goto(c, "saveCreate")
    PROVE  UNCHANGED Abstract!vars
<1>1. Durable' = Durable
  BY DEF Durable
<1>2. Phase' = Phase
  BY DEF Inductive, TypeOK, Phase, Goto
<1> QED BY <1>1, <1>2 DEF Abstract!vars

LEMMA FailStep ==
    ASSUME Inductive, NEW c \in Clients, pc[c] # "idle", Fail(c)
    PROVE  Abstract!Fail(c)
<1>1. Durable' = Durable
  BY DEF Fail, Durable
<1>2. Phase[c] # "idle" /\ Phase' = [Phase EXCEPT ![c] = "idle"]
  BY PhaseStep DEF Fail, Phase
<1> QED BY <1>1, <1>2 DEF Fail, Abstract!Fail

LEMMA RetryStep ==
    ASSUME Inductive, NEW c \in Clients, NEW start, Retry(c, start),
           \/ pc[c] \in {"loadGet", "loadCreate"} /\ start = "loadGet"
           \/ pc[c] \in {"saveGet", "saveUpdate", "saveCreate"} /\ start = "saveGet"
    PROVE  Abstract!Fail(c) \/ UNCHANGED Abstract!vars
<1>1. CASE attempt[c] + 1 < Steps
  BY <1>1, QuietStep DEF Retry
<1>2. CASE ~(attempt[c] + 1 < Steps)
  BY <1>2, FailStep DEF Retry
<1> QED BY <1>1, <1>2

(* A Load takes effect with its get, or with its create. *)
LEMMA LoadStep ==
    ASSUME Inductive, NEW c \in Clients, Load(c) \/ LoadGet(c) \/ LoadCreate(c)
    PROVE  [Abstract!Next]_(Abstract!vars)
<1>1. CASE Load(c)
  <2>1. Durable' = Durable
    BY <1>1 DEF Load, Durable
  <2>2. Phase[c] = "idle" /\ Phase' = [Phase EXCEPT ![c] = "loading"]
    BY <1>1, PhaseStep DEF Load, Phase
  <2>3. Abstract!CallLoad(c)
    BY <1>1, <2>1, <2>2 DEF Load, Abstract!CallLoad, Abstract!Goto
  <2> QED BY <2>3 DEF Abstract!Next
<1>2. CASE LoadGet(c) /\ cm = Missing
  <2>1. UNCHANGED Abstract!vars
    BY <1>2, QuietStep DEF LoadGet
  <2> QED BY <2>1
<1>3. CASE LoadGet(c) /\ cm # Missing /\ ~Decodes(cm.doc)
  <2>1. Abstract!Fail(c)
    BY <1>3, FailStep DEF LoadGet
  <2> QED BY <2>1 DEF Abstract!Next
<1>4. CASE LoadGet(c) /\ cm # Missing /\ Decodes(cm.doc)
  <2>1. LoadedWith(c, cm.doc) /\ UNCHANGED cm
    BY <1>4 DEF LoadGet
  <2>2. Durable = cm.doc /\ Durable' = cm.doc /\ cm.doc \in Documents
    BY <1>4, <2>1 DEF Durable, Decodes, Inductive, TypeOK, ConfigMaps
  <2>3. Durable # Malformed /\ Durable # Missing
    BY <2>2, StoreAssumption
  <2>4. Phase[c] = "loading" /\ Phase' = [Phase EXCEPT ![c] = "loaded"]
    BY <1>4, <2>1, PhaseStep DEF LoadGet, LoadedWith, Phase
  <2>5. Abstract!Load(c)
    BY <2>1, <2>2, <2>3, <2>4 DEF LoadedWith, Abstract!Load, Abstract!Goto
  <2> QED BY <2>5 DEF Abstract!Next
<1>5. CASE LoadCreate(c) /\ cm = Missing
  <2>1. LoadedWith(c, NewDocument) /\ cm' = [doc |-> NewDocument, foreign |-> 0]
    BY <1>5 DEF LoadCreate, Write
  <2>2. Durable = Missing /\ Durable' = NewDocument /\ Missing # Malformed
    BY <1>5, <2>1, Typed, StoreAssumption DEF Durable, Decodes
  <2>3. Phase[c] = "loading" /\ Phase' = [Phase EXCEPT ![c] = "loaded"]
    BY <1>5, <2>1, PhaseStep DEF LoadCreate, LoadedWith, Phase
  <2>4. Abstract!Load(c)
    BY <2>1, <2>2, <2>3 DEF LoadedWith, Abstract!Load, Abstract!Goto
  <2> QED BY <2>4 DEF Abstract!Next
<1>6. CASE LoadCreate(c) /\ cm # Missing
  <2>1. Abstract!Fail(c) \/ UNCHANGED Abstract!vars
    BY <1>6, RetryStep DEF LoadCreate
  <2> QED BY <2>1 DEF Abstract!Next
<1> QED BY <1>1, <1>2, <1>3, <1>4, <1>5, <1>6 DEF LoadGet

(* The caller's edit. *)
LEMMA EditStep ==
    ASSUME Inductive, NEW c \in Clients, NEW k \in Keys,
           NEW v \in Values \cup {Absent}, Save(c, k, v)
    PROVE  Abstract!Next
<1> DEFINE d == [mine[c] EXCEPT ![k] = v]
<1>0. d \in Documents
  BY DEF Inductive, TypeOK, Documents
<1>1. CASE ~ValidateDocument(d)
  <2>1. Abstract!Fail(c)
    BY <1>1, FailStep DEF Save
  <2> QED BY <2>1 DEF Abstract!Next
<1>2. CASE ValidateDocument(d)
  <2> HIDE DEF d
  <2>1. mine' = [mine EXCEPT ![c] = d] /\ Goto(c, "saveGet") /\ pc[c] = "loaded" /\ UNCHANGED cm
    BY <1>2 DEF Save, d
  <2>2. Durable' = Durable
    BY <2>1 DEF Durable
  <2>3. Phase[c] = "loaded" /\ Phase' = [Phase EXCEPT ![c] = "saving"]
    BY <2>1, PhaseStep DEF Phase
  <2>4. Abstract!CallSave(c)
    BY <1>0, <1>2, <2>1, <2>2, <2>3 DEF Abstract!CallSave, Abstract!Goto
  <2> QED BY <2>4 DEF Abstract!Next
<1> QED BY <1>1, <1>2

(* A Save takes effect with its update, or with its create. *)
LEMMA WriteStep ==
    ASSUME Inductive, NEW c \in Clients, NEW f \in Foreign, Saved(c),
           pc[c] \in {"saveUpdate", "saveCreate"}, Durable # Malformed,
           Write([doc |-> mine[c], foreign |-> f])
    PROVE  Abstract!Save(c)
<1>1. mine[c] \in Documents /\ Decodes(mine[c])
  BY StoreAssumption DEF Inductive, TypeOK, Sound, Decodes
<1>2. cm' # Missing /\ cm'.doc = mine[c]
  BY <1>1, Typed, StoreAssumption DEF Write
<1>3. Durable' = mine[c]
  <2>1. Decodes(cm'.doc)
    BY <1>1, <1>2
  <2> QED BY <1>2, <2>1 DEF Durable, Decodes
<1>4. Phase[c] = "saving" /\ Phase' = [Phase EXCEPT ![c] = "loaded"]
  BY PhaseStep DEF Saved, Phase
<1> QED BY <1>3, <1>4 DEF Saved, Abstract!Save, Abstract!Goto

LEMMA SaveStep ==
    ASSUME Inductive, NEW c \in Clients, SaveGet(c) \/ SaveUpdate(c) \/ SaveCreate(c)
    PROVE  [Abstract!Next]_(Abstract!vars)
<1>1. CASE SaveGet(c)
  <2>1. Abstract!Fail(c) \/ UNCHANGED Abstract!vars
    BY <1>1, FailStep, QuietStep DEF SaveGet
  <2> QED BY <2>1 DEF Abstract!Next
<1>2. CASE SaveUpdate(c) /\ fresh[c]
  <2>1. cm # Missing /\ Decodes(cm.doc) /\ copy[c] \in Foreign
    BY <1>2 DEF Inductive, TypeOK, Checked
  <2>2. Durable # Malformed
    BY <2>1 DEF Durable, Decodes
  <2>3. Abstract!Save(c)
    BY <1>2, <2>1, <2>2, WriteStep DEF SaveUpdate
  <2> QED BY <2>3 DEF Abstract!Next
<1>3. CASE SaveUpdate(c) /\ ~fresh[c]
  <2>1. Abstract!Fail(c) \/ UNCHANGED Abstract!vars
    BY <1>3, FailStep, RetryStep DEF SaveUpdate
  <2> QED BY <2>1 DEF Abstract!Next
<1>4. CASE SaveCreate(c)
  <2>1. CASE cm = Missing /\ ~Exceeded(mine[c], 0)
    <3>1. Durable # Malformed
      BY <2>1, StoreAssumption DEF Durable
    <3>2. Abstract!Save(c)
      BY <1>4, <2>1, <3>1, Typed, WriteStep DEF SaveCreate
    <3> QED BY <3>2 DEF Abstract!Next
  <2>2. CASE ~(cm = Missing /\ ~Exceeded(mine[c], 0))
    <3>1. Abstract!Fail(c) \/ UNCHANGED Abstract!vars
      BY <1>4, <2>2, FailStep, RetryStep DEF SaveCreate
    <3> QED BY <3>1 DEF Abstract!Next
  <2> QED BY <2>1, <2>2
<1> QED BY <1>1, <1>2, <1>3, <1>4

(* Load and Save of any number of clients look atomic, whatever other      *)
(* writers, conflicts and crashes come between their API calls.            *)
THEOREM Implements == Spec => ImplementsDurableStore
<1>1. Init => Abstract!Init
  BY DEF Init, Abstract!Init, Durable, Phase
<1>2. ASSUME Inductive, [Next]_vars PROVE [Abstract!Next]_(Abstract!vars)
  <2>1. ASSUME NEW c \in Clients, Load(c) \/ Call(c) \/ Leave(c)
        PROVE  [Abstract!Next]_(Abstract!vars)
    <3>1. CASE Leave(c)
      <4>1. Abstract!Fail(c)
        BY <1>2, <3>1, FailStep DEF Leave
      <4> QED BY <4>1 DEF Abstract!Next
    <3> QED BY <1>2, <2>1, <3>1, LoadStep, SaveStep DEF Call
  <2>2. ASSUME NEW c \in Clients, NEW k \in Keys, NEW v \in Values \cup {Absent}, Save(c, k, v)
        PROVE  Abstract!Next
    BY <1>2, <2>2, EditStep
  <2>3. CASE OthersWrite
    <3>1. UNCHANGED <<pc, mine>> /\ cm' \in ConfigMaps \cup {Missing}
      BY <1>2, <2>3, InductiveNext DEF OthersWrite, Inductive, TypeOK
    <3>2. Phase' = Phase
      BY <3>1 DEF Phase
    <3>3. Durable' \in {d \in Documents : ValidateDocument(d)} \cup {Malformed, Missing}
      BY <3>1 DEF Durable, Decodes, ConfigMaps
    <3>4. Abstract!OthersWrite
      BY <3>1, <3>2, <3>3 DEF Abstract!OthersWrite
    <3> QED BY <3>4 DEF Abstract!Next
  <2>4. CASE UNCHANGED vars
    <3>1. UNCHANGED Abstract!vars
      BY <2>4 DEF vars, Abstract!vars, Durable, Phase
    <3> QED BY <3>1
  <2> QED BY <1>2, <2>1, <2>2, <2>3, <2>4 DEF Next
<1> QED BY <1>1, <1>2, InductiveInit, InductiveNext, PTL
        DEF Spec, ImplementsDurableStore, Abstract!Spec
=============================================================================
