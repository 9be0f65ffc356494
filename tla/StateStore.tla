----------------------------- MODULE StateStore -----------------------------
(***************************************************************************)
(* The ConfigMap state store (internal/state/configmap.go): Load and Save  *)
(* of the whole state document, each a get followed by a create or an      *)
(* update guarded by the resourceVersion, retried a bounded number of      *)
(* times on a conflict.                                                    *)
(*                                                                         *)
(* Clients are controller processes that hold leadership, or still believe *)
(* they do.  Other writers edit, corrupt, delete and restore the ConfigMap *)
(* between any two API calls.  Instead of a resourceVersion a client has a *)
(* flag that says whether the object is still the one it got; so the model *)
(* has no counter to bound.                                                *)
(*                                                                         *)
(* A document is a function from workload keys to entries; its encoding is *)
(* its size.  Of an entry only its two times are kept, which depend on the *)
(* wall clock, and whether the rest of it is well formed; a payload that   *)
(* is no document at all is Malformed (missing states.json, invalid JSON,  *)
(* unknown fields or version).                                             *)
(***************************************************************************)
EXTENDS Integers

CONSTANTS
    Clients, Keys,
    Values,      \* entries: [firstSeen, lastSeen, wellFormed]
    Absent,      \* a key without an entry
    Malformed,   \* a payload that is no document
    Missing,     \* no ConfigMap
    Size(_),     \* bytes of an encoded document
    Foreign,     \* possible bytes of the other data of the ConfigMap
    Limit,       \* ConfigMapMaxDataBytes
    Steps        \* ConflictBackoff.Steps

Documents == [Keys -> Values \cup {Absent}]
NewDocument == [k \in Keys |-> Absent]
ConfigMaps == [doc : Documents \cup {Malformed}, foreign : Foreign]

(* validateWorkloadState: identity, hashes, containers and snapshot are    *)
(* well formed, and the times are set and in order.                        *)
validateWorkloadState(e) ==
    /\ e.wellFormed
    /\ e.firstSeen # 0 /\ e.lastSeen # 0 /\ e.firstSeen <= e.lastSeen

ValidateDocument(d) == \A k \in Keys : d[k] # Absent => validateWorkloadState(d[k])

(* DecodeDocument succeeds. *)
Decodes(payload) == payload # Malformed /\ ValidateDocument(payload)

ASSUME StoreAssumption ==
    /\ Malformed \notin Documents
    /\ Missing \notin ConfigMaps \cup Documents \cup {Malformed}
    /\ \A d \in Documents : Size(d) \in Nat
    /\ Size(NewDocument) <= Limit
    /\ Foreign \subseteq Nat /\ 0 \in Foreign
    /\ Limit \in Nat /\ Steps \in Nat \ {0}

VARIABLES
    cm,       \* the ConfigMap, or Missing
    pc,       \* per client: the next API call; "loaded" between operations
    attempt,  \* per client: retries of the operation so far
    mine,     \* per client: the document it loaded and edits
    copy,     \* per client: the other data of the ConfigMap it got
    fresh,    \* per client: the ConfigMap has not changed since it got it
    alone     \* observer, per client: nobody else wrote since it loaded

vars == <<cm, pc, attempt, mine, copy, fresh, alone>>

Init ==
    /\ cm = Missing
    /\ pc = [c \in Clients |-> "idle"]
    /\ attempt = [c \in Clients |-> 0]
    /\ mine = [c \in Clients |-> NewDocument]
    /\ copy = [c \in Clients |-> 0]
    /\ fresh = [c \in Clients |-> FALSE]
    /\ alone = [c \in Clients |-> FALSE]

-----------------------------------------------------------------------------

(* observeCapacity and MeasureCapacity. *)
Exceeded(doc, foreign) == Size(doc) + foreign > Limit

Goto(c, next) == pc' = [pc EXCEPT ![c] = next]

(* A write bumps the resourceVersion of every copy. *)
Write(new) == cm' = new /\ fresh' = [c \in Clients |-> FALSE]

(* Only the clients in writers have seen the document it leaves. *)
SeenBy(writers) == alone' = [c \in Clients |-> c \in writers /\ alone[c]]

(* The locals of a finished call are gone. *)
DropCopy(c) ==
    /\ attempt' = [attempt EXCEPT ![c] = 0]
    /\ copy' = [copy EXCEPT ![c] = 0]

(* An error that is not retried ends the operation and the reconcile. *)
Fail(c) ==
    /\ Goto(c, "idle")
    /\ DropCopy(c)
    /\ mine' = [mine EXCEPT ![c] = NewDocument]
    /\ fresh' = [fresh EXCEPT ![c] = FALSE]
    /\ alone' = [alone EXCEPT ![c] = FALSE]
    /\ UNCHANGED cm

(* Slips: a retry too many; no end of retries; success after the last. *)
RetryOnceMore(c, start) ==
    IF attempt[c] + 1 <= Steps
    THEN /\ Goto(c, start)
         /\ attempt' = [attempt EXCEPT ![c] = @ + 1]
         /\ copy' = [copy EXCEPT ![c] = 0]
         /\ UNCHANGED <<cm, mine, fresh, alone>>
    ELSE Fail(c)

RetryForever(c, start) ==
    /\ Goto(c, start)
    /\ copy' = [copy EXCEPT ![c] = 0]
    /\ UNCHANGED <<cm, attempt, mine, fresh, alone>>

RetryThenSucceed(c, start) ==
    /\ IF attempt[c] + 1 < Steps
       THEN Goto(c, start) /\ attempt' = [attempt EXCEPT ![c] = @ + 1]
       ELSE Goto(c, "loaded") /\ attempt' = [attempt EXCEPT ![c] = 0]
    /\ copy' = [copy EXCEPT ![c] = 0]
    /\ UNCHANGED <<cm, mine, fresh, alone>>

(* retry: after a conflict start over from the get, Steps times in all. *)
Retry(c, start) ==
    IF attempt[c] + 1 < Steps
    THEN /\ Goto(c, start)
         /\ attempt' = [attempt EXCEPT ![c] = @ + 1]
         /\ copy' = [copy EXCEPT ![c] = 0]
         /\ UNCHANGED <<cm, mine, fresh, alone>>
    ELSE Fail(c)

LoadedWith(c, doc) ==
    /\ Goto(c, "loaded")
    /\ mine' = [mine EXCEPT ![c] = doc]
    /\ DropCopy(c)

Load(c) ==
    /\ pc[c] = "idle"
    /\ Goto(c, "loadGet")
    /\ UNCHANGED <<cm, attempt, mine, copy, fresh, alone>>

LoadGet(c) ==
    /\ pc[c] = "loadGet"
    /\ \/ cm = Missing /\ Goto(c, "loadCreate")
          /\ UNCHANGED <<cm, attempt, mine, copy, fresh, alone>>
       \/ cm # Missing /\ ~Decodes(cm.doc) /\ Fail(c)
       \/ /\ cm # Missing /\ Decodes(cm.doc)
          /\ LoadedWith(c, cm.doc)
          /\ alone' = [alone EXCEPT ![c] = TRUE]
          /\ UNCHANGED <<cm, fresh>>

(* Slip: a ConfigMap that has appeared meanwhile is taken to be empty. *)
LoadCreateExists(c) ==
    /\ pc[c] = "loadCreate"
    /\ cm' = IF cm = Missing THEN [doc |-> NewDocument, foreign |-> 0] ELSE cm
    /\ LoadedWith(c, NewDocument)
    /\ fresh' = IF cm = Missing THEN [x \in Clients |-> FALSE] ELSE fresh
    /\ alone' = [x \in Clients |-> x = c \/ (cm # Missing /\ alone[x])]

LoadCreate(c) ==
    /\ pc[c] = "loadCreate"
    /\ IF cm = Missing
       THEN /\ Write([doc |-> NewDocument, foreign |-> 0])
            /\ LoadedWith(c, NewDocument)
            /\ alone' = [x \in Clients |-> x = c]
       ELSE Retry(c, "loadGet")

(* The caller sets or deletes one entry of its document and saves it.  An  *)
(* entry may be invalid: its lastSeen is now, and the clock may have been  *)
(* set back since its firstSeen.  EncodeDocument then fails.               *)
Save(c, k, v) ==
    /\ pc[c] = "loaded"
    /\ IF ValidateDocument([mine[c] EXCEPT ![k] = v])
       THEN /\ mine' = [mine EXCEPT ![c][k] = v]
            /\ Goto(c, "saveGet")
            /\ UNCHANGED <<cm, attempt, copy, fresh, alone>>
       ELSE Fail(c)

(* Slips: the document in the ConfigMap is not decoded before it is        *)
(* replaced; the capacity is not checked before the update.                *)
SaveGetUndecoded(c) ==
    /\ pc[c] = "saveGet"
    /\ cm # Missing
    /\ ~Exceeded(mine[c], cm.foreign)
    /\ Goto(c, "saveUpdate")
    /\ copy' = [copy EXCEPT ![c] = cm.foreign]
    /\ fresh' = [fresh EXCEPT ![c] = TRUE]
    /\ UNCHANGED <<cm, attempt, mine, alone>>

SaveGetUnmeasured(c) ==
    /\ pc[c] = "saveGet"
    /\ cm # Missing /\ Decodes(cm.doc)
    /\ Goto(c, "saveUpdate")
    /\ copy' = [copy EXCEPT ![c] = cm.foreign]
    /\ fresh' = [fresh EXCEPT ![c] = TRUE]
    /\ UNCHANGED <<cm, attempt, mine, alone>>

SaveGet(c) ==
    /\ pc[c] = "saveGet"
    /\ \/ cm = Missing /\ Goto(c, "saveCreate")
          /\ UNCHANGED <<cm, attempt, mine, copy, fresh, alone>>
       \/ /\ cm # Missing
          /\ ~Decodes(cm.doc) \/ Exceeded(mine[c], cm.foreign)
          /\ Fail(c)
       \/ /\ cm # Missing
          /\ Decodes(cm.doc) /\ ~Exceeded(mine[c], cm.foreign)
          /\ Goto(c, "saveUpdate")
          /\ copy' = [copy EXCEPT ![c] = cm.foreign]
          /\ fresh' = [fresh EXCEPT ![c] = TRUE]
          /\ UNCHANGED <<cm, attempt, mine, alone>>

(* The caller goes on with the document it saved. *)
Saved(c) == Goto(c, "loaded") /\ DropCopy(c) /\ SeenBy({c}) /\ UNCHANGED mine

SaveUpdate(c) ==
    /\ pc[c] = "saveUpdate"
    /\ \/ /\ fresh[c]
          /\ Write([doc |-> mine[c], foreign |-> copy[c]])
          /\ Saved(c)
       \/ ~fresh[c] /\ cm = Missing /\ Fail(c)
       \/ ~fresh[c] /\ cm # Missing /\ Retry(c, "saveGet")

SaveCreate(c) ==
    /\ pc[c] = "saveCreate"
    /\ \/ Exceeded(mine[c], 0) /\ Fail(c)
       \/ /\ ~Exceeded(mine[c], 0) /\ cm = Missing
          /\ Write([doc |-> mine[c], foreign |-> 0])
          /\ Saved(c)
       \/ ~Exceeded(mine[c], 0) /\ cm # Missing /\ Retry(c, "saveGet")

(* The reconcile is over, its context was cancelled, an API call failed or *)
(* the process crashed.                                                    *)
Leave(c) == pc[c] # "idle" /\ Fail(c)

(* Somebody else edits the other data, breaks, deletes or restores it. *)
OthersWrite ==
    /\ \/ cm # Missing /\ \E f \in Foreign : Write([cm EXCEPT !.foreign = f])
       \/ cm # Missing /\ Write([cm EXCEPT !.doc = Malformed])
       \/ cm # Missing /\ Write(Missing)
       \/ /\ cm = Missing
          /\ \E d \in Documents \cup {Malformed} : Write([doc |-> d, foreign |-> 0])
    /\ SeenBy({})
    /\ UNCHANGED <<pc, attempt, mine, copy>>

Call(c) == LoadGet(c) \/ LoadCreate(c) \/ SaveGet(c) \/ SaveUpdate(c) \/ SaveCreate(c)

Next ==
    \/ \E c \in Clients :
          \/ Load(c) \/ Call(c) \/ Leave(c)
          \/ \E k \in Keys, v \in Values \cup {Absent} : Save(c, k, v)
    \/ OthersWrite

Spec == Init /\ [][Next]_vars

(* A started operation goes on: the calls are made by one goroutine. *)
FairSpec == Spec /\ \A c \in Clients : WF_vars(Call(c))

-----------------------------------------------------------------------------

(* Every variable has its type; in particular an operation is tried at     *)
(* most Steps times (retry).                                               *)
TypeOK ==
    /\ cm \in ConfigMaps \cup {Missing}
    /\ pc \in [Clients -> {"idle", "loadGet", "loadCreate", "loaded",
                           "saveGet", "saveUpdate", "saveCreate"}]
    /\ attempt \in [Clients -> 0 .. Steps - 1]
    /\ mine \in [Clients -> Documents]
    /\ copy \in [Clients -> Foreign]
    /\ fresh \in [Clients -> BOOLEAN] /\ alone \in [Clients -> BOOLEAN]

(* A step of a client, as opposed to one of the other writers. *)
ClientStep == pc' # pc

(* No Load or Save replaces a document that does not decode, whenever it   *)
(* became so: also one that broke, or appeared, between the get and the    *)
(* write of a Save ("never replace malformed persisted state", Save).      *)
MalformedIsKept == [][
    cm # Missing /\ cm' # cm /\ ClientStep => Decodes(cm.doc)]_vars

(* What a client writes fits the ConfigMap together with the other data in *)
(* it at that moment, and leaves that data alone (observeCapacity, Save).  *)
WritesFit == [][
    cm' # cm /\ ClientStep =>
      /\ ~Exceeded(cm'.doc, cm'.foreign)
      /\ cm # Missing => cm'.foreign = cm.foreign]_vars

(* A write takes back no entry but the one it is for, unless another       *)
(* writer came between the client's Load and it: Save compares versions    *)
(* with those of its own get, and so would not notice (Save).              *)
EntriesSurvive == [][\A c \in Clients :
    cm' # cm /\ pc'[c] # pc[c] /\ alone[c] =>
      \E k \in Keys : \A j \in Keys \ {k} : cm'.doc[j] = cm.doc[j]]_vars

(* The document a Load would find, and what a client is doing, for callers *)
(* that cannot see the single API calls.                                   *)
Durable ==
    IF cm = Missing THEN Missing ELSE IF Decodes(cm.doc) THEN cm.doc ELSE Malformed

Phase ==
    [c \in Clients |->
       IF pc[c] \in {"loadGet", "loadCreate"} THEN "loading"
       ELSE IF pc[c] \in {"saveGet", "saveUpdate", "saveCreate"} THEN "saving"
       ELSE pc[c]]

Abstract == INSTANCE DurableStore WITH
    Documents <- {d \in Documents : ValidateDocument(d)},
    Empty     <- NewDocument,
    Broken    <- Malformed,
    durable   <- Durable,
    phase     <- Phase,
    view      <- mine

(* Load and Save are atomic: they report success only for a document that  *)
(* is durable at that moment, also after conflicts and at the last retry,  *)
(* and after an error the document is what it was, or, when the reply of a *)
(* write is lost, as after a whole Save whose client then left (Load, Save,*)
(* retry).                                                                 *)
ImplementsDurableStore == Abstract!Spec

(* Every Load and every Save returns, however often others write between   *)
(* its get and its write (retry).                                          *)
OperationsReturn == \A c \in Clients :
    pc[c] \notin {"idle", "loaded"} ~> pc[c] \in {"idle", "loaded"}
=============================================================================
