---------------------------- MODULE DurableStore ----------------------------
(***************************************************************************)
(* What a StateStore promises its callers (internal/state/types.go): Load  *)
(* and Save act on one durable document, each at one instant.  "Save must  *)
(* not report success until the document is durable"; an error leaves the  *)
(* caller with nothing; a document that cannot be decoded is never         *)
(* replaced.  StateStore implements this with several calls to an API      *)
(* server.                                                                 *)
(***************************************************************************)
CONSTANTS
    Clients,
    Documents,   \* documents that can be loaded
    Empty,       \* the one among them a first Load creates
    Broken,      \* a document that cannot be loaded
    Missing      \* no document

VARIABLES
    durable,  \* the durable document, Broken or Missing
    phase,    \* per client: what it is doing
    view      \* per client: its copy of the document

vars == <<durable, phase, view>>

Init ==
    /\ durable = Missing
    /\ phase = [c \in Clients |-> "idle"]
    /\ view = [c \in Clients |-> Empty]

Goto(c, from, to) == phase[c] = from /\ phase' = [phase EXCEPT ![c] = to]

CallLoad(c) == Goto(c, "idle", "loading") /\ UNCHANGED <<durable, view>>

(* Load returns the durable document, and creates it if there is none. *)
Load(c) ==
    /\ Goto(c, "loading", "loaded")
    /\ durable # Broken
    /\ durable' = IF durable = Missing THEN Empty ELSE durable
    /\ view' = [view EXCEPT ![c] = durable']

(* The caller edits its copy and calls Save. *)
CallSave(c) ==
    /\ Goto(c, "loaded", "saving")
    /\ \E d \in Documents : view' = [view EXCEPT ![c] = d]
    /\ UNCHANGED durable

Save(c) ==
    /\ Goto(c, "saving", "loaded")
    /\ durable # Broken
    /\ durable' = view[c]
    /\ UNCHANGED view

(* An error, or the end of the caller. *)
Fail(c) ==
    /\ phase[c] # "idle" /\ phase' = [phase EXCEPT ![c] = "idle"]
    /\ view' = [view EXCEPT ![c] = Empty]
    /\ UNCHANGED durable

OthersWrite ==
    /\ durable' \in Documents \cup {Broken, Missing}
    /\ UNCHANGED <<phase, view>>

Next ==
    \/ \E c \in Clients : CallLoad(c) \/ Load(c) \/ CallSave(c) \/ Save(c) \/ Fail(c)
    \/ OthersWrite

Spec == Init /\ [][Next]_vars
=============================================================================
