--------------------------- MODULE MCOrchestrator ---------------------------
(* Constants for model checking Orchestrator. *)
EXTENDS Orchestrator

CONSTANTS
    Texts,                       \* the kinds of the successive policy texts
    WorkloadChanges, HPAChanges  \* bounds: changes of each workload, of each HPA

Target(selector, namePatterns) ==
    [kinds |-> <<"Deployment", "StatefulSet">>,
     selector |-> selector, namePatterns |-> namePatterns]

Text(policies) == [supported |-> TRUE, policies |-> policies]

Night == [name |-> 1, startDays |-> <<0, 1>>, allDay |-> FALSE, start |-> 3, end |-> 1]
Off   == [name |-> 2, startDays |-> <<5>>, allDay |-> TRUE, start |-> Unset, end |-> Unset]

(* Everything by a label, with all the defaults. *)
Base ==
    [name |-> "base", priority |-> 1,
     target |-> Target(<<[key |-> "tier", operator |-> "In", values |-> <<"dev">>]>>, Unset),
     lifecycle |-> Unset, replicas |-> Unset, schedule |-> Unset]

(* By name, with an empty selector and everything configured. *)
Named(priority) ==
    [name |-> "named", priority |-> priority,
     target |-> Target(<<>>, <<"d">>),
     lifecycle |-> [maxAge |-> 5, source |-> Unset, containers |-> <<"app">>,
                    expiredAction |-> "delete"],
     replicas |-> [scheduledDown |-> 1, expired |-> Unset],
     schedule |-> [timeZone |-> "UTC", downWindows |-> <<Night, Off>>]]

Negative == [Base EXCEPT !.replicas = [scheduledDown |-> Unset, expired |-> -1]]

MCPayload(r) ==
    CASE Texts[r] = "higher"   -> Text(<<Base, Named(2)>>)
      [] Texts[r] = "tie"      -> Text(<<Base, Named(1)>>)
      [] Texts[r] = "negative" -> Text(<<Named(2), Negative>>)

MCInvalidBetween == <<"tie", "negative", "higher">>
MCTieThenHigher  == <<"tie", "higher">>

(* Every workload has the label. *)
MCLabels(k, r) == [tier |-> "dev"]
MCFullMatch(pattern, name) == pattern = name

MCMaxRev(o) == CASE o \in Keys -> 1 + WorkloadChanges
                 [] o \in HPAs -> 1 + HPAChanges
                 [] o = "policies" -> Len(Texts)

(* The HPA has a target until it changes. *)
MCHPATarget(h, r) == IF r = 1 THEN CHOOSE k \in Keys : TRUE ELSE None
=============================================================================
