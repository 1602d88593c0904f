--------------------------- MODULE MCAssuranceCycle ---------------------------
(* Continuous assurance on three case identifiers and two releases.                *)
EXTENDS AssuranceCycle, TLC

Case(boundary, class, severity, expectation, traces) ==
    [boundary |-> boundary, attack_class |-> class, severity |-> severity,
     expectation |-> expectation, traces |-> traces]

Leak == Case("serving", "incident", 3, "BLOCK", {})
LeakTraced == Case("serving", "incident", 3, "BLOCK", {"i1"})
LeakCritical == Case("serving", "incident", 4, "BLOCK", {"i1"})
Escape == Case("tools", "general", 2, "BLOCK", {})
Benign == Case("serving", "safe_task", 1, "ALLOW", {})

MCDefinitions == {Leak, LeakTraced, LeakCritical, Escape, Benign}
MCInitialCases == [a |-> Leak, b |-> Escape]

(* The old release lets the incident happen; the new one has another weakness.     *)
MCMisses == [old |-> {LeakTraced, LeakCritical}, new |-> {Escape}]
MCDecision == [i1 |-> [action |-> "QUARANTINE", verified |-> TRUE,
                       signals |-> {"probe", "normal_query"}]]
MCControls ==
    {[mapped |-> {"a"}, boundaries |-> {"serving"}, severity |-> 4,
      exception_permitted |-> FALSE],
     [mapped |-> {"b"}, boundaries |-> {"tools"}, severity |-> 2,
      exception_permitted |-> TRUE]}
MCFloors == [critical |-> 0, high |-> 1, allow |-> 0,
             boundary |-> [serving |-> [block |-> 1, high |-> 1]]]

(* The three uses of the corpus do not touch each other's state, so a behaviour    *)
(* follows one of them: releases and findings next to one reviewed change of the   *)
(* corpus, incidents next to every change up to MaxVersion.                        *)
VARIABLE team

Reviewed == \A v \in evolution' : \A id \in DOMAIN v.manifest.changes :
                v.manifest.changes[id].reason = <<"review">>
OneChange == corpus.version = 1 /\ Evolve /\ Reviewed

MCInit == Init /\ team \in {"release", "finding", "incident"}
MCNext ==
    /\ \/ team = "release" /\ (ReleaseStep \/ OneChange \/ Adopt \/ Tick)
       \/ team = "finding" /\ (FindingStep \/ OneChange \/ Adopt \/ Tick)
       \/ team = "incident" /\ CorpusStep
    /\ UNCHANGED team
MCSpec == MCInit /\ [][MCNext]_<<vars, team>>
=============================================================================
