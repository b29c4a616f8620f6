---------------------------- MODULE MCActorTurn ----------------------------
(***************************************************************************)
(* Scenarios for ActorTurn: each has the events of one or two features and *)
(* a stop, so that the features' steps interleave with the stop and with   *)
(* Run.                                                                    *)
(***************************************************************************)
EXTENDS ActorTurn

Scenario(events, run, restored, drains, faults) ==
  [events |-> events, run |-> run, restored |-> restored, draining |-> drains, faults |-> faults]

MCScenarios ==
  LET c == CHOOSE x \in Conns : TRUE
      h == CHOOSE x \in Hibernatable : TRUE
      s == CHOOSE x \in Sockets \ Hibernatable : TRUE
      Call == {Event("action", c), Event("action", None)}
      Connection == {Event("preflight", c), Event("connOpen", c), Event("connClose", c)}
      Stop == {Event("stop", None)}
      Sleep == {Event("sleep", None)}
      Socket(x) == {Event("wsOpen", x), Event("wsMessage", x), Event("wsClose", x)}
      Request == {Event("http", None), Event("chunk", None), Event("lastChunk", None)}
  IN {Scenario(Connection \cup Call \cup Stop, TRUE, {}, FALSE, FALSE),
      Scenario({Event("action", c), Event("alarm", None)} \cup Sleep, TRUE, {c}, FALSE, TRUE),
      Scenario(Socket(h) \cup {Event("wsOpen", s)} \cup Sleep, FALSE, {}, TRUE, FALSE),
      Scenario(Socket(s) \cup {Event("wsOpen", h)} \cup Stop, TRUE, {}, FALSE, FALSE),
      Scenario({Event("wsResume", h), Event("wsMessage", h)} \cup Sleep, FALSE, {h}, FALSE, TRUE),
      Scenario(Request \cup {Event("abort", None)} \cup Stop, FALSE, {}, FALSE, TRUE)}

=============================================================================
