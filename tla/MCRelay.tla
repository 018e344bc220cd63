------------------------------ MODULE MCRelay ------------------------------
(* Relay on small instances: see Relay.cfg and RelayLetIn.cfg for the bounds. *)
EXTENDS Relay

Deployed == [token |-> TRUE, enabled |-> TRUE, irc |-> "on"]

Bounds(updates, commands, events, connections, failures, processes, nights) ==
  [updates |-> updates, said |-> commands, events |-> events, links |-> connections,
   faults |-> failures, starts |-> processes, days |-> nights]

Scenario(c, aNews, b) == [conf |-> c, news |-> aNews, bound |-> b]

\* A bot that restarts with messages pending; two that lose their link to IRC, with
\* something to say there and with two answers on their way; one that restarts with news
\* to tell; one that restarts with somebody blocked, or let in again; and the bots that
\* do not poll, for want of IRC's channel, of a token or of anything to do.
MCScenarios ==
  {Scenario(Deployed, FALSE, Bounds(2, 0, 0, 0, 2, 2, 0)),
   Scenario(Deployed, FALSE, Bounds(1, 0, 2, 2, 1, 1, 0)),
   Scenario(Deployed, FALSE, Bounds(0, 2, 0, 2, 1, 1, 0)),
   Scenario(Deployed, TRUE, Bounds(0, 1, 1, 1, 1, 2, 0)),
   Scenario([Deployed EXCEPT !.irc = "off"], FALSE, Bounds(1, 0, 0, 0, 1, 2, 1)),
   Scenario([Deployed EXCEPT !.irc = "missing"], TRUE, Bounds(1, 1, 2, 0, 1, 1, 0)),
   Scenario([Deployed EXCEPT !.token = FALSE], FALSE, Bounds(1, 1, 1, 1, 1, 1, 0)),
   Scenario([Deployed EXCEPT !.enabled = FALSE, !.irc = "off"], FALSE,
            Bounds(1, 1, 1, 0, 1, 1, 0))}

\* A bot that stops and starts again while an owner lets somebody in.
MCLetIn == {Scenario(Deployed, FALSE, Bounds(1, 0, 0, 0, 0, 2, 1))}
=============================================================================
