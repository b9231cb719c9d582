------------------------------ MODULE MCPeers ------------------------------
(***************************************************************************)
(* An instance of Peers for TLC: a remote node that listens on "s", a seed *)
(* of ours, to which two outbound connections may be opened at a time, and *)
(* which connects to us from an ephemeral port; and a second inbound peer  *)
(* for one inbound slot.                                                   *)
(***************************************************************************)
EXTENDS Peers

MCConns == {"o1", "o2", "i1", "i2"}
MCInbound == {"i1", "i2"}
MCAddr == [o1 |-> "s", o2 |-> "s", i1 |-> "p", i2 |-> "q"]
MCAddrFrom == [o1 |-> "s", o2 |-> "s", i1 |-> "s", i2 |-> "t"]
MCIp == [s |-> "1", p |-> "1", q |-> "1"]
MCScenarios == {{"o1", "o2"}, {"o1", "i1"}, {"i1", "i2"}}
=============================================================================
