------------------------------- MODULE MCProxy -------------------------------
(***************************************************************************)
(* Small instances of Proxy.                                               *)
(***************************************************************************)
EXTENDS Proxy

BothSockets == {In, Out}

AllCallbacks ==
  {PurgeCb, CliClosedCb, ConnectCb} \cup {MonitorCb(s, k) : s \in BothSockets, k \in 1..MaxMonitor}

===============================================================================
