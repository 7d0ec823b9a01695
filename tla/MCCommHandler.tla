---------------------------- MODULE MCCommHandler ----------------------------
(***************************************************************************)
(* Small instances of CommHandler: a few callbacks for every socket.       *)
(***************************************************************************)
EXTENDS CommHandler

CONSTANTS PerClient, PerServer  \* how often a socket is registered (bounds)

Registrations ==
  (Clients \X (1..PerClient)) \cup ({Server} \X (1..PerServer))

===============================================================================
