----------------------------- MODULE JobIdFactory -----------------------------
(***************************************************************************)
(* JobIdFactory of job.h on the Counter of synchronization.cc: a call      *)
(* increments the counter and then, with its lock taken a second time,     *)
(* reads it.  Callers are the threads of the communication handler that    *)
(* accept connections, and those that submit work to an executor.          *)
(***************************************************************************)
EXTENDS Naturals

CONSTANTS
  Calls,  \* calls of CreateJobId
  Seed    \* the seed of the factory

ASSUME SeedAssumption == Seed \in Nat

VARIABLES
  last_id,  \* _last_id
  call,     \* [Calls -> progress]
  id,       \* [Calls -> what it returned]
  earlier   \* [Calls -> the calls that had returned when it began]

idvars == <<last_id, call, id, earlier>>

IdsTypeOK ==
  /\ last_id \in Nat
  /\ call \in [Calls -> {"new", "incremented", "returned"}]
  /\ id \in [Calls -> Nat]
  /\ earlier \in [Calls -> SUBSET Calls]

IdsInit ==
  /\ last_id = Seed
  /\ call = [c \in Calls |-> "new"]
  /\ id = [c \in Calls |-> 0]
  /\ earlier = [c \in Calls |-> {}]

Returned == {c \in Calls : call[c] = "returned"}

\* _last_id.Increment(), whose result is not used.
Increment(c) ==
  /\ call[c] = "new"
  /\ call' = [call EXCEPT ![c] = "incremented"]
  /\ last_id' = last_id + 1
  /\ earlier' = [earlier EXCEPT ![c] = Returned]
  /\ UNCHANGED id

\* return _last_id.Count()
Count(c) ==
  /\ call[c] = "incremented"
  /\ call' = [call EXCEPT ![c] = "returned"]
  /\ id' = [id EXCEPT ![c] = last_id]
  /\ UNCHANGED <<last_id, earlier>>

CreateJobId(c) == Increment(c) \/ Count(c)

IdsNext == \E c \in Calls : CreateJobId(c)

IdsSpec == IdsInit /\ [][IdsNext]_idvars

-------------------------------------------------------------------------------
\* A call that begins after another one has returned gets a larger id: only calls
\* of CreateJobId that overlap can be given the same one.
LaterIsLarger ==
  \A c, d \in Calls :
    call[d] = "returned" /\ c \in earlier[d] => id[c] < id[d]

===============================================================================
