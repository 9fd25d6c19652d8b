------------------------------ MODULE Registry ------------------------------
(***************************************************************************)
(* What sharing a database promises (libwacom_database_ref and _unref,      *)
(* libwacom_new_from_*, libwacom_destroy), each call as one step: devices    *)
(* are taken from a database that is open by those who have a reference to   *)
(* it; it is closed once, after the last reference; a device taken is its    *)
(* owner's until that one destroys it, whether the database is open or not.  *)
(***************************************************************************)
EXTENDS Integers

CONSTANTS Thread, MaxDbRefs

VARIABLES
  refs,   \* references each thread has to the database
  taken,  \* the threads that have a device
  open
registryVars == <<refs, taken, open>>

RegistryInit ==
  /\ \E t \in Thread : refs = [u \in Thread |-> IF u = t THEN 1 ELSE 0]
  /\ taken = {}
  /\ open = TRUE

Ref(t, u) ==
  /\ refs[t] > 0 /\ refs[u] < MaxDbRefs
  /\ refs' = [refs EXCEPT ![u] = @ + 1]
  /\ UNCHANGED <<taken, open>>

Unref(t) ==
  /\ refs[t] > 0
  /\ refs' = [refs EXCEPT ![t] = @ - 1]
  /\ UNCHANGED <<taken, open>>

Take(t) ==
  /\ open /\ refs[t] > 0 /\ t \notin taken
  /\ taken' = taken \cup {t}
  /\ UNCHANGED <<refs, open>>

Give(t) ==
  /\ t \in taken
  /\ taken' = taken \ {t}
  /\ UNCHANGED <<refs, open>>

Close ==
  /\ open /\ \A t \in Thread : refs[t] = 0
  /\ open' = FALSE
  /\ UNCHANGED <<refs, taken>>

RegistryNext ==
  \/ \E t \in Thread : Unref(t) \/ Take(t) \/ Give(t) \/ \E u \in Thread : Ref(t, u)
  \/ Close

RegistrySpec == RegistryInit /\ [][RegistryNext]_registryVars
=============================================================================
