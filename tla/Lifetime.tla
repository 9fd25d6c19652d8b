------------------------------ MODULE Lifetime ------------------------------
(***************************************************************************)
(* The reference counts of libwacom.c and libwacom-database.c under threads *)
(* that share one database.  A thread takes and drops references to the     *)
(* database, and makes and destroys copies of its device (libwacom_copy,    *)
(* libwacom_set_default_match, libwacom_destroy).  A copy shares the        *)
(* WacomMatch objects of the device and counts a reference to each, so it   *)
(* outlives the database; the last reference to the database starts the     *)
(* destruction of the tables.  Every g_atomic_ref_count operation is one    *)
(* step; an object is freed by the step that takes its count to 0.          *)
(*                                                                          *)
(* libwacom_ref is not exported: a copy has one owner, the thread.  Matches *)
(* stands for the matches array; paired is kept like one more of its        *)
(* elements.                                                                *)
(***************************************************************************)
EXTENDS Integers, FiniteSets

CONSTANTS
  Thread,
  NMatches,  \* length of the matches array of the device
  MaxDbRefs, \* bound on the references one thread has to the database
  Database   \* stands for the device in the tables, where a thread is for its copy

ASSUME ThreadAssumption  == IsFiniteSet(Thread) /\ Database \notin Thread
ASSUME MatchesAssumption == NMatches \in Nat \ {0} /\ MaxDbRefs \in Nat \ {0}

Match  == 1..NMatches
Device == Thread \cup {Database}
NoMatch == 0

VARIABLES
  pc,          \* what each thread is doing
  at,          \* the loop index of each thread, 1-based
  dbRefs,      \* references each thread has to the database
  dbRefcnt,    \* refcnt of the database
  dbFreed,
  entries,     \* entries left in device_ht, one for each match
  devRefcnt,   \* refcnt of the device in the tables
  matchRefcnt, \* refcnt of each match
  holds,       \* matches each device has a reference to in its array
  default      \* the default match of each device
lifeVars == <<pc, at, dbRefs, dbRefcnt, dbFreed, entries, devRefcnt, matchRefcnt, holds,
              default>>
dbState  == <<dbRefs, dbRefcnt, dbFreed, entries, devRefcnt>>

\* The thread that loaded the database has the only reference to it.
LifeInit ==
  /\ pc = [t \in Thread |-> "idle"]
  /\ at = [t \in Thread |-> 1]
  /\ \E t \in Thread : dbRefs = [u \in Thread |-> IF u = t THEN 1 ELSE 0]
  /\ dbRefcnt = 1
  /\ dbFreed = FALSE
  /\ entries = NMatches
  /\ devRefcnt = NMatches
  /\ matchRefcnt = [m \in Match |-> IF m = 1 THEN 2 ELSE 1]
  /\ holds = [d \in Device |-> IF d = Database THEN Match ELSE {}]
  /\ default = [d \in Device |-> IF d = Database THEN 1 ELSE NoMatch]

Goto(t, label) == pc' = [pc EXCEPT ![t] = label]
Rewind(t)      == at' = [at EXCEPT ![t] = 1]
Advance(t)     == at' = [at EXCEPT ![t] = @ + 1]
RefMatch(m)    == matchRefcnt' = [matchRefcnt EXCEPT ![m] = @ + 1]
UnrefMatch(m)  == matchRefcnt' = [matchRefcnt EXCEPT ![m] = @ - 1]

-----------------------------------------------------------------------------
\* libwacom_database_ref, for itself or to hand the reference to another thread
RefDatabase(t, u) ==
  /\ pc[t] = "idle" /\ dbRefs[t] > 0 /\ dbRefs[u] < MaxDbRefs
  /\ dbRefcnt' = dbRefcnt + 1
  /\ dbRefs' = [dbRefs EXCEPT ![u] = @ + 1]
  /\ UNCHANGED <<pc, at, dbFreed, entries, devRefcnt, matchRefcnt, holds, default>>

UnlessLast(t) ==
  /\ pc[t] = "idle" /\ dbRefs[t] > 0
  /\ dbRefcnt' = dbRefcnt - 1
  /\ dbRefs' = [dbRefs EXCEPT ![t] = @ - 1]
  /\ Goto(t, IF dbRefcnt' = 0 THEN "idle" ELSE "destroy")
  /\ UNCHANGED <<at, dbFreed, entries, devRefcnt, matchRefcnt, holds, default>>

UnrefDatabase(t) ==
  /\ pc[t] = "idle" /\ dbRefs[t] > 0
  /\ dbRefcnt' = dbRefcnt - 1
  /\ dbRefs' = [dbRefs EXCEPT ![t] = @ - 1]
  /\ Goto(t, IF dbRefcnt' = 0 THEN "destroy" ELSE "idle")
  /\ UNCHANGED <<at, dbFreed, entries, devRefcnt, matchRefcnt, holds, default>>

\* g_hash_table_destroy calls libwacom_destroy once for each entry.
DestroyEntry(t) ==
  /\ pc[t] = "destroy" /\ entries > 0
  /\ entries' = entries - 1
  /\ devRefcnt' = devRefcnt - 1
  /\ Goto(t, IF devRefcnt' = 0 THEN "freeDevice" ELSE "destroy")
  /\ Rewind(t)
  /\ UNCHANGED <<dbRefs, dbRefcnt, dbFreed, matchRefcnt, holds, default>>

\* stylus_ht and the database itself
FreeDatabase(t) ==
  /\ pc[t] = "destroy" /\ entries = 0
  /\ dbFreed' = TRUE
  /\ Goto(t, "idle")
  /\ UNCHANGED <<at, dbRefs, dbRefcnt, entries, devRefcnt, matchRefcnt, holds, default>>

\* libwacom_copy
StartCopy(t) ==
  /\ pc[t] = "idle" /\ dbRefs[t] > 0 /\ default[t] = NoMatch
  /\ Goto(t, "copy")
  /\ Rewind(t)
  /\ UNCHANGED <<dbState, matchRefcnt, holds, default>>

ShareMatch(t) ==
  /\ pc[t] = "copy" /\ at[t] <= NMatches
  /\ holds' = [holds EXCEPT ![t] = @ \cup {at[t]}]
  /\ Advance(t)
  /\ UNCHANGED <<pc, dbState, matchRefcnt, default>>

CopyMatch(t) ==
  /\ pc[t] = "copy" /\ at[t] <= NMatches
  /\ RefMatch(at[t])
  /\ holds' = [holds EXCEPT ![t] = @ \cup {at[t]}]
  /\ Advance(t)
  /\ UNCHANGED <<pc, dbState, default>>

ShareDefault(t) ==
  /\ pc[t] = "copy" /\ at[t] > NMatches
  /\ default' = [default EXCEPT ![t] = default[Database]]
  /\ \E label \in {"setDefault", "idle"} : Goto(t, label)
  /\ UNCHANGED <<at, dbState, matchRefcnt, holds>>

\* A device found by match string gets the default match looked for.
CopyDefault(t) ==
  /\ pc[t] = "copy" /\ at[t] > NMatches
  /\ RefMatch(default[Database])
  /\ default' = [default EXCEPT ![t] = default[Database]]
  /\ \E label \in {"setDefault", "idle"} : Goto(t, label)
  /\ UNCHANGED <<at, dbState, holds>>

\* libwacom_set_default_match, in two steps: the old default is dropped first
DropDefault(t) ==
  /\ pc[t] = "setDefault" /\ default[t] # NoMatch
  /\ UnrefMatch(default[t])
  /\ default' = [default EXCEPT ![t] = NoMatch]
  /\ UNCHANGED <<pc, at, dbState, holds>>

TakeDefault(t, m) ==
  /\ pc[t] = "setDefault" /\ default[t] = NoMatch
  /\ RefMatch(m)
  /\ default' = [default EXCEPT ![t] = m]
  /\ Goto(t, "idle")
  /\ UNCHANGED <<at, dbState, holds>>

\* libwacom_destroy of the copy
DestroyCopy(t) ==
  /\ pc[t] = "idle" /\ default[t] # NoMatch
  /\ Goto(t, "freeCopy")
  /\ Rewind(t)
  /\ UNCHANGED <<dbState, matchRefcnt, holds, default>>

\* libwacom_unref, past the last reference: the device of the tables or a copy
Freed(t) == IF pc[t] = "freeDevice" THEN Database ELSE t

FreeMatch(t) ==
  /\ pc[t] \in {"freeDevice", "freeCopy"} /\ at[t] <= NMatches
  /\ UnrefMatch(at[t])
  /\ holds' = [holds EXCEPT ![Freed(t)] = @ \ {at[t]}]
  /\ Advance(t)
  /\ UNCHANGED <<pc, dbState, default>>

KeepDefault(t) ==
  /\ pc[t] \in {"freeDevice", "freeCopy"} /\ at[t] > NMatches
  /\ default' = [default EXCEPT ![Freed(t)] = NoMatch]
  /\ Goto(t, IF pc[t] = "freeDevice" THEN "destroy" ELSE "idle")
  /\ UNCHANGED <<at, dbState, matchRefcnt, holds>>

FreeDefault(t) ==
  /\ pc[t] \in {"freeDevice", "freeCopy"} /\ at[t] > NMatches
  /\ UnrefMatch(default[Freed(t)])
  /\ default' = [default EXCEPT ![Freed(t)] = NoMatch]
  /\ Goto(t, IF pc[t] = "freeDevice" THEN "destroy" ELSE "idle")
  /\ UNCHANGED <<at, dbState, holds>>

\* A thread inside a call
InCall(t) ==
  \/ DestroyEntry(t) \/ FreeDatabase(t)
  \/ CopyMatch(t) \/ CopyDefault(t)
  \/ DropDefault(t) \/ \E m \in Match : TakeDefault(t, m)
  \/ FreeMatch(t) \/ FreeDefault(t)

LifeNext ==
  \E t \in Thread :
    \/ \E u \in Thread : RefDatabase(t, u)
    \/ UnrefDatabase(t) \/ StartCopy(t) \/ DestroyCopy(t)
    \/ InCall(t)

\* A thread that is inside a call goes on; it need not make another one.
LifeSpec == LifeInit /\ [][LifeNext]_lifeVars /\ \A t \in Thread : WF_lifeVars(InCall(t))

-----------------------------------------------------------------------------
LifeTypeOK ==
  /\ pc \in [Thread -> {"idle", "destroy", "freeDevice", "copy", "setDefault", "freeCopy"}]
  /\ at \in [Thread -> 1..(NMatches + 1)]
  /\ dbRefs \in [Thread -> 0..MaxDbRefs]
  /\ dbRefcnt \in Nat
  /\ dbFreed \in BOOLEAN
  /\ entries \in 0..NMatches
  /\ devRefcnt \in 0..NMatches
  /\ matchRefcnt \in [Match -> Nat]
  /\ holds \in [Device -> SUBSET Match]
  /\ default \in [Device -> Match \cup {NoMatch}]

\* The count of a match is the number of pointers to it in the arrays and the
\* defaults of the devices there are, at every step of every copy and destroy.
MatchRefsExact ==
  \A m \in Match :
    matchRefcnt[m] = Cardinality({d \in Device : m \in holds[d]})
                     + Cardinality({d \in Device : default[d] = m})

\* A thread that has a reference to the database, or is copying out of it, finds
\* it whole: no other thread has begun to take it apart.
WholeWhileReferenced ==
  (\E t \in Thread : dbRefs[t] > 0 \/ pc[t] \in {"copy", "setDefault"}) =>
    /\ ~dbFreed
    /\ entries = NMatches /\ devRefcnt = NMatches
    /\ holds[Database] = Match /\ default[Database] # NoMatch

\* A copy keeps its matches, and its default is one of them, whatever becomes of
\* the database and of other copies.
CopiesOutlive ==
  \A t \in Thread :
    pc[t] # "freeCopy" /\ default[t] # NoMatch =>
      /\ holds[t] = Match
      /\ \A m \in Match : matchRefcnt[m] > 0

\* The database is taken apart by one thread.
OneDestroyer ==
  Cardinality({t \in Thread : pc[t] \in {"destroy", "freeDevice"}}) <= 1

\* When no thread has anything left, nothing is left in memory.
NothingLeaks ==
  (\A t \in Thread : pc[t] = "idle" /\ dbRefs[t] = 0 /\ default[t] = NoMatch) =>
    dbFreed /\ devRefcnt = 0 /\ \A m \in Match : matchRefcnt[m] = 0

\* When the last reference is dropped the database is freed, whatever the other
\* threads do.
EventuallyFreed == (\A t \in Thread : dbRefs[t] = 0) ~> dbFreed

\* A thread has its copy from the end of libwacom_copy, also while it changes the
\* default match, until it calls libwacom_destroy.
HasCopy(t) == pc[t] = "setDefault" \/ (pc[t] # "freeCopy" /\ default[t] # NoMatch)

Shared == INSTANCE Registry WITH
            refs <- dbRefs, taken <- {t \in Thread : HasCopy(t)}, open <- ~dbFreed

\* The calls, of many steps each and interleaved, implement Registry, where each is one
\* step: a copy is taken while the database is open, and freeing it is one event that
\* comes after the last reference.
ImplementsRegistry == Shared!RegistrySpec
=============================================================================
