---------------------------- MODULE ConnectionPool ----------------------------
(***************************************************************************)
(* What the connection pools of this server promise, whatever their lists,  *)
(* locks and guards look like: a connection is opened once, is then in the  *)
(* pool or with one user, and is gone for good once it has been forgotten   *)
(* or closed.  MysqlPool, DbSql and SqlDbPool implement it.                 *)
(***************************************************************************)
CONSTANTS Conns, Users, None

VARIABLES
  opened,   \* connections made so far
  pooled,   \* those in the pool
  taken     \* the one each user has, or None

poolVars == <<opened, pooled, taken>>

Open(S) ==
  /\ S \cap opened = {}
  /\ opened' = opened \cup S
  /\ pooled' = pooled \cup S
  /\ UNCHANGED taken

Take(u) ==
  /\ taken[u] = None
  /\ \E c \in pooled : pooled' = pooled \ {c} /\ taken' = [taken EXCEPT ![u] = c]
  /\ UNCHANGED opened

Give(u) ==
  /\ taken[u] # None
  /\ pooled' = pooled \cup {taken[u]}
  /\ taken' = [taken EXCEPT ![u] = None]
  /\ UNCHANGED opened

Forget(u) ==
  /\ taken[u] # None
  /\ taken' = [taken EXCEPT ![u] = None]
  /\ UNCHANGED <<opened, pooled>>

Close ==
  /\ pooled' \in SUBSET pooled
  /\ UNCHANGED <<opened, taken>>

PoolInit == opened = {} /\ pooled = {} /\ taken = [u \in Users |-> None]

PoolNext ==
  \/ \E S \in SUBSET Conns : Open(S)
  \/ \E u \in Users : Take(u) \/ Give(u) \/ Forget(u)
  \/ Close

PoolSpec == PoolInit /\ [][PoolNext]_poolVars
=============================================================================
