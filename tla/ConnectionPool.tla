---------------------------- MODULE ConnectionPool ----------------------------
(***************************************************************************)
(* The pool of database connections that the requests and the readiness    *)
(* probe of one API process share: SQLAlchemy's QueuePool, pool_size and   *)
(* max_overflow connections in all. A connection carries the tenant that   *)
(* set_config put into its transaction; nothing of it is left when the     *)
(* connection comes back.                                                  *)
(***************************************************************************)
EXTENDS Naturals, FiniteSets

CONSTANTS
  Conn,      \* connections, pool_size + max_overflow of them
  Request,   \* requests to the API, each with a session of its own
  Prober,    \* threads and futures of the readiness probe
  Firm,      \* tenants
  None       \* nobody, nothing

ASSUME PoolAssumption == Request \cap Prober = {} /\ None \notin Request \cup Prober
ASSUME FirmAssumption == None \notin Firm

VARIABLE pool

Borrower == Request \cup Prober
Clean == [by |-> None, tenant |-> None]

PoolTypeOK == pool \in [Conn -> [by : Borrower \cup {None}, tenant : Firm \cup {None}]]
PoolInit == pool = [c \in Conn |-> Clean]

Free == {c \in Conn : pool[c].by = None}
HeldBy(x) == {c \in Conn : pool[c].by = x}

\* checked_out >= capacity.
Saturated == Free = {}

\* A session or a connection that has one goes on with it, else it takes one.
Usable(x) == IF HeldBy(x) # {} THEN HeldBy(x) ELSE Free

\* The pool rolls back what comes in: the transaction and its tenant end.
Returned(x) == [c \in Conn |-> IF pool[c].by = x THEN Clean ELSE pool[c]]

=============================================================================
