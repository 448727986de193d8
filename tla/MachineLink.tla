---------------------------- MODULE MachineLink ----------------------------
(***************************************************************************)
(* How a request of this install reaches another of its machines: the      *)
(* machine table of _http.py, the routing of a request by it, and the TLS  *)
(* connections pinned to the keys it lists.  The agent writes the table to *)
(* a file; the process looks at it again at most once a second; a request  *)
(* is routed by the table of one moment and its connection is checked      *)
(* against the table of a later one.                                       *)
(*                                                                         *)
(* One other machine is modelled, with the plain address the table names   *)
(* it by and another spelling of it, its TLS port, this machine's own      *)
(* agent under a LAN address, and an agent under loopback.                 *)
(***************************************************************************)
EXTENDS Integers, FiniteSets

CONSTANTS
  Keys,        \* the TLS keys the address may present
  Documents,   \* what the agent may write
  Requests,    \* requests, each used again and again
  Recheck,     \* _TABLE_RECHECK_SECONDS, in ticks
  KeepAlive,   \* _KEEPALIVE_SECONDS: an idle connection's life, in ticks
  MaxWrites    \* bound: changes to the file and the machine

ASSUME LinkTimesAssumption == Recheck \in Nat \ {0} /\ KeepAlive \in Nat \ {0}

VARIABLES
  pinsFile,   \* the file: [state, doc]
  settled,    \* ticks since it last changed
  presents,   \* the key the machine's port presents
  writes,     \* bound
  seen,       \* _TABLE_FILE is set: a look at the file has succeeded
  table,      \* _TABLE_FROM_FILE
  looked_at,  \* ticks since _TABLE_CHECKED
  where,      \* where each request is
  wants,      \* what it is: [to, token]
  key,        \* the key its connection was checked for, "none" without one
  pool        \* idle pinned connections: [key, age]

fileVars == <<pinsFile, settled, presents, writes>>
tableVars == <<seen, table, looked_at>>
linkVars == <<fileVars, tableVars, where, wants, key, pool>>

Addresses == {"peer", "alias", "own", "loopback", "port"}
\* The addresses a table's routes may name.
Named == {"peer", "loopback"}

\* What the agent writes: the pins of the machine, what its routes say of it,
\* whether encryption is required, whether this machine's own address is local.
AllDocuments ==
  [pins : SUBSET Keys, route : {"absent", "null", "tls"}, required : BOOLEAN, local : BOOLEAN]

ASSUME DocumentsAssumption == Documents \subseteq AllDocuments

NoWant == [to |-> "port", token |-> FALSE]
EmptyTable == [pins |-> {}, route |-> "absent", required |-> FALSE, local |-> FALSE]

\* parse_machine_table: a route must name a machine the table pins.
ParseTable(doc) ==
  [doc EXCEPT !.route = IF doc.route = "tls" /\ doc.pins = {} THEN "null" ELSE doc.route]

-----------------------------------------------------------------------------
\* Reading the file: removed is no table; one that cannot be read, or does not
\* parse, leaves the last table.
TableRead ==
  CASE pinsFile.state = "none" -> [seen |-> TRUE, table |-> EmptyTable]
    [] pinsFile.state = "unreadable" -> [seen |-> seen, table |-> table]
    [] OTHER -> [seen |-> TRUE, table |-> ParseTable(pinsFile.doc)]

\* machine_table: the table in effect, looked up now.
Look ==
  IF seen /\ looked_at < Recheck THEN UNCHANGED tableVars
  ELSE /\ seen' = TableRead.seen /\ table' = TableRead.table
       /\ looked_at' = 0

-----------------------------------------------------------------------------
(***************************************************************************)
(* MachineTable.carry and _route: where a request goes by a table t.       *)
(***************************************************************************)
\* Carried on the machine's TLS port.
Carried(t, want) == want.to \in Named /\ t.route = "tls"

\* A machine the table names and cannot carry.
HasNoKey(t, want) == want.to \in Named /\ t.route = "null"

\* An address that is this machine.
StaysHere(t, want) == want.to = "loopback" \/ (want.to = "own" /\ t.local)

\* Fault: only the machines the table names are refused.
RefusedNamedOnly(t, want) ==
  t.required /\ want.to # "port" /\ want.to # "loopback" /\ HasNoKey(t, want)

\* MachineRefused: encryption is required, and the request would cross in plain
\* HTTP to a machine known to have no key, or with a token of this install.
Refused(t, want) ==
  /\ t.required /\ want.to # "port"
  /\ \/ HasNoKey(t, want) /\ want.to # "loopback"
     \/ ~Carried(t, want) /\ want.token /\ ~StaysHere(t, want)

\* MachineTable.pins after the route was rewritten.
Pinned(t, want) == (Carried(t, want) \/ want.to = "port") /\ t.pins # {}

LinkInit ==
  /\ pinsFile \in [state : {"none", "unreadable"}, doc : {EmptyTable}]
                   \cup [state : {"whole"}, doc : Documents]
  /\ settled = 0
  /\ presents \in Keys
  /\ writes = 0
  /\ seen = FALSE /\ table = EmptyTable /\ looked_at = 0
  /\ where = [q \in Requests |-> "idle"]
  /\ wants = [q \in Requests |-> NoWant]
  /\ key = [q \in Requests |-> "none"]
  /\ pool = {}

Goes(q, place) == where' = [where EXCEPT ![q] = place]
Holds(q, k) == key' = [key EXCEPT ![q] = k]

\* handle_async_request up to its first await: the table is looked up, the
\* request routed, and an idle pinned connection taken if there is one.  An
\* https address nothing pins is an ordinary one, checked against the CAs.
Route(q) ==
  /\ where[q] = "idle"
  /\ \E want \in [to : Addresses, token : BOOLEAN] :
       /\ Look
       /\ wants' = [wants EXCEPT ![q] = want]
       /\ \/ Refused(table', want) /\ Goes(q, "refused") /\ UNCHANGED <<key, pool>>
          \/ /\ ~Refused(table', want) /\ Pinned(table', want)
             /\ \/ pool = {} /\ Goes(q, "connecting") /\ UNCHANGED <<key, pool>>
                \/ \E c \in pool : Goes(q, "pinned") /\ Holds(q, c.key) /\ pool' = pool \ {c}
          \/ /\ ~Refused(table', want) /\ ~Pinned(table', want)
             /\ Goes(q, IF want.to = "port" THEN "checked" ELSE "plain")
             /\ UNCHANGED <<key, pool>>
  /\ UNCHANGED fileVars

\* Fault: the pins are those of the last look, however old.
HandshakeUnlooked(q) ==
  /\ where[q] = "connecting"
  /\ IF presents \in table.pins THEN Goes(q, "pinned") /\ Holds(q, presents)
     ELSE Goes(q, "refused") /\ UNCHANGED key
  /\ UNCHANGED <<fileVars, tableVars, wants, pool>>

\* start_tls: after the handshake and before the first byte, the key is looked
\* up in the table in effect by then.
Handshake(q) ==
  /\ where[q] = "connecting"
  /\ Look
  /\ IF presents \in table'.pins THEN Goes(q, "pinned") /\ Holds(q, presents)
     ELSE Goes(q, "refused") /\ UNCHANGED key
  /\ UNCHANGED <<fileVars, wants, pool>>

\* The request ends; the connection is kept if the machine keeps it.
EndRequest(q) ==
  /\ where[q] \notin {"idle", "connecting"}
  /\ Goes(q, "idle") /\ Holds(q, "none") /\ wants' = [wants EXCEPT ![q] = NoWant]
  /\ pool' \in IF where[q] = "pinned" THEN {pool, pool \cup {[key |-> key[q], age |-> 0]}} ELSE {pool}
  /\ UNCHANGED <<fileVars, tableVars>>

-----------------------------------------------------------------------------
(***************************************************************************)
(* The agent, the machine, and time.                                       *)
(***************************************************************************)
\* The file is replaced, removed or damaged.
FileChanges ==
  /\ writes < MaxWrites
  /\ pinsFile' \in [state : {"none", "unreadable"}, doc : {EmptyTable}]
                   \cup [state : {"whole"}, doc : Documents]
  /\ pinsFile' # pinsFile
  /\ settled' = 0 /\ writes' = writes + 1
  /\ UNCHANGED <<presents, tableVars, where, wants, key, pool>>

\* Another key answers at the address: the connections to the old one are gone.
MachineChanges ==
  /\ writes < MaxWrites
  /\ presents' \in Keys \ {presents}
  /\ writes' = writes + 1
  /\ where' = [q \in Requests |-> IF where[q] = "pinned" THEN "refused" ELSE where[q]]
  /\ key' = [q \in Requests |-> "none"]
  /\ pool' = {}
  /\ UNCHANGED <<pinsFile, settled, tableVars, wants>>

LinkTick ==
  /\ settled' = IF settled < Recheck THEN settled + 1 ELSE settled
  /\ looked_at' = IF looked_at < Recheck THEN looked_at + 1 ELSE looked_at
  /\ pool' = { [c EXCEPT !.age = @ + 1] : c \in {d \in pool : d.age + 1 < KeepAlive} }
  /\ UNCHANGED <<pinsFile, presents, writes, seen, table, where, wants, key>>

LinkNext ==
  \/ FileChanges \/ MachineChanges \/ LinkTick
  \/ \E q \in Requests : Route(q) \/ Handshake(q) \/ EndRequest(q)

LinkSpec == LinkInit /\ [][LinkNext]_linkVars

-----------------------------------------------------------------------------
(***************************************************************************)
(* Properties                                                              *)
(***************************************************************************)
\* The file has said the same for as long as a look at it is believed.
Stands == settled >= Recheck /\ pinsFile.state = "whole"

\* Once the file has required encryption for a second, no token of this install
\* leaves in plain HTTP for another machine, by any address, and nothing at all
\* for a machine without a key (_route).
RequiredIsObeyed ==
  [][\A q \in Requests :
       where[q] = "idle" /\ where'[q] = "plain" /\ Stands /\ pinsFile.doc.required
         => \/ StaysHere(pinsFile.doc, wants'[q])
            \/ ~wants'[q].token /\ ~HasNoKey(ParseTable(pinsFile.doc), wants'[q])]_linkVars

\* A connection carries its first byte only to a key the file lists by then,
\* not to one it listed when the request was routed (_PinnedStream.start_tls).
OnlyListedKeys ==
  [][\A q \in Requests :
       where[q] = "connecting" /\ where'[q] = "pinned" /\ Stands
         => key'[q] \in pinsFile.doc.pins]_linkVars
=============================================================================
