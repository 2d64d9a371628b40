------------------------------ MODULE QuicPool ------------------------------
(***************************************************************************)
(* Connections of the QUIC layer (enhanced_tunnel/quic_over/               *)
(* quic_client.rs): one cell per peer, filled by whoever needs it first    *)
(* and shared by all.  A caller that cannot open a stream takes the peer's *)
(* cell out of the map, whichever cell that is by then, and tries once     *)
(* more.  One peer is enough: the cells of different peers never meet.     *)
(***************************************************************************)
EXTENDS Integers, FiniteSets

CONSTANTS
    Callers,    \* tasks that open streams
    MaxCells    \* bound on the cells ever made

ASSUME PoolAssumption == MaxCells \in Nat

Cells == 1 .. MaxCells
NoCell == 0

VARIABLES
    pooled,     \* the cell connection_map holds, or NoCell
    made,       \* cells made so far
    connection, \* cell -> "none", "live", "dead"
    opening     \* caller -> [at, cell, failed]: its step, its cell, the cell that failed it

pool_vars == <<pooled, made, connection, opening>>

AtRest == [at |-> "rest", cell |-> NoCell, failed |-> NoCell]

PoolInit ==
    /\ pooled = NoCell
    /\ made = 0
    /\ connection = [k \in Cells |-> "none"]
    /\ opening = [c \in Callers |-> AtRest]

-----------------------------------------------------------------------------
\* The peer's cell, or a new one.
take_cell(c) ==
    /\ opening[c].at = "begun"
    /\ IF pooled # NoCell THEN UNCHANGED <<pooled, made>>
       ELSE /\ made < MaxCells
            /\ made' = made + 1
            /\ pooled' = made'
    /\ opening' = [opening EXCEPT ![c] = [@ EXCEPT !.at = "connecting", !.cell = pooled']]
    /\ UNCHANGED connection

\* One caller at a time connects; one that fails leaves the cell as it is and
\* gives up, and the next tries.
get_or_try_init(c) ==
    /\ opening[c].at = "connecting"
    /\ LET k == opening[c].cell
       IN  \/ /\ connection[k] # "none"
              /\ opening' = [opening EXCEPT ![c].at = "connected"]
              /\ UNCHANGED connection
           \/ /\ connection[k] = "none"
              /\ opening' = [opening EXCEPT ![c].at = "connected"]
              /\ connection' = [connection EXCEPT ![k] = "live"]
           \/ /\ connection[k] = "none"
              /\ opening' = [opening EXCEPT ![c] = [AtRest EXCEPT !.at = "refused"]]
              /\ UNCHANGED connection
    /\ UNCHANGED <<pooled, made>>

open_stream(c) ==
    /\ opening[c].at = "connected"
    /\ opening' = [opening EXCEPT ![c].at =
                     IF connection[opening[c].cell] = "live" THEN "open" ELSE "broken"]
    /\ UNCHANGED <<pooled, made, connection>>

\* Mistaken variant of remove_cell: the second try takes the same cell.
remove_cell_never(c) ==
    /\ opening[c].at = "broken"
    /\ opening' = [opening EXCEPT ![c] =
          IF @.failed = NoCell THEN [at |-> "begun", cell |-> NoCell, failed |-> @.cell]
          ELSE [AtRest EXCEPT !.at = "refused"]]
    /\ UNCHANGED <<pooled, made, connection>>

\* The peer's cell is removed by key; the first failure is tried again.
remove_cell(c) ==
    /\ opening[c].at = "broken"
    /\ pooled' = NoCell
    /\ opening' = [opening EXCEPT ![c] =
          IF @.failed = NoCell THEN [at |-> "begun", cell |-> NoCell, failed |-> @.cell]
          ELSE [AtRest EXCEPT !.at = "refused"]]
    /\ UNCHANGED <<made, connection>>

\* The peer goes away, or the connection is idle for too long.
ConnectionDies ==
    /\ \E k \in Cells :
        /\ connection[k] = "live"
        /\ connection' = [connection EXCEPT ![k] = "dead"]
    /\ UNCHANGED <<pooled, made, opening>>

PoolNext ==
    \/ ConnectionDies
    \/ \E c \in Callers :
        take_cell(c) \/ get_or_try_init(c) \/ open_stream(c) \/ remove_cell(c)

-----------------------------------------------------------------------------
\* A caller fails for good only when two different connections failed it, or
\* connecting did: however the callers that share a broken cell remove it, and
\* each other's, the second try never meets the cell of the first again.
SecondTryIsNew ==
    \A c \in Callers :
        opening[c].cell # NoCell => opening[c].cell # opening[c].failed
=============================================================================
