------------------------------- MODULE Relay -------------------------------
(***************************************************************************)
(* A TCP connection carried by a QUIC stream: a relay at each end copies   *)
(* between the connection of its host and the stream, in both directions   *)
(* at once, and is over when either copy is (select!), with success or an  *)
(* error, which is dropped, and however the other direction stands.  The   *)
(* near relay of a direction is the one at the host that writes.           *)
(* (tcp_port_mapping.rs and tcp_stream_handle on one side, tcp_nat.rs      *)
(* stream_nat and quic_server.rs on the other are built alike.)            *)
(***************************************************************************)
EXTENDS Integers

CONSTANT MaxUnits   \* bound on what a host writes

ASSUME RelayAssumption == MaxUnits \in Nat

\* A direction is named after the host that writes; its near relay is that
\* host's, its far relay the other one's.
Sides == {"client", "server"}
Opposite(d) == IF d = "client" THEN "server" ELSE "client"

VARIABLES
    wrote,   \* direction -> units its host has written
    passed,  \* direction -> units its near relay has put into the stream
    got,     \* direction -> units its far relay has given to the other host
    closed,  \* hosts that will write no more
    failing, \* hosts whose connection with their relay failed
    lost,    \* the QUIC connection under the stream failed, or the network of
             \*   a side was stopped, which aborts its relay
    ended    \* hosts whose relay is over

relay_vars == <<wrote, passed, got, closed, failing, lost, ended>>

RelayInit ==
    /\ wrote = [d \in Sides |-> 0]
    /\ passed = wrote /\ got = wrote
    /\ closed = {}
    /\ failing = {}
    /\ lost = FALSE
    /\ ended = {}

-----------------------------------------------------------------------------
\* The hosts.  One that writes after its relay is over writes to nobody.
Write(d) ==
    /\ d \notin closed \cup failing
    /\ wrote[d] < MaxUnits
    /\ wrote' = [wrote EXCEPT ![d] = @ + 1]
    /\ UNCHANGED <<passed, got, closed, failing, lost, ended>>

CloseWriting(d) ==
    /\ d \notin closed \cup failing
    /\ closed' = closed \cup {d}
    /\ UNCHANGED <<wrote, passed, got, failing, lost, ended>>

\* A host resets its connection or does not answer, perhaps from the beginning.
HostResets(d) ==
    /\ failing' = failing \cup {d}
    /\ UNCHANGED <<wrote, passed, got, closed, lost, ended>>

ConnectionLost ==
    /\ lost' = TRUE
    /\ UNCHANGED <<wrote, passed, got, closed, failing, ended>>

\* The near relay of d; what it puts into the stream after the far relay is
\* over goes nowhere.
copy_in(d) ==
    /\ d \notin ended
    /\ passed[d] < wrote[d]
    /\ passed' = [passed EXCEPT ![d] = @ + 1]
    /\ UNCHANGED <<wrote, got, closed, failing, lost, ended>>

\* A copy of the relay of h returns an error: its host or the connection failed,
\* or it has units for a stream that the other relay, being over, stopped.  The
\* relay is over like any other, and its half of the stream, being dropped, ends
\* properly after what was put into it.
copy_fails(h) ==
    /\ h \notin ended
    /\ \/ lost
       \/ h \in failing
       \/ Opposite(h) \in ended /\ passed[h] < wrote[h]
    /\ ended' = ended \cup {h}
    /\ UNCHANGED <<wrote, passed, got, closed, failing, lost>>

\* It has read all of its host: it is over, and its stream ends properly.
copy_in_ends(d) ==
    /\ d \notin ended
    /\ d \in closed
    /\ passed[d] = wrote[d]
    /\ ended' = ended \cup {d}
    /\ UNCHANGED <<wrote, passed, got, closed, failing, lost>>

\* The far relay of d.
copy_out(d) ==
    /\ Opposite(d) \notin ended
    /\ got[d] < passed[d]
    /\ got' = [got EXCEPT ![d] = @ + 1]
    /\ UNCHANGED <<wrote, passed, closed, failing, lost, ended>>

\* Mistaken variant of copy_out_ends: the end of the stream overtakes its units.
copy_out_ends_early(d) ==
    /\ Opposite(d) \notin ended
    /\ d \in ended
    /\ ended' = ended \cup {Opposite(d)}
    /\ UNCHANGED <<wrote, passed, got, closed, failing, lost>>

\* It has read all of the stream: it is over, too, and closes its host's
\* connection.
copy_out_ends(d) ==
    /\ Opposite(d) \notin ended
    /\ d \in ended
    /\ got[d] = passed[d]
    /\ ended' = ended \cup {Opposite(d)}
    /\ UNCHANGED <<wrote, passed, got, closed, failing, lost>>

RelayNext ==
    \/ \E d \in Sides :
        \/ Write(d) \/ CloseWriting(d) \/ HostResets(d)
        \/ copy_in(d) \/ copy_in_ends(d) \/ copy_out(d) \/ copy_out_ends(d)
        \/ copy_fails(d)
    \/ ConnectionLost

RelaySpec == RelayInit /\ [][RelayNext]_relay_vars

-----------------------------------------------------------------------------
\* As long as the connection holds, the relay of a host o that still listens
\* (it has neither closed its own half nor failed) ends only after telling it
\* all that the other relay has put into the stream; and that is all that the
\* other host wrote, unless that host failed.  Else less may arrive: when o has
\* closed its half, the answer is cut off; when o wrote what the other, being
\* over, could no longer be told, its own units cost it the answer.  Nothing
\* tells the host: its connection is dropped in all of these cases alike.
ListenerHearsAll ==
    \A d \in Sides :
        LET o == Opposite(d)
        IN  ~lost /\ o \in ended \ (closed \cup failing) /\ passed[o] = wrote[o] =>
                got[d] = passed[d] /\ (d \in failing \/ passed[d] = wrote[d])
=============================================================================
