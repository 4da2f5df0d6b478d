----------------------------- MODULE MCSockets -----------------------------
(* Instances of Sockets for TLC: a server's address, a client's, and those  *)
(* of three peers                                                          *)
EXTENDS Sockets, TLC

CONSTANTS srv, cli, p1, p2, p3

\* Every address in a bucket of its own, and the peers in one
Apart  == (srv :> 1) @@ (cli :> 2) @@ (p1 :> 3) @@ (p2 :> 4) @@ (p3 :> 5)
Shared == (srv :> 1) @@ (cli :> 2) @@ (p1 :> 3) @@ (p2 :> 3) @@ (p3 :> 3)

\* Addresses below 2^32, and one above: p2 is what is left of p1
Narrow == [a \in Addrs |-> a]
Wide   == [a \in Addrs |-> IF a = p1 THEN p2 ELSE a]

Flow(a, b) == [src |-> a, dst |-> b]

ToPeer    == {Flow(cli, p1)}
FromPeers == {Flow(p1, srv), Flow(p2, srv), Flow(p3, srv)}

MixedPeers == [f \in FromPeers |-> f.src = p1]
=============================================================================
