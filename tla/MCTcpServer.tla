---------------------------- MODULE MCTcpServer ----------------------------
(* Model checking of TcpServer: symmetry of the phones' addresses. *)
EXTENDS TcpServer, TLC

IpSymmetry == Permutations(Ips)
=============================================================================
