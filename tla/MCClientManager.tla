--------------------------- MODULE MCClientManager ---------------------------
(* Instances of ClientManager for TLC. *)
EXTENDS ClientManagerInv, TLC

CONSTANTS c1, c2, c3, f1, f2, f3, u1, u2, u3

TwoConns == {c1, c2}
ThreeConns == {c1, c2, c3}
OneFd == {f1}
TwoFds == {f1, f2}
ThreeFds == {f1, f2, f3}
TwoUsers == {u1, u2}
ThreeUsers == {u1, u2, u3}

\* The properties name no connection, descriptor or user.
Symmetry == Permutations(Conns) \union Permutations(Fds) \union Permutations(Users)
=============================================================================
