--------------------------- MODULE MCInterceptor ---------------------------
(* Instances of Interceptor for TLC. *)
EXTENDS InterceptorProperties, TLC

CONSTANTS a1, a2    \* pids

(* Two processes of root; root and one user; or pids that pass between root and
   a user. *)
TwoRoots == [p \in Proc |-> {0}]
OneRoot  == [p \in Proc |-> IF p = a1 THEN {0} ELSE {1}]
Either   == [p \in Proc |-> {0, 1}]

NodeSymmetry == Permutations(Node)
=============================================================================
