---------------------------- MODULE MCRosBindings ----------------------------
(* A message type like  struct { int x; vector<struct { int s; vector<int>   *)
(* b; }> a; array<int, 1> d; }  and the paths into it that differ in what    *)
(* must be checked: nothing, one array, an array in an element of an array,  *)
(* the same array at a smaller and a larger index, a fixed array within and  *)
(* beyond its capacity.                                                      *)
EXTENDS RosBindings

Plain(n)   == [name |-> n, index |-> NoIndex]
Elem(n, i) == [name |-> n, index |-> i]

MCPaths == { <<Plain("x")>>,
             <<Elem("a", 0), Plain("s")>>,
             <<Elem("a", 1), Elem("b", 0)>>,
             <<Elem("a", 1), Elem("b", 1)>>,
             <<Elem("d", 0)>>,
             <<Elem("d", 1)>> }

MCFixed == [array \in {<<Plain("d")>>} |-> 1]

MCValues == {-1, 1, 2}
==============================================================================
