-------------------------- MODULE MCPolicyJournal --------------------------
(* Instances of PolicyJournal for TLC: an agent whose grant ends early and *)
(* one whose grant ends late, and an observer; a port and its host, a host *)
(* with a protected port, and a third device.                              *)
EXTENDS PolicyJournal, TLC

A(u, d, r, e) == [uid |-> u, dev |-> d, res |-> r, effect |-> e]

MCActions == {A("early", "d1", "port", 1), A("late", "d1", "host", 2),
              A("late", "d2", "host", 0), A("late", "d2", "host", 2),
              A("late", "d3", "port", 1), A("watch", "d3", "port", 1)}

MCProtected == {<<"d2", "port">>}

MCExpires == ("early" :> 1) @@ ("late" :> 2) @@ ("watch" :> 2)

Symmetry == Permutations(Workers)
============================================================================
