---------------------------- MODULE MCContainment ----------------------------
(* A small instance of Containment for TLC: one root with a directory in it, and
   a directory outside. *)
EXTENDS Containment

MCFixed == {<<"root">>, <<"out">>}
MCPlace ==
  MCFixed \cup {<<"root", "f">>, <<"root", "d">>, <<"root", "d", "f">>, <<"out", "f">>}
MCEmpty == [p \in MCPlace |-> IF p \in MCFixed THEN Node("directory") ELSE Node("absent")]
MCTree ==
  {MCEmpty, [MCEmpty EXCEPT ![<<"root", "d">>] = Node("directory"), ![<<"root", "f">>] = Node("file"),
                            ![<<"root", "d", "f">>] = Node("file"), ![<<"out", "f">>] = Node("file")]}
MCRoot == {<<"root">>}
MCTarget == {<<"out">>, <<"out", "f">>, <<"root", "d">>}
MCAsked == {None, <<"root", "f">>, <<"root", "d", "f">>, <<"out", "f">>}
MCHosts == {[host |-> "a", port |-> None], [host |-> "b", port |-> 443]}
MCLowerCase == [A |-> "a", b |-> "b", c |-> "c"]

=============================================================================
