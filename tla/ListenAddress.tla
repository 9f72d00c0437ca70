------------------------------ MODULE ListenAddress ------------------------------
(***************************************************************************)
(* Whether two listen hosts can serve one address: canonicalAddress of     *)
(* packages/core/src/approval/address.ts, addressesOf and hostsOverlap of  *)
(* approval/listener.ts, and what a bind does.                             *)
(***************************************************************************)
EXTENDS Naturals, FiniteSets

CONSTANTS
  OneForm,       \* [host as written -> its one form], "0.0.0.0" and "::" among them
  Resolves,      \* [name -> the addresses it resolves to]
  Flaky          \* the names whose resolution may fail

Wildcards == {"0.0.0.0", "::"}

ASSUME AddressAssumption ==
  /\ Flaky \subseteq DOMAIN Resolves
  /\ \A h \in DOMAIN OneForm : OneForm[h] \in DOMAIN OneForm /\ OneForm[OneForm[h]] = OneForm[h]
  /\ \A n \in DOMAIN Resolves : Resolves[n] # {} /\ Resolves[n] \subseteq DOMAIN OneForm
  /\ \A n \in Flaky : {OneForm[a] : a \in Resolves[n]} \cap Wildcards = {}

(* addressesOf's possible answers: the address itself, or what the name resolves to
   and the name, or the name alone when it does not resolve. *)
AddressesOf(host) ==
  LET h == OneForm[host] IN
    IF h \notin DOMAIN Resolves THEN {{h}}
    ELSE {{OneForm[a] : a \in Resolves[h]} \cup {h}} \cup (IF h \in Flaky THEN {{h}} ELSE {})

Meet(x, y) == x \cap Wildcards # {} \/ y \cap Wildcards # {} \/ x \cap y # {}

(* hostsOverlap's possible answers. *)
HostsOverlap(a, b) == {Meet(x, y) : x \in AddressesOf(a), y \in AddressesOf(b)}

(* The addresses listen may bind for a host; two sockets that a client can reach at
   one address and port.  A kernel refuses to bind one address and port twice; of a
   wildcard and an address of its own on one port, some refuse it and some do not. *)
Binds(host) == LET h == OneForm[host] IN IF h \in DOMAIN Resolves THEN Resolves[h] ELSE {h}
Same(p, q) == p.port = q.port /\ OneForm[p.address] = OneForm[q.address]
Collide(p, q) ==
  /\ p.port = q.port
  /\ \/ OneForm[p.address] = OneForm[q.address]
     \/ {OneForm[p.address], OneForm[q.address]} \cap Wildcards # {}

=============================================================================
