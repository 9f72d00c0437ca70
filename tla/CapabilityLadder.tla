--------------------------- MODULE CapabilityLadder -----------------------------
(***************************************************************************)
(* The capability obligation: packages/core/src/capability/ladder.ts, with *)
(* the one-line policy of approval/policy.ts.                              *)
(*                                                                         *)
(* A pure function from a tool's pinned tag to the controls it needs and   *)
(* the ones it must not carry, and the rules left unmet.  A tag's basis is *)
(* what is wrong with it ("none": null, "good": one legible line) and its  *)
(* domain how it is written; the reasons' wording is left out.             *)
(***************************************************************************)
EXTENDS Naturals

Class == {"read_only", "owned_state", "state_change", "arbitrary_exec"}
BasisProblem == {"none", "blank", "not-one-line", "illegible", "too-long"}
Basis == BasisProblem \cup {"good"}
DomainForm == {"null", "empty", "sinks", "malformed"}
Backend == {"none", "configured"}

Tag == [cls : Class, untrusted : BOOLEAN, private : BOOLEAN, elevated : BOOLEAN,
        basis : Basis, domain : DomainForm]

-----------------------------------------------------------------------------
(* A requirement is met by any one of its controls; a prohibition names one. *)
AnyOf(rule) ==
  CASE rule = "CAP-7" -> {"backend"}
    [] rule = "CAP-5" -> {"basis"}
    [] rule = "CAP-2" -> {"containment", "approval"}
    [] rule = "CAP-3" -> {"approval"}

Requires(t) ==
  {rule \in {"CAP-7", "CAP-5", "CAP-2", "CAP-3"} :
     \/ rule = "CAP-7" /\ t.elevated
     \/ rule = "CAP-5" /\ t.cls = "owned_state"
     \/ rule = "CAP-2" /\ t.untrusted /\ t.cls = "state_change"
     \/ rule = "CAP-3" /\ t.untrusted /\ t.cls = "arbitrary_exec"}

(* An empty domain is the same bound as null, and discharges nothing (CAP-8). *)
Present(control, t, backend) ==
  CASE control = "containment" -> t.domain \notin {"null", "empty"}
    [] control = "approval" -> t.elevated /\ backend = "configured"
    [] control = "basis" -> t.basis \notin BasisProblem
    [] control = "backend" -> backend = "configured"

(* Forbidding a field forbids any value of it but null. *)
Carried(t) ==
  {rule \in {"CAP-6", "N7"} :
     \/ rule = "CAP-6" /\ t.cls # "owned_state" /\ t.basis # "none"
     \/ rule = "N7" /\ t.cls = "arbitrary_exec" /\ t.domain # "null"}

Unmet(t, backend) ==
  {rule \in Requires(t) : \A c \in AnyOf(rule) : ~Present(c, t, backend)} \cup Carried(t)

(* approval/policy.ts: approval is what discharges the Rule of Two. *)
HumanOnly(t) == Unmet(t, "none") \cap {"CAP-2", "CAP-3"} # {}

-----------------------------------------------------------------------------
(* What the standard says of a tag that may be served (capability/RULES.md,
   quoting ClearSeal 3): no rung is reached without its compensating control. *)
MayServe(t, backend) ==
  /\ t.elevated => backend = "configured"
  /\ t.cls = "owned_state" <=> t.basis # "none"
  /\ t.basis \in {"none", "good"}
  /\ t.cls = "arbitrary_exec" => t.domain = "null"
  /\ t.untrusted /\ t.cls \in {"state_change", "arbitrary_exec"} =>
       \/ t.cls = "state_change" /\ t.domain \in {"sinks", "malformed"}
       \/ t.elevated

(* The obligation refuses a tag exactly when the standard does, and leaves to a
   human alone every approval without which the Rule of Two would not hold. *)
ObligationIsTheStandard ==
  \A t \in Tag :
    /\ \A b \in Backend : Unmet(t, b) = {} <=> MayServe(t, b)
    /\ HumanOnly(t) <=> (t.untrusted /\ (\/ t.cls = "arbitrary_exec"
                                         \/ t.cls = "state_change" /\ t.domain \in {"null", "empty"}))

=============================================================================
