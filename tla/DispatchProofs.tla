----------------------------- MODULE DispatchProofs -----------------------------
(***************************************************************************)
(* The dispatch of requests, for any tools, requests, approvals, slots and *)
(* lifetimes.                                                              *)
(*                                                                         *)
(* A call takes a slot in two actions, Begin and GateWaits, past every     *)
(* check of its form; FormSound says what that gives, and the properties   *)
(* of what runs follow from it (RunOK for each slot).  A grant is spent in *)
(* two, Begin and GateGrants (GrantsInv).  AnsweredOnce is about the       *)
(* answer in hand alone: AnswerOK says of every refusal a check may name   *)
(* that it leaves one row, and of a refused reach that it leaves its own.  *)
(***************************************************************************)
EXTENDS Dispatch, FiniteSetTheorems, SequenceTheorems, WellFoundedInduction, TLAPS

-----------------------------------------------------------------------------
(* Sequences of checks. *)

(* A refusal as the code makes them: it has a row of its own exactly when it is
   audited. *)
Refusals ==
  [code : Code, status : {200, 400, 404, 500}, audited : BOOLEAN, row : OwnRefusalRow \cup {None}]
WellMade(x) == x \in Refusals /\ (x.audited <=> x.row # None)

(* A check, whose refusal no era has mapped yet. *)
Sound ==
  {c \in [when : BOOLEAN, refusal : Refusals] : WellMade(c.refusal) /\ c.refusal.status # 200}

LEMMA RefusalSound ==
  ASSUME NEW w \in BOOLEAN, NEW code \in Code, NEW status \in {400, 404, 500}
  PROVE  Check(w, Refusal(code, status)) \in Sound
<1>1. Refusal(code, status) \in Refusals
  BY DEF Refusal, Refusals
<1>2. /\ Refusal(code, status).audited = FALSE /\ Refusal(code, status).row = None
      /\ Refusal(code, status).status # 200
  BY DEF Refusal
<1>3. WellMade(Refusal(code, status))
  BY <1>1, <1>2 DEF WellMade
<1> QED  BY <1>1, <1>2, <1>3 DEF Check, Sound

LEMMA AuditedSound ==
  ASSUME NEW w \in BOOLEAN, NEW code \in Code, NEW status \in {400, 404, 500},
         NEW row \in OwnRefusalRow
  PROVE  Check(w, Audited(row, code, status)) \in Sound
<1>1. Audited(row, code, status) \in Refusals
  BY DEF Audited, Refusals
<1>2. WellMade(Audited(row, code, status)) /\ Audited(row, code, status).status # 200
  BY <1>1, EraAssumption DEF Audited, WellMade
<1> QED  BY <1>1, <1>2 DEF Check, Sound

LEMMA Concat ==
  ASSUME NEW s \in Seq(Sound), NEW t \in Seq(Sound)
  PROVE  /\ s \o t \in Seq(Sound)
         /\ Passed(s \o t) <=> Passed(s) /\ Passed(t)
<1>1. /\ s \o t \in Seq(Sound) /\ Len(s \o t) = Len(s) + Len(t)
      /\ \A i \in 1 .. Len(s) : (s \o t)[i] = s[i]
      /\ \A i \in 1 .. Len(t) : (s \o t)[Len(s) + i] = t[i]
  OBVIOUS
<1>2. ASSUME Passed(s \o t) PROVE Passed(s) /\ Passed(t)
  <2>1. \A i \in 1 .. Len(s) : ~s[i].when
    BY <1>1, <1>2 DEF Passed, Failing
  <2>2. \A i \in 1 .. Len(t) : ~t[i].when
    <3> TAKE i \in 1 .. Len(t)
    <3>1. Len(s) + i \in 1 .. Len(s \o t)
      BY <1>1
    <3> QED  BY <1>1, <1>2, <3>1 DEF Passed, Failing
  <2> QED  BY <2>1, <2>2 DEF Passed, Failing
<1>3. ASSUME Passed(s), Passed(t) PROVE Passed(s \o t)
  <2> SUFFICES ASSUME NEW i \in 1 .. Len(s) + Len(t) PROVE ~(s \o t)[i].when
    BY <1>1 DEF Passed, Failing
  <2>1. CASE i <= Len(s)
    BY <1>1, <1>3, <2>1 DEF Passed, Failing
  <2>2. CASE i > Len(s)
    <3>1. i - Len(s) \in 1 .. Len(t) /\ i = Len(s) + (i - Len(s))
      BY <2>2
    <3>2. (s \o t)[i] = t[i - Len(s)]
      BY <1>1, <3>1
    <3> QED  BY <1>3, <3>1, <3>2 DEF Passed, Failing
  <2> QED  BY <2>1, <2>2
<1> QED  BY <1>1, <1>2, <1>3

LEMMA Least ==
  ASSUME NEW S \in SUBSET Nat, S # {}
  PROVE  \E i \in S : \A k \in S : i <= k
<1> DEFINE R == {ss \in Nat \X Nat : ss[1] < ss[2]}
<1>1. IsWellFoundedOn(R, Nat)
  BY NatLessThanWellFounded DEF OpToRel
<1>2. PICK i \in S : \A k \in S : <<k, i>> \notin R
  <2> HIDE DEF R
  <2> QED  BY <1>1, WFMin
<1>3. \A k \in S : ~(k < i)
  BY <1>2
<1>4. S \subseteq Nat
  OBVIOUS
<1> QED  BY <1>3, <1>4

LEMMA FirstSound ==
  ASSUME NEW s \in Seq(Sound), ~Passed(s)
  PROVE  FirstOf(s) \in Sound
<1>1. Failing(s) \in SUBSET Nat /\ Failing(s) # {} /\ Failing(s) \subseteq 1 .. Len(s)
  BY DEF Passed, Failing
<1>2. (CHOOSE i \in Failing(s) : \A k \in Failing(s) : i <= k) \in Failing(s)
  BY <1>1, Least
<1> QED  BY <1>1, <1>2 DEF FirstOf

-----------------------------------------------------------------------------
(* The checks themselves. *)
LEMMA Names ==
  /\ "header-mismatch" \in Code /\ "invalid-params" \in Code /\ "method-not-found" \in Code
  /\ "internal" \in Code /\ "unsupported-version" \in Code /\ "missing-capability" \in Code
  /\ "validation-timeout" \in OwnRefusalRow /\ "validation-error" \in OwnRefusalRow
  /\ "result-over-cap" \in OwnRefusalRow /\ "legacy-input-required" \in OwnRefusalRow
  /\ "request-state-unsealable" \in OwnRefusalRow
  /\ "containment-refused" \in OwnRefusalRow /\ Thrown \subseteq OwnRefusalRow
BY DEF Code, OwnRefusalRow, Thrown

LEMMA RefusalsSound ==
  ASSUME NEW w \in BOOLEAN
  PROVE  /\ Check(w, Mismatch) \in Sound /\ Check(w, InvalidParams) \in Sound
         /\ Check(w, Internal) \in Sound /\ Check(w, NotFound(404)) \in Sound
         /\ Check(w, NotFound(400)) \in Sound
BY RefusalSound, Names DEF Mismatch, InvalidParams, Internal, NotFound

LEMMA OtherRefusalsSound ==
  ASSUME NEW w \in BOOLEAN
  PROVE  /\ Check(w, Refusal("unsupported-version", 400)) \in Sound
         /\ Check(w, Refusal("missing-capability", 400)) \in Sound
         /\ Check(w, Audited("validation-timeout", "invalid-params", 400)) \in Sound
         /\ Check(w, Audited("validation-error", "internal", 500)) \in Sound
         /\ Check(w, Audited("legacy-input-required", "method-not-found", 400)) \in Sound
         /\ Check(w, Audited("request-state-unsealable", "internal", 500)) \in Sound
<1>1. /\ Check(w, Refusal("unsupported-version", 400)) \in Sound
      /\ Check(w, Refusal("missing-capability", 400)) \in Sound
  BY RefusalSound, Names
<1>2. /\ Check(w, Audited("validation-timeout", "invalid-params", 400)) \in Sound
      /\ Check(w, Audited("validation-error", "internal", 500)) \in Sound
  BY AuditedSound, Names
<1>3. /\ Check(w, Audited("legacy-input-required", "method-not-found", 400)) \in Sound
      /\ Check(w, Audited("request-state-unsealable", "internal", 500)) \in Sound
  BY AuditedSound, Names
<1> QED  BY <1>1, <1>2, <1>3

LEMMA Tuples ==
  ASSUME NEW a \in Sound, NEW b \in Sound, NEW c \in Sound, NEW d \in Sound, NEW e \in Sound,
         NEW f \in Sound
  PROVE  /\ << >> \in Seq(Sound) /\ <<a, b>> \in Seq(Sound) /\ <<a, b, c>> \in Seq(Sound)
         /\ <<a, b, c, d, e>> \in Seq(Sound) /\ <<a, b, c, d, e, f>> \in Seq(Sound)
OBVIOUS

LEMMA EraSound == ASSUME NEW r PROVE EraChecks(r) \in Seq(Sound)
<1> DEFINE
  a == r.version = "twice"
  b == r.version = None /\ r.method # "initialize"
  c == r.version \notin {Modern, Legacy, None}
<1>1. a \in BOOLEAN /\ b \in BOOLEAN /\ c \in BOOLEAN
  OBVIOUS
<1> HIDE DEF a, b, c
<1>2. Check(a, Mismatch) \in Sound
  BY <1>1, RefusalsSound
<1>3. Check(b, Mismatch) \in Sound
  BY <1>1, RefusalsSound
<1>4. Check(c, Refusal("unsupported-version", 400)) \in Sound
  BY <1>1, OtherRefusalsSound
<1> QED
  BY <1>2, <1>3, <1>4, Tuples DEF EraChecks, a, b, c

LEMMA MetaSound == ASSUME NEW r PROVE MetaChecks(r) \in Seq(Sound)
<1> DEFINE
  a == r.meta \in {"absent", "not-object", "bare", "no-caps"}
  b == r.meta = "not-object"
  c == r.meta = "other-version"
<1>1. a \in BOOLEAN /\ b \in BOOLEAN /\ c \in BOOLEAN
  OBVIOUS
<1> HIDE DEF a, b, c
<1>2. Check(a, InvalidParams) \in Sound
  BY <1>1, RefusalsSound
<1>3. Check(b, InvalidParams) \in Sound
  BY <1>1, RefusalsSound
<1>4. Check(c, Mismatch) \in Sound
  BY <1>1, RefusalsSound
<1> QED
  BY <1>2, <1>3, <1>4, Tuples DEF MetaChecks, a, b, c

LEMMA MirrorSound == ASSUME NEW r PROVE MirrorChecks(r) \in Seq(Sound)
<1>1. \A w \in BOOLEAN : Check(w, Mismatch) \in Sound
  BY RefusalsSound
<1> DEFINE method == IF r.mcpMethod = "absent" THEN Era(r) = Modern ELSE r.mcpMethod # "agrees"
           name == /\ r.method \in {"tools/call", "resources/read", "prompts/get"}
                   /\ IF r.mcpName = "absent" THEN Era(r) = Modern ELSE r.tool = None \/ ~Decodes(r.mcpName)
<1>2. method \in BOOLEAN /\ name \in BOOLEAN
  OBVIOUS
<1>3. Check(method, Mismatch) \in Sound /\ Check(name, Mismatch) \in Sound
  <2> HIDE DEF method, name
  <2> QED  BY <1>1, <1>2
<1> QED  BY <1>3, Tuples DEF MirrorChecks

LEMMA RouteSound == ASSUME NEW r PROVE RouteChecks(r) \in Seq(Sound)
<1> DEFINE
  a == r.method \notin Served(Era(r))
  b == r.method = "tools/list" /\ r.cursor
<1>1. a \in BOOLEAN /\ b \in BOOLEAN
  OBVIOUS
<1> HIDE DEF a, b
<1>2. Check(a, NotFound(404)) \in Sound
  BY <1>1, RefusalsSound
<1>3. Check(b, InvalidParams) \in Sound
  BY <1>1, RefusalsSound
<1> QED
  BY <1>2, <1>3, Tuples DEF RouteChecks, a, b

LEMMA ToolSound == ASSUME NEW r PROVE ToolChecks(r) \in Seq(Sound)
<1> DEFINE
  a == r.tool \notin Tool
  b == r.args = "not-object"
  c == ReadsParams(r) /\ \E p \in Param : ~ParamAgrees(r, p)
  d == r.valid = "timeout"
  e == r.valid = "error"
  f == r.valid = "no"
<1>1. a \in BOOLEAN /\ b \in BOOLEAN /\ c \in BOOLEAN /\ d \in BOOLEAN /\ e \in BOOLEAN /\ f \in BOOLEAN
  OBVIOUS
<1> HIDE DEF a, b, c, d, e, f
<1>2. Check(a, InvalidParams) \in Sound
  BY <1>1, RefusalsSound
<1>3. Check(b, InvalidParams) \in Sound
  BY <1>1, RefusalsSound
<1>4. Check(c, Mismatch) \in Sound
  BY <1>1, RefusalsSound
<1>5. Check(d, Audited("validation-timeout", "invalid-params", 400)) \in Sound
  BY <1>1, OtherRefusalsSound
<1>6. Check(e, Audited("validation-error", "internal", 500)) \in Sound
  BY <1>1, OtherRefusalsSound
<1>7. Check(f, InvalidParams) \in Sound
  BY <1>1, RefusalsSound
<1> QED
  BY <1>2, <1>3, <1>4, <1>5, <1>6, <1>7, Tuples DEF ToolChecks, a, b, c, d, e, f

LEMMA RoundSound == ASSUME NEW r, NEW opens \in BOOLEAN PROVE RoundChecks(r, opens) \in Seq(Sound)
<1> DEFINE
  a == r.responses = "not-objects"
  b == r.token # None /\ ~opens
<1>1. a \in BOOLEAN /\ b \in BOOLEAN
  OBVIOUS
<1> HIDE DEF a, b
<1>2. Check(a, InvalidParams) \in Sound
  BY <1>1, RefusalsSound
<1>3. Check(b, InvalidParams) \in Sound
  BY <1>1, RefusalsSound
<1> QED
  BY <1>2, <1>3, Tuples DEF RoundChecks, a, b

LEMMA QuestionSound == ASSUME NEW c, NEW asked, NEW withState \in BOOLEAN PROVE QuestionChecks(c, asked, withState) \in Seq(Sound)
<1> DEFINE
  legacy == c.era # Modern
  unknown == asked # None /\ ~(asked \subseteq Capability)
  lacking == asked # None /\ ~(asked \subseteq c.caps)
  unsealable == withState /\ ~keyed
  empty == asked = None /\ ~withState
<1>1. legacy \in BOOLEAN /\ unknown \in BOOLEAN /\ lacking \in BOOLEAN /\ unsealable \in BOOLEAN /\ empty \in BOOLEAN
  OBVIOUS
<1> HIDE DEF legacy, unknown, lacking, unsealable, empty
<1>2. Check(legacy, Audited("legacy-input-required", "method-not-found", 400)) \in Sound
  BY <1>1, OtherRefusalsSound
<1>3. Check(unknown, Internal) \in Sound
  BY <1>1, RefusalsSound
<1>4. Check(lacking, Refusal("missing-capability", 400)) \in Sound
  BY <1>1, OtherRefusalsSound
<1>5. Check(unsealable, Audited("request-state-unsealable", "internal", 500)) \in Sound
  BY <1>1, OtherRefusalsSound
<1>6. Check(empty, Internal) \in Sound
  BY <1>1, RefusalsSound
<1> QED
  BY <1>2, <1>3, <1>4, <1>5, <1>6, Tuples DEF QuestionChecks, legacy, unknown, lacking, unsealable, empty

LEMMA NotificationSound == ASSUME NEW r PROVE NotificationChecks(r) \in Seq(Sound)
<1> DEFINE a == r.version # Legacy \/ r.method # "notifications/initialized"
<1>1. a \in BOOLEAN
  OBVIOUS
<1> HIDE DEF a
<1>2. Check(a, NotFound(400)) \in Sound
  BY <1>1, RefusalsSound
<1>3. <<Check(a, NotFound(400))>> \in Seq(Sound)
  BY <1>2
<1>4. <<Check(a, NotFound(400))>> \o MetaChecks(r) \in Seq(Sound)
  BY <1>3, MetaSound, Concat
<1> QED  BY <1>4, MirrorSound, Concat DEF NotificationChecks, a

(* A call that is refused for nothing passed the checks of its headers, and a
   call of a tool those of its tool and of its round. *)
LEMMA FormSound ==
  ASSUME NEW r, NEW opens \in BOOLEAN
  PROVE  /\ FormChecks(r, opens) \in Seq(Sound)
         /\ Passed(FormChecks(r, opens)) =>
              /\ Passed(MirrorChecks(r))
              /\ r.method = "tools/call" => Passed(ToolChecks(r)) /\ Passed(RoundChecks(r, opens))
<1> DEFINE era == EraChecks(r)  meta == MetaChecks(r)  mirror == MirrorChecks(r)  route == RouteChecks(r)
           tool == ToolChecks(r)  round == RoundChecks(r, opens)
           rest == IF r.method = "tools/call" THEN tool \o round ELSE << >>
<1>1. era \in Seq(Sound) /\ meta \in Seq(Sound) /\ mirror \in Seq(Sound) /\ route \in Seq(Sound)
  BY EraSound, MetaSound, MirrorSound, RouteSound
<1>2. tool \in Seq(Sound) /\ round \in Seq(Sound)
  BY ToolSound, RoundSound
<1>3. FormChecks(r, opens) = era \o meta \o mirror \o route \o rest
  BY DEF FormChecks
<1> HIDE DEF era, meta, mirror, route, tool, round
<1>4. tool \o round \in Seq(Sound) /\ (Passed(tool \o round) => Passed(tool) /\ Passed(round))
  BY <1>2, Concat
<1>5. rest \in Seq(Sound) /\ (Passed(rest) /\ r.method = "tools/call" => Passed(tool) /\ Passed(round))
  BY <1>4
<1> HIDE DEF rest
<1>6. era \o meta \in Seq(Sound)
  BY <1>1, Concat
<1>7. /\ era \o meta \o mirror \in Seq(Sound)
      /\ Passed(era \o meta \o mirror) => Passed(mirror)
  BY <1>1, <1>6, Concat
<1>8. /\ era \o meta \o mirror \o route \in Seq(Sound)
      /\ Passed(era \o meta \o mirror \o route) => Passed(mirror)
  BY <1>1, <1>7, Concat
<1>9. /\ era \o meta \o mirror \o route \o rest \in Seq(Sound)
      /\ Passed(era \o meta \o mirror \o route \o rest) => Passed(mirror) /\ Passed(rest)
  BY <1>5, <1>8, Concat
<1> QED  BY <1>3, <1>5, <1>9 DEF mirror, tool, round

-----------------------------------------------------------------------------
(* What a started handler can count on. *)

LEMMA PassedAll ==
  ASSUME NEW a, NEW b, NEW c, NEW d, NEW e, NEW f
  PROVE  /\ Passed(<<a, b>>) => ~a.when /\ ~b.when
         /\ Passed(<<a, b, c, d, e, f>>) => ~a.when /\ ~c.when
<1>1. ASSUME Passed(<<a, b>>) PROVE ~a.when /\ ~b.when
  <2> DEFINE s == <<a, b>>
  <2>1. 1 \in DOMAIN s /\ 2 \in DOMAIN s /\ s[1] = a /\ s[2] = b
    OBVIOUS
  <2> HIDE DEF s
  <2>2. Passed(s)
    BY <1>1 DEF s
  <2> QED  BY <2>1, <2>2 DEF Passed, Failing
<1>2. ASSUME Passed(<<a, b, c, d, e, f>>) PROVE ~a.when /\ ~c.when
  <2> DEFINE s == <<a, b, c, d, e, f>>
  <2>1. 1 \in DOMAIN s /\ 3 \in DOMAIN s /\ s[1] = a /\ s[3] = c
    OBVIOUS
  <2> HIDE DEF s
  <2>2. Passed(s)
    BY <1>2 DEF s
  <2> QED  BY <2>1, <2>2 DEF Passed, Failing
<1> QED  BY <1>1, <1>2

LEMMA PassedIsRouted ==
  ASSUME NEW r, r.method = "tools/call", Passed(MirrorChecks(r)), Passed(ToolChecks(r))
  PROVE  Routed(r)
<1> DEFINE method == IF r.mcpMethod = "absent" THEN Era(r) = Modern ELSE r.mcpMethod # "agrees"
           name == /\ r.method \in {"tools/call", "resources/read", "prompts/get"}
                   /\ IF r.mcpName = "absent" THEN Era(r) = Modern ELSE r.tool = None \/ ~Decodes(r.mcpName)
           param == ReadsParams(r) /\ \E p \in Param : ~ParamAgrees(r, p)
<1>1. ~Check(method, Mismatch).when /\ ~Check(name, Mismatch).when
  BY PassedAll DEF MirrorChecks
<1>2. ~Check(param, Mismatch).when
  <2> DEFINE a == Check(r.tool \notin Tool, InvalidParams)
             b == Check(r.args = "not-object", InvalidParams)
             c == Check(param, Mismatch)
             d == Check(r.valid = "timeout", Audited("validation-timeout", "invalid-params", 400))
             e == Check(r.valid = "error", Audited("validation-error", "internal", 500))
             f == Check(r.valid = "no", InvalidParams)
  <2>1. ToolChecks(r) = <<a, b, c, d, e, f>>
    BY DEF ToolChecks
  <2> HIDE DEF a, b, c, d, e, f
  <2>2. ~c.when
    BY <2>1, PassedAll
  <2> QED  BY <2>2 DEF c
<1>3. ~method
  BY <1>1 DEF Check
<1>4. ~name
  BY <1>1 DEF Check
<1>5. ~param
  BY <1>2 DEF Check
<1>6. r.mcpMethod \in {"agrees"} \cup IF Era(r) = Modern THEN {} ELSE {"absent"}
  BY <1>3
<1>7. r.mcpName \in {"agrees", "encoded"} \cup IF Era(r) = Modern THEN {} ELSE {"absent"}
  BY <1>4 DEF Decodes
<1>8. ASSUME NEW p \in Param
      PROVE  IF p \in r.valued
               THEN r.params[p] \in {"agrees", "encoded"} \cup IF Era(r) = Modern THEN {} ELSE {"absent"}
               ELSE r.params[p] = "absent"
  <2>1. ASSUME ReadsParams(r)
        PROVE  IF p \in r.valued THEN r.params[p] \in {"agrees", "encoded"} ELSE r.params[p] = "absent"
    BY <1>5, <2>1 DEF ParamAgrees, Decodes
  <2>2. ASSUME ~ReadsParams(r)
        PROVE  Era(r) # Modern /\ r.params[p] = "absent"
    BY <2>2 DEF ReadsParams
  <2> QED  BY <2>1, <2>2
<1> QED  BY <1>6, <1>7, <1>8 DEF Routed

LEMMA PassedOpens ==
  ASSUME NEW r, NEW opens \in BOOLEAN, Passed(RoundChecks(r, opens)), Era(r) = Modern, r.token # None
  PROVE  opens
<1>1. ~RoundChecks(r, opens)[2].when
  BY DEF Passed, Failing, RoundChecks
<1> QED  BY <1>1 DEF RoundChecks, Check

-----------------------------------------------------------------------------
(* The steps, by what they do to the calls and by what they do to the grants. *)

(* A call takes a slot past every check of its form, and runs or waits. *)
Admits ==
  \E r \in Sent, s \in Slot :
    /\ WellFormed(r) /\ r.method = "tools/call" /\ calls' = [calls EXCEPT ![s] = TheCall(r)]
    /\ keyed' = keyed /\ sealed' = sealed

KeepsCalls ==
  /\ keyed' = keyed /\ sealed \subseteq sealed'
  /\ calls' = calls \/ \E s \in Slot : calls' = [calls EXCEPT ![s] = None]

Buys == \E id \in Id : \E inputs : Redeem(id, inputs)

KeepsGrants ==
  /\ ran' = ran
  /\ \/ asks' = asks
     \/ \E id \in Id, c \in {ExactCall(Inputs(r)) : r \in Sent} :
          asks[id].state = "free" /\ asks' = [asks EXCEPT ![id] = [state |-> "pending", call |-> c]]
     \/ \E id \in Id, next \in {"approved", "gone"} :
          asks[id].state \in {"pending", "approved"} /\ asks' = [asks EXCEPT ![id].state = next]

WaitsInv == waits \in [Slot -> Id \cup {None}]

LEMMA NextSteps ==
  ASSUME [DispatchNext]_dispatchVars
  PROVE  \/ UNCHANGED dispatchVars \/ Deliver \/ ApprovalSide \/ Tick
         \/ \E r \in Sent : UNCHANGED State \/ Gated(r) \/ \E s \in Slot : Begin(s, r) \/ GateWaits(s, r)
         \/ \E s \in Slot : GateGrants(s) \/ GateEnds(s)
         \/ \E s \in Slot : HandlerFails(s) \/ Completes(s) \/ Questions(s)
<1>1. ASSUME NEW r \in Sent, Handle(r)
      PROVE  UNCHANGED State \/ Gated(r) \/ \E s \in Slot : Begin(s, r) \/ GateWaits(s, r)
  <2>1. HttpRefused(r) \/ Public(r) \/ Notification(r) \/ FormRefused(r) \/ Answered(r) => UNCHANGED State
    BY DEF HttpRefused, Public, Notification, FormRefused, Answered
  <2> QED  BY <1>1, <2>1 DEF Handle
<1> QED  BY <1>1 DEF DispatchNext

LEMMA EndsACall ==
  ASSUME NEW s, HandlerFails(s) \/ Completes(s) \/ Questions(s)
  PROVE  /\ keyed' = keyed /\ asks' = asks /\ waits' = waits /\ ran' = ran /\ sealed \subseteq sealed'
         /\ calls' = [calls EXCEPT ![s] = None]
<1>1. Ends(s)
  BY DEF HandlerFails, Completes, Questions
<1>2. sealed \subseteq sealed'
  <2>1. HandlerFails(s) \/ Completes(s) => sealed' = sealed
    BY DEF HandlerFails, Completes
  <2>2. Questions(s) => sealed' = sealed \/ \E x : sealed' = sealed \cup {x}
    BY DEF Questions
  <2> QED  BY <2>1, <2>2
<1> QED  BY <1>1, <1>2 DEF Ends

LEMMA AskedOnce ==
  ASSUME NEW r \in Sent, NEW id \in Id, Asks(r, id), ran' = ran
  PROVE  KeepsGrants
BY DEF Asks, KeepsGrants

LEMMA CallSteps ==
  ASSUME [DispatchNext]_dispatchVars
  PROVE  Admits \/ KeepsCalls
<1>1. UNCHANGED dispatchVars \/ Deliver \/ ApprovalSide \/ Tick => KeepsCalls
  BY DEF dispatchVars, Deliver, State, ApprovalSide, Tick, KeepsCalls
<1>2. ASSUME NEW r \in Sent, UNCHANGED State \/ Gated(r) PROVE KeepsCalls
  BY <1>2 DEF State, Gated, KeepsCalls
<1>3. ASSUME NEW r \in Sent, NEW s \in Slot, Begin(s, r) \/ GateWaits(s, r) PROVE Admits
  <2>1. Begin(s, r) => WellFormed(r) /\ r.method = "tools/call"
    BY DEF Begin
  <2>2. GateWaits(s, r) => WellFormed(r) /\ r.method = "tools/call"
    BY DEF GateWaits, Asks, ElevatedCall
  <2>3. calls' = [calls EXCEPT ![s] = TheCall(r)] /\ keyed' = keyed /\ sealed' = sealed
    BY <1>3 DEF Begin, GateWaits
  <2> QED  BY <1>3, <2>1, <2>2, <2>3 DEF Admits
<1>4. ASSUME NEW s \in Slot, GateGrants(s) \/ GateEnds(s) PROVE KeepsCalls
  BY <1>4 DEF GateGrants, GateEnds, KeepsCalls
<1>5. ASSUME NEW s \in Slot, HandlerFails(s) \/ Completes(s) \/ Questions(s) PROVE KeepsCalls
  BY <1>5, EndsACall DEF KeepsCalls
<1> QED  BY <1>1, <1>2, <1>3, <1>4, <1>5, NextSteps

LEMMA GrantSteps ==
  ASSUME WaitsInv, [DispatchNext]_dispatchVars
  PROVE  Buys \/ KeepsGrants
<1>1. UNCHANGED dispatchVars \/ Deliver \/ Tick => KeepsGrants
  BY DEF dispatchVars, Deliver, State, Tick, KeepsGrants
<1>2. ApprovalSide => KeepsGrants
  BY DEF ApprovalSide, KeepsGrants
<1>3. ASSUME NEW r \in Sent, UNCHANGED State \/ Gated(r) PROVE KeepsGrants
  <2>1. CASE UNCHANGED State
    BY <2>1 DEF State, KeepsGrants
  <2>2. CASE Gated(r)
    <3>1. ran' = ran /\ (asks' = asks \/ \E id \in Id : Asks(r, id))
      BY <2>2 DEF Gated
    <3>2. asks' = asks => KeepsGrants
      BY <3>1 DEF KeepsGrants
    <3> QED  BY <3>1, <3>2, AskedOnce
  <2> QED  BY <1>3, <2>1, <2>2
<1>4. ASSUME NEW r \in Sent, NEW s \in Slot, Begin(s, r) PROVE Buys \/ KeepsGrants
  <2>1. CASE UNCHANGED <<asks, ran>>
    BY <2>1 DEF KeepsGrants
  <2>2. CASE Redeems(r) /\ Redeem(r.grant, Inputs(r))
    BY <2>2 DEF Redeems, Buys
  <2> QED  BY <1>4, <2>1, <2>2 DEF Begin
<1>5. ASSUME NEW r \in Sent, NEW s \in Slot, GateWaits(s, r) PROVE KeepsGrants
  <2>1. ran' = ran /\ \E id \in Id : Asks(r, id)
    BY <1>5 DEF GateWaits
  <2> QED  BY <2>1, AskedOnce
<1>6. ASSUME NEW s \in Slot, GateGrants(s) PROVE Buys
  <2>1. waits[s] \in Id /\ Redeem(waits[s], calls[s].inputs)
    BY <1>6 DEF GateGrants, WaitsInv
  <2> QED  BY <2>1 DEF Buys
<1>7. ASSUME NEW s \in Slot, GateEnds(s) PROVE KeepsGrants
  BY <1>7 DEF GateEnds, KeepsGrants
<1>8. ASSUME NEW s \in Slot, HandlerFails(s) \/ Completes(s) \/ Questions(s) PROVE KeepsGrants
  BY <1>8, EndsACall DEF KeepsGrants
<1> QED  BY <1>1, <1>2, <1>3, <1>4, <1>5, <1>6, <1>7, <1>8, NextSteps

LEMMA WaitsInvInit == DispatchInit => WaitsInv
BY DEF DispatchInit, WaitsInv

LEMMA WaitsInvStep == WaitsInv /\ [DispatchNext]_dispatchVars => WaitsInv'
<1> SUFFICES ASSUME WaitsInv, [DispatchNext]_dispatchVars PROVE WaitsInv'
  OBVIOUS
<1>1. UNCHANGED dispatchVars \/ Deliver \/ ApprovalSide \/ Tick => waits' = waits
  BY DEF dispatchVars, Deliver, State, ApprovalSide, Tick
<1>2. ASSUME NEW r \in Sent, UNCHANGED State \/ Gated(r) PROVE waits' = waits
  BY <1>2 DEF State, Gated
<1>3. ASSUME NEW r \in Sent, NEW s \in Slot, Begin(s, r) \/ GateWaits(s, r) PROVE WaitsInv'
  BY <1>3 DEF Begin, GateWaits, WaitsInv
<1>4. ASSUME NEW s \in Slot, GateGrants(s) \/ GateEnds(s) PROVE WaitsInv'
  BY <1>4 DEF GateGrants, GateEnds, WaitsInv
<1>5. ASSUME NEW s \in Slot, HandlerFails(s) \/ Completes(s) \/ Questions(s) PROVE waits' = waits
  BY <1>5, EndsACall
<1> QED  BY <1>1, <1>2, <1>3, <1>4, <1>5, NextSteps DEF WaitsInv

-----------------------------------------------------------------------------
(* The calls that run or wait. *)
RunOK(c, key, states) ==
  /\ c.routed
  /\ c.inputs.token # None =>
       /\ key /\ c.era = Modern /\ c.inputs.token \in states
       /\ <<c.inputs.token.who, c.inputs.token.tool, c.inputs.token.args>>
            = <<c.inputs.who, c.inputs.tool, c.inputs.args>>
       /\ c.openedAt < c.inputs.token.exp

RunInv ==
  /\ calls = [s \in Slot |-> calls[s]]
  /\ \A s \in Slot : calls[s] # None => RunOK(calls[s], keyed, sealed)

LEMMA RunInvInit == DispatchInit => RunInv
BY DEF DispatchInit, RunInv

(* A call that takes a slot has what the checks let through. *)
LEMMA AdmittedRunOK ==
  ASSUME NEW r, WellFormed(r), r.method = "tools/call"
  PROVE  RunOK(TheCall(r), keyed, sealed)
<1> DEFINE c == TheCall(r)
<1>3. r.method = "tools/call" /\ Passed(FormChecks(r, Opens(r)))
  BY DEF WellFormed
<1>4. Opens(r) \in BOOLEAN
  BY DEF Opens
<1>5. Passed(MirrorChecks(r)) /\ Passed(ToolChecks(r)) /\ Passed(RoundChecks(r, Opens(r)))
  BY <1>3, <1>4, FormSound
<1>6. Routed(r)
  BY <1>3, <1>5, PassedIsRouted
<1>7. c.inputs = Inputs(r) /\ c.era = Era(r) /\ c.openedAt = now /\ c.routed = Routed(r)
  BY DEF TheCall
<1>8. /\ Inputs(r).who = r.who /\ Inputs(r).tool = r.tool /\ Inputs(r).args = r.args
      /\ Inputs(r).token = IF Era(r) = Modern THEN r.token ELSE None
  BY DEF Inputs
<1> HIDE DEF c
<1>9. ASSUME c.inputs.token # None
      PROVE  /\ keyed /\ c.era = Modern /\ c.inputs.token \in sealed
             /\ <<c.inputs.token.who, c.inputs.token.tool, c.inputs.token.args>>
                  = <<c.inputs.who, c.inputs.tool, c.inputs.args>>
             /\ c.openedAt < c.inputs.token.exp
  <2>1. Era(r) = Modern /\ c.inputs.token = r.token /\ r.token # None
    BY <1>7, <1>8, <1>9
  <2>2. Opens(r)
    BY <1>4, <1>5, <2>1, PassedOpens
  <2> QED  BY <1>7, <1>8, <2>1, <2>2 DEF Opens
<1>10. RunOK(c, keyed, sealed)
  BY <1>6, <1>7, <1>9 DEF RunOK
<1> QED  BY <1>10 DEF c

LEMMA RunInvStep == RunInv /\ [DispatchNext]_dispatchVars => RunInv'
<1> SUFFICES ASSUME RunInv, [DispatchNext]_dispatchVars PROVE RunInv'
  OBVIOUS
<1>1. CASE Admits
  <2>1. PICK r \in Sent, s \in Slot :
          /\ WellFormed(r) /\ r.method = "tools/call" /\ calls' = [calls EXCEPT ![s] = TheCall(r)]
          /\ keyed' = keyed /\ sealed' = sealed
    BY <1>1 DEF Admits
  <2>2. calls' = [t \in Slot |-> calls'[t]] /\ calls'[s] = TheCall(r) /\ \A t \in Slot \ {s} : calls'[t] = calls[t]
    BY <2>1 DEF RunInv
  <2>3. \A t \in Slot \ {s} : calls'[t] # None => RunOK(calls'[t], keyed', sealed')
    BY <2>1, <2>2 DEF RunInv, RunOK
  <2>4. RunOK(calls'[s], keyed', sealed')
    BY <2>1, <2>2, AdmittedRunOK
  <2> QED  BY <2>2, <2>3, <2>4 DEF RunInv
<1>2. CASE KeepsCalls
  <2>1. keyed' = keyed /\ sealed \subseteq sealed'
    BY <1>2 DEF KeepsCalls
  <2>2. calls' = calls \/ \E s \in Slot : calls' = [calls EXCEPT ![s] = None]
    BY <1>2 DEF KeepsCalls
  <2>3. calls' = [t \in Slot |-> calls'[t]] /\ \A t \in Slot : calls'[t] = calls[t] \/ calls'[t] = None
    BY <2>2 DEF RunInv
  <2>4. \A t \in Slot : calls'[t] # None => RunOK(calls'[t], keyed', sealed')
    BY <2>1, <2>3 DEF RunInv, RunOK
  <2> QED  BY <2>3, <2>4 DEF RunInv
<1> QED  BY <1>1, <1>2, CallSteps

(* For any slots, tools, parameters and requests: a call that reached its handler,
   or waits at the gate, had every header its era asks for, once, and saying what its body says, in
   either era (headers.ts, SH-24 to SH-38; dispatch.ts, callTool). *)
THEOREM RunsAreRouted == DispatchSpec => []RunsAsRouted
<1>1. RunInv => RunsAsRouted
  BY DEF RunInv, RunOK, RunsAsRouted
<1> QED  BY <1>1, RunInvInit, RunInvStep, PTL DEF DispatchSpec

(* A handler resumed with a state, or a call that waits for approval with one, has
   one this node sealed for the same principal, tool and arguments, that had not
   lapsed when the call opened it, with the key set and never on the legacy era
   (request-state.ts MR-4, MR-5); whether it lapses during the wait is not said. *)
THEOREM StatesOpenForTheirCall == DispatchSpec => []StateOpensForItsCall
<1>1. RunInv => StateOpensForItsCall
  BY DEF RunInv, RunOK, StateOpensForItsCall
<1> QED  BY <1>1, RunInvInit, RunInvStep, PTL DEF DispatchSpec

-----------------------------------------------------------------------------
(* The grants. *)
AskState == {"free", "pending", "approved", "gone", "redeemed"}

GrantsInv ==
  /\ \E C : asks \in [Id -> [state : AskState, call : C]]
  /\ \E R : ran \in Seq(R)
  /\ \A i \in DOMAIN ran : ran[i].grant \in Id
  /\ GrantsBuyRuns

LEMMA GrantsInvInit == DispatchInit => GrantsInv
<1> SUFFICES ASSUME DispatchInit PROVE GrantsInv
  OBVIOUS
<1>1. asks \in [Id -> [state : AskState, call : {None}]]
  BY DEF DispatchInit, Unasked, AskState
<1>2. ran \in Seq({}) /\ DOMAIN ran = {}
  BY DEF DispatchInit
<1>3. \A id \in Id : asks[id].state # "redeemed"
  BY DEF DispatchInit, Unasked
<1> QED  BY <1>1, <1>2, <1>3 DEF GrantsInv, GrantsBuyRuns

LEMMA GrantsRedeemed ==
  ASSUME GrantsInv
  PROVE  \A i \in DOMAIN ran : ran[i].grant \in Id /\ asks[ran[i].grant].state = "redeemed"
<1> SUFFICES ASSUME NEW i \in DOMAIN ran
             PROVE  ran[i].grant \in Id /\ asks[ran[i].grant].state = "redeemed"
  OBVIOUS
<1>1. ran[i].grant \in Id /\ asks[ran[i].grant] = [state |-> "redeemed", call |-> ran[i].inputs]
  BY DEF GrantsInv, GrantsBuyRuns
<1> QED  BY <1>1

LEMMA GrantsInvBuys ==
  ASSUME GrantsInv, NEW g \in Id, NEW inputs, Redeem(g, inputs)
  PROVE  GrantsInv'
<1> DEFINE new == [inputs |-> inputs, grant |-> g]
<1>1. /\ asks[g] = [state |-> "approved", call |-> inputs]
      /\ asks' = [asks EXCEPT ![g].state = "redeemed"] /\ ran' = Append(ran, new)
  BY DEF Redeem, ExactCall
<1>2. new.inputs = inputs /\ new.grant = g
  OBVIOUS
<1>3. asks[g].state = "approved" /\ asks[g].call = inputs
  BY <1>1
<1>4. PICK C : asks \in [Id -> [state : AskState, call : C]]
  BY DEF GrantsInv
<1>5. PICK R : ran \in Seq(R)
  BY DEF GrantsInv
<1>6. /\ asks' \in [Id -> [state : AskState, call : C]]
      /\ asks'[g] = [state |-> "redeemed", call |-> inputs]
      /\ \A id \in Id \ {g} : asks'[id] = asks[id]
  BY <1>1, <1>3, <1>4 DEF AskState
<1> HIDE DEF new
<1>7. /\ ran' \in Seq(R \cup {new}) /\ DOMAIN ran' = DOMAIN ran \cup {Len(ran) + 1}
      /\ ran'[Len(ran) + 1] = new /\ \A i \in DOMAIN ran : ran'[i] = ran[i]
      /\ Len(ran) + 1 \notin DOMAIN ran
  BY <1>1, <1>5 DEF new
<1>8. \A i \in DOMAIN ran : ran[i].grant \in Id \ {g}
  <2>1. \A i \in DOMAIN ran : ran[i].grant \in Id /\ asks[ran[i].grant].state = "redeemed"
    BY GrantsRedeemed
  <2> QED  BY <2>1, <1>3
<1>9. \A i, k \in DOMAIN ran' : i # k => ran'[i].grant # ran'[k].grant
  BY <1>2, <1>7, <1>8 DEF GrantsInv, GrantsBuyRuns
<1>10. \A i \in DOMAIN ran' : /\ ran'[i].grant \in Id
                              /\ asks'[ran'[i].grant] = [state |-> "redeemed", call |-> ran'[i].inputs]
  BY <1>1, <1>2, <1>6, <1>7, <1>8 DEF GrantsInv, GrantsBuyRuns
<1>11. \A id \in Id : asks'[id].state = "redeemed" => \E i \in DOMAIN ran' : ran'[i].grant = id
  BY <1>2, <1>6, <1>7 DEF GrantsInv, GrantsBuyRuns
<1> QED  BY <1>6, <1>7, <1>9, <1>10, <1>11 DEF GrantsInv, GrantsBuyRuns

LEMMA GrantsInvKeeps == GrantsInv /\ KeepsGrants => GrantsInv'
<1> SUFFICES ASSUME GrantsInv, KeepsGrants PROVE GrantsInv'
  OBVIOUS
<1>1. ran' = ran
  BY DEF KeepsGrants
<1>2. PICK C : asks \in [Id -> [state : AskState, call : C]]
  BY DEF GrantsInv
<1>3. CASE asks' = asks
  BY <1>1, <1>3 DEF GrantsInv, GrantsBuyRuns
<1>4. ASSUME NEW id \in Id, asks[id].state # "redeemed", NEW D, asks' \in [Id -> [state : AskState, call : D]],
             asks'[id].state # "redeemed", \A other \in Id \ {id} : asks'[other] = asks[other]
      PROVE  GrantsInv'
  <2>1. \A i \in DOMAIN ran : ran[i].grant \in Id /\ asks[ran[i].grant].state = "redeemed"
    BY GrantsRedeemed
  <2>2. \A i \in DOMAIN ran : ran[i].grant # id
    BY <1>4, <2>1
  <2>3. \A i \in DOMAIN ran : asks'[ran[i].grant] = asks[ran[i].grant]
    BY <1>4, <2>1, <2>2
  <2>4. GrantsBuyRuns'
    BY <1>1, <1>4, <2>3 DEF GrantsInv, GrantsBuyRuns
  <2> QED  BY <1>1, <1>4, <2>4 DEF GrantsInv
<1>5. ASSUME NEW id \in Id, NEW c, asks[id].state = "free",
             asks' = [asks EXCEPT ![id] = [state |-> "pending", call |-> c]]
      PROVE  GrantsInv'
  <2>1. /\ asks' \in [Id -> [state : AskState, call : C \cup {c}]]
        /\ asks'[id].state = "pending" /\ \A other \in Id \ {id} : asks'[other] = asks[other]
    BY <1>2, <1>5 DEF AskState
  <2> QED  BY <1>4, <1>5, <2>1
<1>6. ASSUME NEW id \in Id, NEW next \in {"approved", "gone"}, asks[id].state \in {"pending", "approved"},
             asks' = [asks EXCEPT ![id].state = next]
      PROVE  GrantsInv'
  <2>1. /\ asks' \in [Id -> [state : AskState, call : C]]
        /\ asks'[id].state = next /\ \A other \in Id \ {id} : asks'[other] = asks[other]
    BY <1>2, <1>6 DEF AskState
  <2> QED  BY <1>4, <1>6, <2>1
<1> QED  BY <1>3, <1>5, <1>6 DEF KeepsGrants

LEMMA GrantsInvStep == WaitsInv /\ GrantsInv /\ [DispatchNext]_dispatchVars => GrantsInv'
BY GrantSteps, GrantsInvBuys, GrantsInvKeeps DEF Buys

(* However calls, retries and approvals interleave, every run of an elevated tool
   has a grant of its own for all the handler is given, named by its call or waited
   for, and every grant redeemed
   bought a run (APR-1 to APR-3; dispatch.ts, gateApproval and runHandlerOnce). *)
THEOREM GrantsDoBuyRuns == DispatchSpec => []GrantsBuyRuns
<1>1. GrantsInv => GrantsBuyRuns
  BY DEF GrantsInv
<1> QED  BY <1>1, GrantsInvInit, GrantsInvStep, WaitsInvInit, WaitsInvStep, PTL DEF DispatchSpec

-----------------------------------------------------------------------------
(* The answers. *)
RowsOf(q, names) == {i \in DOMAIN q : q[i] \in names}
Refusing(q) == DOMAIN q \ RowsOf(q, {"tool-call", "approval-refused"})

Reaching(q) == RowsOf(q, {"containment-refused"})

(* The rows of n refusals, n at most 1. *)
Refuses(q, n) ==
  IF n = 0 THEN Refusing(q) = {}
  ELSE IF Reaching(q) = {} THEN Cardinality(Refusing(q)) = 1 ELSE Refusing(q) = Reaching(q)

(* The rows of n refusals, and m of calls. *)
Tally(q, n, m) == Refuses(q, n) /\ Cardinality(RowsOf(q, {"tool-call"})) = m

AnswerOK(a) ==
  /\ Tally(a.rows, IF a.code = None THEN 0 ELSE 1, IF a.ran THEN 1 ELSE 0)
  /\ a.code # None => (a.status = 200 <=> a.era = Legacy /\ a.code # "header-mismatch")

(* A legacy client gets its errors at 200, but for a header mismatch. *)
Mapped(era, refusal) == refusal.status = 200 <=> era = Legacy /\ refusal.code # "header-mismatch"

(* The rows a call may have left before its answer. *)
Own(rows, didRun) ==
  \/ didRun /\ rows = <<"tool-call">>
  \/ ~didRun /\ rows \in {<< >>, <<"approval-refused">>}

LEMMA AnswerIs == AnsweredOnce <=> AnswerOK(answer)
BY DEF AnsweredOnce, AnswerOK, Tally, Refuses, Reaching, Refusing, RowsOf

LEMMA Tallied ==
  ASSUME NEW x, x \notin {"tool-call", "approval-refused"}
  PROVE  /\ Tally(<< >>, 0, 0) /\ Tally(<<"tool-call">>, 0, 1) /\ Tally(<<"approval-refused">>, 0, 0)
         /\ Tally(<<x>>, 1, 0) /\ Tally(<<x, "approval-refused">>, 1, 0)
         /\ Tally(<<"approval-refused", x>>, 1, 0)
         /\ Tally(<<x, "tool-call">>, 1, 1) /\ Tally(<<"tool-call", x>>, 1, 1)
<1>1. Cardinality({}) = 0 /\ Cardinality({1}) = 1 /\ Cardinality({2}) = 1
  BY FS_EmptySet, FS_Singleton
<1>2. Refusing(<< >>) = {} /\ RowsOf(<< >>, {"tool-call"}) = {}
  BY DEF Refusing, RowsOf
<1>3. Refusing(<<"tool-call">>) = {} /\ RowsOf(<<"tool-call">>, {"tool-call"}) = {1}
  BY DEF Refusing, RowsOf
<1>4. Refusing(<<"approval-refused">>) = {} /\ RowsOf(<<"approval-refused">>, {"tool-call"}) = {}
  BY DEF Refusing, RowsOf
<1>5. Refusing(<<x>>) = {1} /\ RowsOf(<<x>>, {"tool-call"}) = {}
  BY DEF Refusing, RowsOf
<1>6. Refusing(<<x, "approval-refused">>) = {1} /\ RowsOf(<<x, "approval-refused">>, {"tool-call"}) = {}
  BY DEF Refusing, RowsOf
<1>7. Refusing(<<"approval-refused", x>>) = {2} /\ RowsOf(<<"approval-refused", x>>, {"tool-call"}) = {}
  BY DEF Refusing, RowsOf
<1>8. Refusing(<<x, "tool-call">>) = {1} /\ RowsOf(<<x, "tool-call">>, {"tool-call"}) = {2}
  BY DEF Refusing, RowsOf
<1>9. Refusing(<<"tool-call", x>>) = {2} /\ RowsOf(<<"tool-call", x>>, {"tool-call"}) = {1}
  BY DEF Refusing, RowsOf
<1>10. \A q, k : Refusing(q) = {k} => Refuses(q, 1)
  <2> SUFFICES ASSUME NEW q, NEW k, Refusing(q) = {k} PROVE Refuses(q, 1)
    OBVIOUS
  <2>1. Reaching(q) \subseteq {k}
    BY DEF Reaching, Refusing, RowsOf
  <2>2. Cardinality({k}) = 1
    BY FS_Singleton
  <2> QED  BY <2>1, <2>2 DEF Refuses
<1>11. \A q : Refusing(q) = {} => Refuses(q, 0)
  BY DEF Refuses
<1> QED  BY <1>1, <1>2, <1>3, <1>4, <1>5, <1>6, <1>7, <1>8, <1>9, <1>10, <1>11 DEF Tally

LEMMA NothingTallied == Tally(<< >>, 0, 0)
<1>1. "rpc-refused" \notin {"tool-call", "approval-refused"}
  OBVIOUS
<1> QED  BY <1>1, Tallied

LEMMA Joined ==
  ASSUME NEW x, NEW y
  PROVE  /\ <<x>> \o << >> = <<x>> /\ << >> \o <<y>> = <<y>> /\ << >> \o << >> = << >>
         /\ <<x>> \o <<y>> = <<x, y>> /\ <<x, y>> \o << >> = <<x, y>>
<1>1. <<x>> \o <<y>> = <<x, y>>
  <2> DEFINE S == {x, y}  one == <<x>>  two == <<y>>  both == <<x, y>>
  <2>1. one \in Seq(S) /\ two \in Seq(S) /\ both \in Seq(S)
    OBVIOUS
  <2>2. Len(one) = 1 /\ Len(two) = 1 /\ Len(both) = 2 /\ one[1] = x /\ two[1] = y /\ both[1] = x /\ both[2] = y
    OBVIOUS
  <2> HIDE DEF S, one, two, both
  <2>3. /\ one \o two \in Seq(S) /\ Len(one \o two) = 2
        /\ (one \o two)[1] = x /\ (one \o two)[2] = y
    <3>1. /\ one \o two \in Seq(S) /\ Len(one \o two) = Len(one) + Len(two)
          /\ \A i \in 1 .. Len(one) + Len(two) :
               (one \o two)[i] = IF i <= Len(one) THEN one[i] ELSE two[i - Len(one)]
      BY <2>1, ConcatProperties
    <3> QED  BY <2>2, <3>1
  <2>4. one \o two = both
    <3>1. \A i \in 1 .. 2 : (one \o two)[i] = both[i]
      BY <2>2, <2>3
    <3> QED  BY <2>1, <2>2, <2>3, <3>1, SeqEqual
  <2> QED  BY <2>4 DEF one, two, both
<1>2. <<x>> \o << >> = <<x>> /\ << >> \o <<y>> = <<y>> /\ << >> \o << >> = << >>
  OBVIOUS
<1>3. <<x, y>> \o << >> = <<x, y>>
  OBVIOUS
<1> QED  BY <1>1, <1>2, <1>3

(* A refusal's answer, of a call that ran or of one that did not. *)
LEMMA RefusedOnce ==
  ASSUME NEW who, NEW era, NEW refusal, NEW rows, NEW didRun \in BOOLEAN,
         WellMade(refusal), Mapped(era, refusal),
         Own(rows, didRun),
         Refused(who, era, refusal, rows, didRun)
  PROVE  AnswerOK(answer')
<1> DEFINE all == OwnRows(refusal) \o rows \o Closing(refusal)
<1>1. /\ answer'.code = refusal.code /\ answer'.status = refusal.status /\ answer'.era = era
      /\ answer'.ran = didRun /\ answer'.rows = all
  BY DEF Refused
<1>2. refusal.code # None /\ refusal.row \in OwnRefusalRow \cup {None} /\ refusal.audited \in BOOLEAN
  BY EraAssumption DEF WellMade, Refusals
<1>3. Tally(all, 1, IF didRun THEN 1 ELSE 0)
  <2>1. CASE refusal.audited
    <3>1. refusal.row \in OwnRefusalRow /\ refusal.row # None
      BY <1>2, <2>1 DEF WellMade
    <3>2. refusal.row \notin {"tool-call", "approval-refused"}
      BY <3>1 DEF OwnRefusalRow
    <3>3. OwnRows(refusal) = <<refusal.row>> /\ Closing(refusal) = << >>
      BY <2>1, <3>1 DEF OwnRows, Closing
    <3>4. CASE didRun /\ rows = <<"tool-call">>
      <4>1. all = <<refusal.row, "tool-call">>
        BY <3>3, <3>4, Joined
      <4> HIDE DEF all
      <4> QED  BY <3>2, <3>4, <4>1, Tallied
    <3>5. CASE ~didRun /\ rows = << >>
      <4>1. all = <<refusal.row>>
        BY <3>3, <3>5, Joined
      <4> HIDE DEF all
      <4> QED  BY <3>2, <3>5, <4>1, Tallied
    <3>6. CASE ~didRun /\ rows = <<"approval-refused">>
      <4>1. all = <<refusal.row, "approval-refused">>
        BY <3>3, <3>6, Joined
      <4> HIDE DEF all
      <4> QED  BY <3>2, <3>6, <4>1, Tallied
    <3> QED  BY <3>4, <3>5, <3>6 DEF Own
  <2>2. CASE ~refusal.audited
    <3>1. OwnRows(refusal) = << >> /\ Closing(refusal) = <<"rpc-refused">>
      BY <1>2, <2>2 DEF OwnRows, Closing, WellMade
    <3>2. "rpc-refused" \notin {"tool-call", "approval-refused"}
      OBVIOUS
    <3>4. CASE didRun /\ rows = <<"tool-call">>
      <4>1. all = <<"tool-call", "rpc-refused">>
        BY <3>1, <3>4, Joined
      <4> HIDE DEF all
      <4> QED  BY <3>2, <3>4, <4>1, Tallied
    <3>5. CASE ~didRun /\ rows = << >>
      <4>1. all = <<"rpc-refused">>
        BY <3>1, <3>5, Joined
      <4> HIDE DEF all
      <4> QED  BY <3>2, <3>5, <4>1, Tallied
    <3>6. CASE ~didRun /\ rows = <<"approval-refused">>
      <4>1. all = <<"approval-refused", "rpc-refused">>
        BY <3>1, <3>6, Joined
      <4> HIDE DEF all
      <4> QED  BY <3>2, <3>6, <4>1, Tallied
    <3> QED  BY <3>4, <3>5, <3>6 DEF Own
  <2> QED  BY <1>2, <2>1, <2>2
<1> QED  BY <1>1, <1>2, <1>3 DEF AnswerOK, Mapped

LEMMA ResultOnce ==
  ASSUME NEW who, NEW era, NEW rows, NEW didRun \in BOOLEAN,
         Own(rows, didRun),
         Result(who, era, rows, didRun)
  PROVE  AnswerOK(answer')
<1>1. answer'.code = None /\ answer'.rows = rows /\ answer'.ran = didRun
  BY DEF Result, NoAnswer
<1>2. Tally(rows, 0, IF didRun THEN 1 ELSE 0)
  <2>1. "rpc-refused" \notin {"tool-call", "approval-refused"}
    OBVIOUS
  <2> QED  BY <2>1, Tallied DEF Own
<1> QED  BY <1>1, <1>2 DEF AnswerOK

(* The mapping of a status to its era. *)
LEMMA MappedOnce ==
  ASSUME NEW era, NEW refusal, WellMade(refusal), refusal.status # 200
  PROVE  WellMade(StatusForEra(era, refusal)) /\ Mapped(era, StatusForEra(era, refusal))
<1>1. CASE era = Legacy /\ refusal.code # "header-mismatch"
  <2>1. StatusForEra(era, refusal) = [refusal EXCEPT !.status = 200]
    BY <1>1 DEF StatusForEra
  <2> QED  BY <1>1, <2>1 DEF WellMade, Refusals, Mapped
<1>2. CASE ~(era = Legacy /\ refusal.code # "header-mismatch")
  <2>1. StatusForEra(era, refusal) = refusal
    BY <1>2 DEF StatusForEra
  <2> QED  BY <1>2, <2>1 DEF Mapped
<1> QED  BY <1>1, <1>2

LEMMA RunRefusalsWellMade ==
  /\ \A row \in OwnRefusalRow :
       WellMade(Audited(row, "internal", 500)) /\ Audited(row, "internal", 500).status # 200
  /\ WellMade(Internal) /\ Internal.status # 200
<1>1. ASSUME NEW row \in OwnRefusalRow
      PROVE  WellMade(Audited(row, "internal", 500)) /\ Audited(row, "internal", 500).status # 200
  <2>1. Audited(row, "internal", 500) \in Refusals
    BY Names DEF Audited, Refusals
  <2> QED  BY <2>1, EraAssumption DEF Audited, WellMade
<1>2. WellMade(Internal) /\ Internal.status # 200
  <2>1. Internal \in Refusals
    BY Names DEF Internal, Refusal, Refusals
  <2>2. Internal.audited = FALSE /\ Internal.row = None /\ Internal.status # 200
    BY DEF Internal, Refusal
  <2> QED  BY <2>1, <2>2 DEF WellMade
<1> QED  BY <1>1, <1>2

LEMMA SeqOf ==
  ASSUME NEW S, NEW s \in Seq(S), NEW T, \A i \in 1 .. Len(s) : s[i] \in T
  PROVE  s \in Seq(T)
OBVIOUS

(* A refusal before dispatch has a name that is no call's. *)
LEMMA FaultSound ==
  ASSUME NEW r, ~Passed(HttpChecks(r))
  PROVE  HttpFault(r) \in Fault
<1> DEFINE order == IF r.path = "endpoint" THEN OnEveryRoute \o Unauthenticated \o Authenticated ELSE OnEveryRoute
<1>1. OnEveryRoute \in Seq(Fault) /\ Unauthenticated \in Seq(Fault) /\ Authenticated \in Seq(Fault)
  <2>1. /\ Len(OnEveryRoute) = 6
        /\ OnEveryRoute \in
             Seq({"request-target", "not-found", "host-count", "method", "host-not-allowed", "origin-not-allowed"})
    BY DEF OnEveryRoute
  <2>2. /\ Len(Unauthenticated) = 6
        /\ Unauthenticated \in
             Seq({"duplicate-authorization", "token-elsewhere", "verifier-timeout", "verifier-contract",
                  "auth-unavailable", "auth-refused"})
    BY DEF Unauthenticated
  <2>3. /\ Len(Authenticated) = 13
        /\ Authenticated \in
             Seq({"rate-limited", "capacity", "not-acceptable", "content-type", "content-coding",
                  "transfer-coding", "body-too-large", "body-not-utf8", "body-depth", "duplicate-key",
                  "lone-surrogate", "parse-error", "framing"})
    BY DEF Authenticated
  <2>4. /\ \A i \in 1 .. 6 : OnEveryRoute[i] \in Fault /\ Unauthenticated[i] \in Fault
        /\ \A i \in 1 .. 13 : Authenticated[i] \in Fault
    BY DEF Fault
  <2>5. OnEveryRoute \in Seq(Fault)
    BY <2>1, <2>4, SeqOf
  <2>6. Unauthenticated \in Seq(Fault)
    BY <2>2, <2>4, SeqOf
  <2>7. Authenticated \in Seq(Fault)
    BY <2>3, <2>4, SeqOf
  <2> QED  BY <2>5, <2>6, <2>7
<1>2. order \in Seq(Fault)
  BY <1>1
<1>3. HttpChecks(r) = [i \in DOMAIN order |-> [when |-> order[i] \in r.faults, name |-> order[i]]]
  BY DEF HttpChecks
<1> HIDE DEF order
<1> DEFINE found == CHOOSE i \in Failing(HttpChecks(r)) : \A k \in Failing(HttpChecks(r)) : i <= k
<1>4. DOMAIN HttpChecks(r) = DOMAIN order /\ DOMAIN order \subseteq Nat
  BY <1>2, <1>3
<1>5. found \in DOMAIN order
  <2>1. Failing(HttpChecks(r)) \in SUBSET Nat /\ Failing(HttpChecks(r)) # {}
    BY <1>4 DEF Passed, Failing
  <2>2. found \in Failing(HttpChecks(r))
    BY <2>1, Least
  <2> QED  BY <1>4, <2>2 DEF Failing
<1> HIDE DEF found
<1>6. HttpFault(r) = order[found]
  BY <1>3, <1>5 DEF HttpFault, FirstOf, found
<1> QED  BY <1>2, <1>5, <1>6

LEMMA HttpRefusedOnce ==
  ASSUME NEW r, HttpRefused(r)
  PROVE  AnswerOK(answer')
<1> DEFINE fault == HttpFault(r)  row == IF fault \in OwnRow THEN fault ELSE "http-refused"
<1>1. fault # None
  BY FaultSound, EraAssumption DEF HttpRefused
<1>2. /\ answer'.code = fault /\ answer'.status = 400 /\ answer'.era = None
      /\ answer'.rows = <<row>> /\ answer'.ran = FALSE
  BY DEF HttpRefused, NoAnswer
<1>3. row \notin {"tool-call", "approval-refused"}
  BY DEF OwnRow
<1> HIDE DEF row, fault
<1>4. Tally(<<row>>, 1, 0)
  BY <1>3, Tallied
<1> QED  BY <1>1, <1>2, <1>4, EraAssumption DEF AnswerOK

(* Before the handler ran, and after it did. *)
LEMMA SendsOnce ==
  ASSUME NEW who, NEW era, NEW rows, NEW didRun \in BOOLEAN, Own(rows, didRun), Sends(who, era, rows, didRun)
  PROVE  AnswerOK(answer')
<1>1. WellMade(OverCap(era)) /\ Mapped(era, OverCap(era))
  <2>1. /\ WellMade(Audited("result-over-cap", "internal", 500))
        /\ Audited("result-over-cap", "internal", 500).status # 200
    BY RunRefusalsWellMade, Names
  <2> QED  BY <2>1, MappedOnce DEF OverCap
<1> QED  BY <1>1, RefusedOnce, ResultOnce DEF Sends

LEMMA RefusedRunOnce ==
  ASSUME NEW s, NEW refusal, WellMade(refusal), refusal.status # 200, RefusedRun(s, refusal)
  PROVE  AnswerOK(answer')
<1>1. Own(<<"tool-call">>, TRUE)
  BY DEF Own
<1> DEFINE era == calls[s].era  mapped == StatusForEra(era, refusal)
<1>2. WellMade(mapped) /\ Mapped(era, mapped)
  BY MappedOnce
<1>3. Refused(calls[s].inputs.who, era, mapped, <<"tool-call">>, TRUE)
  BY DEF RefusedRun, FailedRun
<1> HIDE DEF mapped, era
<1> QED  BY <1>1, <1>2, <1>3, RefusedOnce

(* A row for each refused reach, and the call's. *)
LEMMA ReachesTallied ==
  ASSUME NEW n \in Nat
  PROVE  Tally(<<"containment-refused">> \o (FurtherReaches(n) \o <<"tool-call">>) \o << >>, 1, 1)
<1> DEFINE x == "containment-refused"  S == {x, "tool-call"}
           one == <<x>>  more == FurtherReaches(n)  call == <<"tool-call">>  rows == more \o call
           all == one \o rows \o << >>
<1>1. one \in Seq(S) /\ Len(one) = 1 /\ one[1] = x
  OBVIOUS
<1>2. call \in Seq(S) /\ Len(call) = 1 /\ call[1] = "tool-call"
  OBVIOUS
<1>3. more \in Seq(S) /\ Len(more) = n /\ \A i \in 1 .. n : more[i] = x
  BY DEF FurtherReaches
<1> HIDE DEF one, more, call, S
<1>4. /\ rows \in Seq(S) /\ Len(rows) = n + 1
      /\ \A i \in 1 .. n + 1 : rows[i] = IF i <= n THEN more[i] ELSE call[i - n]
  <2>1. /\ rows \in Seq(S) /\ Len(rows) = Len(more) + Len(call)
        /\ \A i \in 1 .. Len(more) + Len(call) : rows[i] = IF i <= Len(more) THEN more[i] ELSE call[i - Len(more)]
    BY <1>2, <1>3, ConcatProperties
  <2> QED  BY <1>2, <1>3, <2>1
<1>5. rows[n + 1] = "tool-call" /\ \A i \in 1 .. n : rows[i] = x
  <2>1. n + 1 \in 1 .. n + 1 /\ ~(n + 1 <= n) /\ (n + 1) - n = 1
    OBVIOUS
  <2>2. \A i \in 1 .. n : i \in 1 .. n + 1 /\ i <= n
    OBVIOUS
  <2> QED  BY <1>2, <1>3, <1>4, <2>1, <2>2
<1> HIDE DEF rows
<1>6. /\ one \o rows \in Seq(S) /\ Len(one \o rows) = n + 2
      /\ \A i \in 1 .. n + 2 : (one \o rows)[i] = IF i <= 1 THEN one[i] ELSE rows[i - 1]
  <2>1. /\ one \o rows \in Seq(S) /\ Len(one \o rows) = 1 + (n + 1)
        /\ \A i \in 1 .. 1 + (n + 1) : (one \o rows)[i] = IF i <= 1 THEN one[i] ELSE rows[i - 1]
    BY <1>1, <1>4, ConcatProperties
  <2>2. 1 + (n + 1) = n + 2
    OBVIOUS
  <2> QED  BY <2>1, <2>2
<1>7. all = one \o rows
  BY <1>6
<1>8. /\ DOMAIN all = 1 .. n + 2 /\ all[n + 2] = "tool-call"
      /\ \A i \in 1 .. n + 1 : all[i] = x
  <2>1. DOMAIN all = 1 .. n + 2
    BY <1>6, <1>7
  <2>2. n + 2 \in 1 .. n + 2 /\ ~(n + 2 <= 1) /\ (n + 2) - 1 = n + 1
    OBVIOUS
  <2>3. all[n + 2] = "tool-call"
    BY <1>5, <1>6, <1>7, <2>2
  <2>4. ASSUME NEW i \in 1 .. n + 1 PROVE all[i] = x
    <3>1. i \in 1 .. n + 2
      OBVIOUS
    <3>2. CASE i = 1
      BY <1>1, <1>6, <1>7, <3>1, <3>2
    <3>3. CASE i # 1
      <4>1. ~(i <= 1) /\ i - 1 \in 1 .. n
        BY <3>3
      <4> QED  BY <1>5, <1>6, <1>7, <3>1, <4>1
    <3> QED  BY <3>2, <3>3
  <2> QED  BY <2>1, <2>3, <2>4
<1> HIDE DEF all
<1>9. 1 .. n + 2 = (1 .. n + 1) \cup {n + 2} /\ n + 2 \notin 1 .. n + 1 /\ 1 \in 1 .. n + 1
  OBVIOUS
<1>10. RowsOf(all, {"tool-call"}) = {n + 2}
  BY <1>8, <1>9 DEF RowsOf, x
<1>11. RowsOf(all, {"tool-call", "approval-refused"}) = {n + 2}
  BY <1>8, <1>9 DEF RowsOf, x
<1>12. Reaching(all) = 1 .. n + 1
  BY <1>8, <1>9 DEF Reaching, RowsOf, x
<1>13. Refusing(all) = 1 .. n + 1
  BY <1>8, <1>9, <1>11 DEF Refusing
<1>14. Refuses(all, 1)
  BY <1>9, <1>12, <1>13 DEF Refuses
<1>15. Cardinality(RowsOf(all, {"tool-call"})) = 1
  BY <1>10, FS_Singleton
<1> QED  BY <1>14, <1>15 DEF Tally, all, rows, one, more, call, x

LEMMA ContainedOnce ==
  ASSUME NEW s, NEW n \in Nat,
         FailedRun(s, Audited("containment-refused", "internal", 500), FurtherReaches(n) \o <<"tool-call">>)
  PROVE  AnswerOK(answer')
<1> DEFINE refusal == Audited("containment-refused", "internal", 500)  era == calls[s].era
           mapped == StatusForEra(era, refusal)  rows == FurtherReaches(n) \o <<"tool-call">>
<1>1. WellMade(refusal) /\ refusal.status # 200
  BY RunRefusalsWellMade, Names
<1>2. WellMade(mapped) /\ Mapped(era, mapped)
  BY <1>1, MappedOnce
<1>3. mapped.row = "containment-refused" /\ mapped.audited = TRUE
  BY DEF StatusForEra, Audited
<1>4. Refused(calls[s].inputs.who, era, mapped, rows, TRUE)
  BY DEF FailedRun
<1>5. "containment-refused" # None /\ mapped.code # None
  <2>1. "containment-refused" # None
    BY Names, EraAssumption
  <2> HIDE DEF mapped
  <2> QED  BY <1>2, <2>1, EraAssumption DEF WellMade, Refusals
<1> HIDE DEF mapped, era, rows
<1>6. OwnRows(mapped) = <<"containment-refused">> /\ Closing(mapped) = << >>
  BY <1>3, <1>5 DEF OwnRows, Closing
<1>7. /\ answer'.code = mapped.code /\ answer'.status = mapped.status /\ answer'.era = era
      /\ answer'.ran = TRUE /\ answer'.rows = <<"containment-refused">> \o rows \o << >>
  BY <1>4, <1>6 DEF Refused
<1>8. Tally(answer'.rows, 1, 1)
  BY <1>7, ReachesTallied DEF rows
<1> QED  BY <1>2, <1>5, <1>7, <1>8 DEF AnswerOK, Mapped

LEMMA FormRefusedOnce ==
  ASSUME NEW r, FormRefused(r)
  PROVE  AnswerOK(answer')
<1> DEFINE first == FirstOf(FormChecks(r, Opens(r))).refusal
<1>1. WellMade(first) /\ first.status # 200
  <2>1. Opens(r) \in BOOLEAN
    BY DEF Opens
  <2>2. FirstOf(FormChecks(r, Opens(r))) \in Sound
    BY <2>1, FormSound, FirstSound DEF FormRefused
  <2> QED  BY <2>2 DEF Sound
<1>2. Own(<< >>, FALSE)
  BY DEF Own
<1>3. CASE Passed(EraChecks(r))
  <2> DEFINE mapped == StatusForEra(Era(r), first)
  <2>1. Refused(r.who, Era(r), mapped, << >>, FALSE)
    BY <1>3 DEF FormRefused, FormRefusal
  <2> HIDE DEF first
  <2>2. WellMade(mapped) /\ Mapped(Era(r), mapped)
    BY <1>1, MappedOnce
  <2> HIDE DEF mapped
  <2> QED  BY <1>2, <2>1, <2>2, RefusedOnce
<1>4. CASE ~Passed(EraChecks(r))
  <2>1. Refused(r.who, None, first, << >>, FALSE)
    BY <1>4 DEF FormRefused, FormRefusal
  <2>2. None # Legacy
    BY EraAssumption
  <2> HIDE DEF first
  <2>3. Mapped(None, first)
    BY <1>1, <2>2 DEF Mapped
  <2> QED  BY <1>1, <1>2, <2>1, <2>3, RefusedOnce
<1> QED  BY <1>3, <1>4

LEMMA NotificationOnce ==
  ASSUME NEW r, Notification(r)
  PROVE  AnswerOK(answer')
<1>1. Own(<< >>, FALSE)
  BY DEF Own
<1>2. CASE Passed(NotificationChecks(r))
  BY <1>1, <1>2, ResultOnce DEF Notification
<1>3. CASE ~Passed(NotificationChecks(r))
  <2> DEFINE first == FirstOf(NotificationChecks(r)).refusal
  <2>1. Refused(r.who, None, first, << >>, FALSE)
    BY <1>3 DEF Notification
  <2>2. WellMade(first) /\ first.status # 200
    BY <1>3, NotificationSound, FirstSound DEF Sound
  <2>3. None # Legacy
    BY EraAssumption
  <2> HIDE DEF first
  <2>4. Mapped(None, first)
    BY <2>2, <2>3 DEF Mapped
  <2> QED  BY <1>1, <2>1, <2>2, <2>4, RefusedOnce
<1> QED  BY <1>2, <1>3

LEMMA HandledOnce ==
  ASSUME NEW r, Handle(r), AnswerOK(answer)
  PROVE  AnswerOK(answer')
<1>1. Own(<< >>, FALSE) /\ Own(<<"approval-refused">>, FALSE)
  BY DEF Own
<1>2. Public(r) => AnswerOK(answer')
  BY <1>1, ResultOnce DEF Public
<1>3. Answered(r) => AnswerOK(answer')
  BY <1>1, SendsOnce DEF Answered
<1>4. Gated(r) => AnswerOK(answer')
  <2>1. r.large \/ ~r.large
    OBVIOUS
  <2> QED  BY <1>1, <2>1, SendsOnce DEF Gated
<1>5. \A s \in Slot : Begin(s, r) \/ GateWaits(s, r) => AnswerOK(answer')
  BY DEF Begin, GateWaits
<1> QED
  BY <1>2, <1>3, <1>4, <1>5, HttpRefusedOnce, NotificationOnce, FormRefusedOnce DEF Handle

LEMMA EndedOnce ==
  ASSUME NEW s, HandlerFails(s) \/ Completes(s) \/ Questions(s)
  PROVE  AnswerOK(answer')
<1>1. Own(<<"tool-call">>, TRUE)
  BY DEF Own
<1>2. CASE HandlerFails(s)
  <2>1. ASSUME NEW row \in Thrown, RefusedRun(s, Audited(row, "internal", 500))
        PROVE  AnswerOK(answer')
    <3>1. WellMade(Audited(row, "internal", 500)) /\ Audited(row, "internal", 500).status # 200
      BY RunRefusalsWellMade, Names
    <3> QED  BY <2>1, <3>1, RefusedRunOnce
  <2>2. ASSUME NEW n \in 0 .. MaxReaches - 1,
               FailedRun(s, Audited("containment-refused", "internal", 500), FurtherReaches(n) \o <<"tool-call">>)
        PROVE  AnswerOK(answer')
    <3>1. n \in Nat
      BY DispatchAssumption
    <3> QED  BY <2>2, <3>1, ContainedOnce
  <2> QED  BY <1>2, <2>1, <2>2 DEF HandlerFails
<1>3. CASE Completes(s)
  <2>1. WellMade(Internal) /\ Internal.status # 200
    BY RunRefusalsWellMade
  <2> QED  BY <1>1, <1>3, <2>1, SendsOnce, RefusedRunOnce DEF Completes
<1>4. CASE Questions(s)
  <2>1. PICK asked \in {None} \cup SUBSET (Capability \cup {"unknown"}), withState \in BOOLEAN :
          LET checks == QuestionChecks(calls[s], asked, withState) IN
          IF ~Passed(checks) THEN RefusedRun(s, FirstOf(checks).refusal)
          ELSE Sends(calls[s].inputs.who, calls[s].era, <<"tool-call">>, TRUE)
    BY <1>4 DEF Questions
  <2> DEFINE checks == QuestionChecks(calls[s], asked, withState)
  <2>2. checks \in Seq(Sound)
    BY QuestionSound
  <2> HIDE DEF checks
  <2>3. ~Passed(checks) => WellMade(FirstOf(checks).refusal) /\ FirstOf(checks).refusal.status # 200
    BY <2>2, FirstSound DEF Sound
  <2>4. IF ~Passed(checks) THEN RefusedRun(s, FirstOf(checks).refusal)
        ELSE Sends(calls[s].inputs.who, calls[s].era, <<"tool-call">>, TRUE)
    BY <2>1 DEF checks
  <2> QED  BY <1>1, <2>3, <2>4, SendsOnce, RefusedRunOnce
<1> QED  BY <1>2, <1>3, <1>4

LEMMA GateEndedOnce ==
  ASSUME NEW s, GateGrants(s) \/ GateEnds(s), AnswerOK(answer)
  PROVE  AnswerOK(answer')
<1>1. Own(<< >>, FALSE)
  BY DEF Own
<1>2. GateEnds(s) => AnswerOK(answer')
  BY <1>1, SendsOnce DEF GateEnds
<1>3. GateGrants(s) => AnswerOK(answer')
  BY DEF GateGrants
<1> QED  BY <1>2, <1>3

LEMMA AnswerOKInit == DispatchInit => AnswerOK(answer)
BY NothingTallied DEF DispatchInit, NoAnswer, AnswerOK

LEMMA AnswerOKStep == AnswerOK(answer) /\ [DispatchNext]_dispatchVars => AnswerOK(answer')
<1> SUFFICES ASSUME AnswerOK(answer), [DispatchNext]_dispatchVars PROVE AnswerOK(answer')
  OBVIOUS
<1>1. CASE UNCHANGED dispatchVars \/ ApprovalSide \/ Tick
  BY <1>1 DEF dispatchVars, ApprovalSide, Tick
<1>2. CASE Deliver
  BY <1>2, NothingTallied DEF Deliver, NoAnswer, AnswerOK
<1>3. ASSUME NEW r \in Sent, Handle(r) PROVE AnswerOK(answer')
  BY <1>3, HandledOnce
<1>4. ASSUME NEW s \in Slot, HandlerFails(s) \/ Completes(s) \/ Questions(s) PROVE AnswerOK(answer')
  BY <1>4, EndedOnce
<1>5. ASSUME NEW s \in Slot, GateGrants(s) \/ GateEnds(s) PROVE AnswerOK(answer')
  BY <1>5, GateEndedOnce
<1> QED  BY <1>1, <1>2, <1>3, <1>4, <1>5 DEF DispatchNext

(* Whatever a request was refused for, or its handler did, its answer leaves one
   refusal row or none, or one for each refused reach and no other, a tool-call row exactly when a handler ran, and the status
   its era is due (dispatch.ts, statusForEra; server.ts, answer). *)
THEOREM AnswersAreSentOnce == DispatchSpec => []AnsweredOnce
<1>1. DispatchInit => AnsweredOnce
  BY AnswerOKInit, AnswerIs
<1>2. AnsweredOnce /\ [DispatchNext]_dispatchVars => AnsweredOnce'
  <2>1. AnsweredOnce' <=> AnswerOK(answer')
    BY DEF AnsweredOnce, AnswerOK, Tally, Refuses, Reaching, Refusing, RowsOf
  <2> QED  BY <2>1, AnswerOKStep, AnswerIs
<1> QED  BY <1>1, <1>2, PTL DEF DispatchSpec

=============================================================================
