--------------------------- MODULE WorkOrderProofs ---------------------------
(***************************************************************************)
(* Proofs about the WorkOrder: for any plans, profiles, envelopes and      *)
(* budgets, any number of deviations, grants and moves of the accepted     *)
(* commit,                                                                 *)
(*                                                                         *)
(*   - only the known refusals happen after an operation's own guards;     *)
(*   - the final audit is independent of every profile that ever wrote;    *)
(*   - no block is run more often than attempts were granted;              *)
(*   - drift is noticed wherever work or verification is entered;          *)
(*   - attention is left for work only when what was raised is answered.   *)
(*                                                                         *)
(* What the validators demand of a record and of its successor is not      *)
(* inductive: what an operation makes of a record passes them because of   *)
(* what the record says of the state it left, while it waits in attention  *)
(* or is deferred, and of how far each block has come.                     *)
(***************************************************************************)
EXTENDS WorkOrder, TLAPS

BlockIds == {s.id : s \in BlockSpec}
BlockRecord ==
    [ spec : BlockSpec, status : BlockStatus, failed : Nat, curations : Nat, coded : Nat,
      curated : Nat, tests : {"none", "failed", "passed"}, coders : SUBSET Profile,
      curators : SUBSET Profile, codeAudit : Audit \cup {NoValue},
      memoryAudit : Audit \cup {NoValue},
      memoryChange : {"none", "inside", "approved", "outside"}, risk : Risk \cup {NoValue} ]
DeviationRecord == [id : Nat, block : BlockIds \cup {NoValue}, approved : BOOLEAN]
WorkOrderRecord ==
    [ status : Status, baseline : Nat \cup {NoValue}, candidate : BOOLEAN, plans : Seq(Plan),
      approved : Nat, envelope : DOMAIN Envelope, budget : Budget \cup {NoValue}, grants : Nat,
      blocks : Seq(BlockRecord), superseded : SUBSET Profile, attention : Nat,
      closed : SUBSET GivenIds, request : Request \cup {NoValue},
      waivedGaps : SUBSET Gap, deferredFrom : AttentionSources \cup {NoValue},
      deviations : Seq(DeviationRecord), finalAudit : FinalAudit \cup {NoValue},
      outcome : {"none", "promoted", "refused"} ]
PastRecord ==
    [ writers : SUBSET Profile, afterAudit : BOOLEAN, quota : Nat, unanswered : SUBSET Code,
      excused : SUBSET Code ]

-----------------------------------------------------------------------------
(*                               The invariant                             *)

\* The state a WorkOrder is in, was raised from, or was deferred from.
Stage(w) ==
    IF w.request # NoValue THEN w.request.from
    ELSE IF w.deferredFrom # NoValue THEN w.deferredFrom ELSE w.status

Unaudited == {"PENDING", "RUNNING", "TESTING", "BLOCK_RESULT", "CODE_APPROVED"}

\* How far a block has come.
BlockIsStaged(b) ==
    /\ b.status \in Unaudited =>
         b.memoryAudit = NoValue /\ b.memoryChange = "none" /\ b.curated = 0 /\ b.curations = 0
    /\ b.status \in {"PENDING", "RUNNING", "TESTING", "BLOCK_RESULT"} => b.codeAudit = NoValue
    /\ b.status \in {"MEMORY_CURATION", "MEMORY_AUDIT"} => b.spec.memory
    /\ b.status = "MEMORY_AUDIT" => b.memoryChange # "none"
    /\ b.codeAudit # NoValue => b.risk # NoValue

BlockIsFine(b) == CodeApproved(b) /\ MemoryApproved(b) /\ BlockIsStaged(b)

\* The blocks are those of the approved plan.
Founded(w) ==
    /\ w.approved <= Len(w.plans)
    /\ w.candidate \/ w.blocks # <<>> \/ w.finalAudit # NoValue => w.approved # 0
    /\ w.blocks # <<>> => [i \in DOMAIN w.blocks |-> w.blocks[i].spec] = ApprovedPlan(w).blocks

Standing(w) ==
    /\ (w.status = "PROMOTED") = (w.outcome = "promoted")
    /\ (w.status = Attention) = (w.request # NoValue)
    /\ (w.status = "DEFERRED") = (w.deferredFrom # NoValue)
    /\ w.status = "DRAFT" => w.baseline = NoValue

\* The record holds what a state needs, the one it goes back to included.
Fits(w, stage) ==
    /\ stage \in NeedsBaseline => w.blocks # <<>>
    /\ stage \in {"EXECUTING", "FINAL_VERIFICATION"} => w.candidate
    /\ stage \in {"FINAL_VERIFICATION", "PROMOTED"} =>
         \A b \in BlocksOf(w) : b.status = "BLOCK_DONE"

\* What the record holds; the audits of its blocks hold too, under the policy in force,
\* but the final audit may not outlive a replan.
Shaped(w) ==
    /\ w \in WorkOrderRecord
    /\ Founded(w) /\ Standing(w) /\ Fits(w, Stage(w))
    /\ \A b \in BlocksOf(w) : BlockIsFine(b)
BlockAuditsHold(b, envelope, waived) ==
    /\ b.codeAudit # NoValue =>
         AuditGaps("code_auditor", b.codeAudit, b.coders, Required(envelope, b.risk))
           \subseteq waived
    /\ b.memoryAudit # NoValue =>
         AuditGaps("memory_auditor", b.memoryAudit, b.curators, Required(envelope, b.risk))
           \subseteq waived
FinalAuditHolds(w) ==
    w.finalAudit # NoValue =>
      AuditGaps("final_verifier", w.finalAudit, Writers(w), PlanRequires(w)) \subseteq Waived(w)

Sound(w) == Shaped(w) /\ \A b \in BlocksOf(w) : BlockAuditsHold(b, w.envelope, Waived(w))

\* The attempts of a block: those of earlier budgets were granted, those of this one failed.
BlockIsCounted(b, budget, quota) ==
    /\ b.status = "BLOCK_DONE" => b.coded <= quota /\ b.curated <= quota + 1
    /\ b.status = "PENDING" => b.coded + budget <= quota + b.failed /\ b.failed <= budget
    /\ b.status \notin {"PENDING", "BLOCK_DONE"} =>
         b.coded + budget <= quota + b.failed + 1 /\ b.failed < budget
    /\ b.status \notin Unaudited \cup {"BLOCK_DONE"} =>
         b.curated + budget <= quota + b.curations + 1 /\ b.curations <= budget

Counted(w, p) ==
    /\ w.budget # NoValue => w.budget <= p.quota
    /\ w.blocks # <<>> => w.budget # NoValue
    /\ \A b \in BlocksOf(w) : BlockIsCounted(b, w.budget, p.quota)

\* Nobody who wrote is forgotten.
Remembered(w, p) == p \in PastRecord /\ p.writers \subseteq Writers(w)

RecordInv ==
    /\ Sound(wo) /\ FinalAuditHolds(wo) /\ DeviationIdsDiffer(wo)
    /\ Counted(wo, past) /\ Remembered(wo, past) /\ IdIsNew(wo, wo)

IInv == RecordInv /\ observed \in Nat /\ accepted \in Nat /\ OnlyKnownRefusals

-----------------------------------------------------------------------------
(*                        What the validators look at                      *)

\* What no operation takes back.
Follows(old, new) ==
    /\ DoneIsKept(old, new)
    /\ old.baseline # NoValue => new.baseline = old.baseline
    /\ old.candidate => new.candidate
    /\ new.approved >= old.approved
    /\ Extends(new.plans, old.plans)
    /\ Len(new.deviations) >= Len(old.deviations)
    /\ old.superseded \subseteq new.superseded
Moves(old, new) == new.status = old.status \/ <<old.status, new.status>> \in Transition

LEMMA IndependentIs ==
    ASSUME NEW w
    PROVE  Independent(w) <=>
             /\ \A b \in BlocksOf(w) : BlockAuditsHold(b, w.envelope, Waived(w))
             /\ FinalAuditHolds(w)
<1> DEFINE Holds(role, b) ==
             AuditOf(<<role, b>>) # NoValue =>
               AuditGaps(role, AuditOf(<<role, b>>), Producers(b, role), Required(w.envelope, b.risk))
                 \subseteq Waived(w)
<1>1. (\A a \in Audits(w) :
          AuditGaps(a[1], AuditOf(a), Producers(a[2], a[1]), Required(w.envelope, a[2].risk))
            \subseteq Waived(w))
        <=> \A role \in {"code_auditor", "memory_auditor"}, b \in BlocksOf(w) : Holds(role, b)
  <2>1. ASSUME \A a \in Audits(w) :
                 AuditGaps(a[1], AuditOf(a), Producers(a[2], a[1]), Required(w.envelope, a[2].risk))
                   \subseteq Waived(w),
               NEW role \in {"code_auditor", "memory_auditor"}, NEW b \in BlocksOf(w),
               AuditOf(<<role, b>>) # NoValue
        PROVE  AuditGaps(role, AuditOf(<<role, b>>), Producers(b, role), Required(w.envelope, b.risk))
                 \subseteq Waived(w)
    <3> PICK a : a = <<role, b>>
        OBVIOUS
    <3>1. a \in Audits(w) /\ a[1] = role /\ a[2] = b
        BY <2>1 DEF Audits
    <3> HIDE DEF AuditOf, Producers, Required, Waived
    <3> QED BY <2>1, <3>1
  <2>2. ASSUME \A role \in {"code_auditor", "memory_auditor"}, b \in BlocksOf(w) : Holds(role, b),
               NEW a \in Audits(w)
        PROVE  AuditGaps(a[1], AuditOf(a), Producers(a[2], a[1]), Required(w.envelope, a[2].risk))
                 \subseteq Waived(w)
    <3>1. PICK role \in {"code_auditor", "memory_auditor"}, b \in BlocksOf(w) :
               a = <<role, b>> /\ AuditOf(a) # NoValue
        BY <2>2 DEF Audits
    <3>2. a[1] = role /\ a[2] = b
        BY <3>1
    <3> HIDE DEF AuditOf, Producers, Required, Waived
    <3> QED BY <2>2, <3>1, <3>2
  <2> QED BY <2>1, <2>2
<1>2. ASSUME NEW b
      PROVE  BlockAuditsHold(b, w.envelope, Waived(w))
               <=> Holds("code_auditor", b) /\ Holds("memory_auditor", b)
  <2>1. /\ AuditOf(<<"code_auditor", b>>) = b.codeAudit
        /\ AuditOf(<<"memory_auditor", b>>) = b.memoryAudit
        /\ Producers(b, "code_auditor") = b.coders /\ Producers(b, "memory_auditor") = b.curators
      BY DEF AuditOf, Producers
  <2> QED BY <2>1 DEF BlockAuditsHold
<1> HIDE DEF Holds
<1> QED BY <1>1, <1>2 DEF Independent, FinalAuditHolds

LEMMA ShapedIsConsistent ==
    ASSUME NEW w, Shaped(w)
    PROVE  Consistent(w)
<1>1. /\ w.status = Attention => w.status \notin {"EXECUTING", "FINAL_VERIFICATION", "PROMOTED"}
      /\ w.status \in {"EXECUTING", "FINAL_VERIFICATION", "PROMOTED"} => Stage(w) = w.status
    BY DEF Attention, Shaped, Standing, Stage
<1>2. Fits(w, Stage(w)) /\ Founded(w) /\ Standing(w) /\ \A b \in BlocksOf(w) : BlockIsFine(b)
    BY DEF Shaped
<1> QED BY <1>1, <1>2 DEF Consistent, Founded, Standing, Fits, BlockIsFine, NeedsBaseline, AttentionSources

\* A record that takes nothing back is refused for four reasons at most.
LEMMA BrokenIs ==
    ASSUME NEW old, NEW new, Shaped(new), Follows(old, new), old.status \notin Terminal
    PROVE  /\ Broken(old, new) \subseteq {"transition", "independence", "deviation_ids", "attention"}
           /\ "transition" \in Broken(old, new) <=> ~Moves(old, new)
           /\ "independence" \in Broken(old, new) <=> ~Independent(new)
           /\ "deviation_ids" \in Broken(old, new) <=> ~DeviationIdsDiffer(new)
           /\ "attention" \in Broken(old, new) <=> ~IdIsNew(old, new)
<1>1. Consistent(new)
    BY ShapedIsConsistent
<1>2. DoneIsKept(old, new)
    BY DEF Follows
<1>3. /\ old.status \notin Terminal
      /\ old.baseline # NoValue => new.baseline = old.baseline
      /\ old.candidate => new.candidate
      /\ new.approved >= old.approved
      /\ Extends(new.plans, old.plans)
      /\ Len(new.deviations) >= Len(old.deviations)
      /\ old.superseded \subseteq new.superseded
    BY DEF Follows
<1> HIDE DEF Consistent, Independent, DoneIsKept, Extends, IdIsNew
<1>4. "consistent" \notin Broken(old, new)
    BY <1>1 DEF Broken
<1>5. "done" \notin Broken(old, new)
    BY <1>2 DEF Broken
<1>6. "history" \notin Broken(old, new)
    BY <1>3 DEF Broken
<1>7. "transition" \in Broken(old, new) <=> ~Moves(old, new)
    BY DEF Broken, Moves
<1>8. "independence" \in Broken(old, new) <=> ~Independent(new)
    BY DEF Broken
<1>9. "deviation_ids" \in Broken(old, new) <=> ~DeviationIdsDiffer(new)
    BY DEF Broken
<1>10. "attention" \in Broken(old, new) <=> ~IdIsNew(old, new)
    BY DEF Broken
<1>11. Broken(old, new) \subseteq {"transition", "consistent", "independence", "deviation_ids",
                                   "done", "attention", "history"}
    BY DEF Broken
<1> QED BY <1>4, <1>5, <1>6, <1>7, <1>8, <1>9, <1>10, <1>11

-----------------------------------------------------------------------------
(*                               Independence                              *)

LEMMA GapsGrow ==
    ASSUME NEW role, NEW audit, NEW required, NEW few, NEW many, few \subseteq many
    PROVE  AuditGaps(role, audit, few, required) \subseteq AuditGaps(role, audit, many, required)
BY DEF AuditGaps, FamilyGaps

LEMMA GapsAreGaps ==
    ASSUME NEW role \in Auditor, NEW by, NEW audit, NEW producers, NEW required
    PROVE  /\ FamilyGaps(role, by, producers, required) \subseteq Gap
           /\ AuditGaps(role, audit, producers, required) \subseteq Gap
BY DEF AuditGaps, FamilyGaps, Gap, Requirement

\* The final audit goes on to hold when nobody new wrote and it is judged as before.
LEMMA FinalAuditStays ==
    ASSUME NEW old, NEW new, FinalAuditHolds(old), new.finalAudit = old.finalAudit,
           Writers(new) \subseteq Writers(old), Waived(old) \subseteq Waived(new),
           new.envelope = old.envelope,
           old.finalAudit # NoValue => ApprovedPlan(new).risk = ApprovedPlan(old).risk
    PROVE  FinalAuditHolds(new)
<1>1. old.finalAudit # NoValue => PlanRequires(new) = PlanRequires(old)
    BY DEF PlanRequires
<1> QED BY <1>1, GapsGrow DEF FinalAuditHolds

LEMMA BlockAuditsStay ==
    ASSUME NEW b, NEW e, NEW few, NEW many, few \subseteq many, BlockAuditsHold(b, e, few)
    PROVE  BlockAuditsHold(b, e, many)
BY DEF BlockAuditsHold

-----------------------------------------------------------------------------
(*                    Operations that leave the work alone                 *)

Untouched(old, new) ==
    /\ new.baseline = old.baseline /\ new.candidate = old.candidate /\ new.plans = old.plans
    /\ new.approved = old.approved /\ new.blocks = old.blocks /\ new.superseded = old.superseded
    /\ new.finalAudit = old.finalAudit /\ new.budget = old.budget
SameWork(old, new) == Untouched(old, new) /\ new.envelope = old.envelope
MoreSettled(old, new) ==
    Waived(old) \subseteq Waived(new) /\ Len(new.deviations) >= Len(old.deviations)

LEMMA PlansStay ==
    ASSUME NEW S, NEW s \in Seq(S)
    PROVE  Extends(s, s)
<1>1. Len(s) \in Nat
    OBVIOUS
<1>2. SubSeq(s, 1, Len(s)) = s
    OBVIOUS
<1> QED BY <1>1, <1>2 DEF Extends

LEMMA UntouchedIsShaped ==
    ASSUME NEW old, NEW new, Shaped(old), new \in WorkOrderRecord, Untouched(old, new),
           MoreSettled(old, new), Standing(new), Fits(old, Stage(new))
    PROVE  Shaped(new) /\ Follows(old, new)
<1>1. BlocksOf(new) = BlocksOf(old)
    BY DEF Untouched, BlocksOf
<1>2. ApprovedPlan(new) = ApprovedPlan(old)
    BY DEF Untouched, ApprovedPlan
<1>3. Founded(new)
    BY <1>2 DEF Untouched, Founded, Shaped
<1>4. Fits(new, Stage(new))
    BY <1>1 DEF Untouched, Fits
<1>5. Shaped(new)
    BY <1>1, <1>3, <1>4 DEF Shaped
<1>6. Follows(old, new)
  <2>1. Extends(new.plans, old.plans)
    <3>1. old.plans \in Seq(Plan)
        BY DEF Shaped, WorkOrderRecord
    <3> QED BY <3>1, PlansStay DEF Untouched
  <2>2. new.approved >= old.approved
    <3>1. old.approved \in Nat
        BY DEF Shaped, WorkOrderRecord
    <3> QED BY <3>1 DEF Untouched
  <2>3. DoneIsKept(old, new)
      BY <1>1 DEF DoneIsKept
  <2> QED BY <2>1, <2>2, <2>3 DEF Follows, Untouched, MoreSettled
<1> QED BY <1>5, <1>6

LEMMA SameWorkIsSound ==
    ASSUME NEW old, NEW new, Sound(old), new \in WorkOrderRecord, SameWork(old, new),
           MoreSettled(old, new), Standing(new), Fits(old, Stage(new))
    PROVE  /\ Sound(new) /\ Follows(old, new)
           /\ FinalAuditHolds(old) => FinalAuditHolds(new)
<1>1. BlocksOf(new) = BlocksOf(old) /\ Writers(new) = Writers(old)
    BY DEF SameWork, Untouched, BlocksOf, Writers
<1>2. ApprovedPlan(new) = ApprovedPlan(old)
    BY DEF SameWork, Untouched, ApprovedPlan
<1>3. Shaped(new) /\ Follows(old, new)
    BY UntouchedIsShaped DEF SameWork, Sound
<1>4. \A b \in BlocksOf(new) : BlockAuditsHold(b, new.envelope, Waived(new))
    BY <1>1, BlockAuditsStay DEF Sound, SameWork, MoreSettled
<1>5. FinalAuditHolds(old) => FinalAuditHolds(new)
    BY <1>1, <1>2, FinalAuditStays DEF SameWork, Untouched, MoreSettled
<1> QED BY <1>3, <1>4, <1>5 DEF Sound

\* What is counted and remembered of the work stays.
LEMMA SameWorkIsCounted ==
    ASSUME NEW old, NEW new, SameWork(old, new), NEW p, NEW q, q.quota = p.quota, q.writers = p.writers
    PROVE  /\ Counted(old, p) => Counted(new, q)
           /\ Remembered(old, p) /\ q \in PastRecord => Remembered(new, q)
BY DEF SameWork, Untouched, Counted, Remembered, BlocksOf, Writers

LEMMA RequestIsNoNone ==
    /\ \A r \in Request : r # NoValue
    /\ \A s \in Status : s # NoValue
    /\ \A a \in Audit \cup FinalAudit : a # NoValue
    /\ \A n \in Nat : n # NoValue
    /\ \A r \in Risk : r # NoValue
BY NoValueAssumption

LEMMA StatusFacts ==
    /\ AttentionSources \subseteq Status \ {Attention, "DEFERRED", "PROMOTED", "DRAFT"}
    /\ NeedsBaseline = {"PLAN_APPROVED", "EXECUTING", "FINAL_VERIFICATION"}
    /\ Attention \in Status \ {"DEFERRED", "PROMOTED", "DRAFT"}
BY DEF AttentionSources, Status, Attention, NeedsBaseline

\* Attention leaves everything but the request and the status as it was.
RaisedTo(w, r) ==
    /\ Sound(r) /\ Follows(w, r) /\ SameWork(w, r) /\ Waived(w) \subseteq Waived(r)
    /\ r.status = Attention /\ r.deviations = w.deviations /\ r.outcome = w.outcome
    /\ w.status = Attention \/ w.status \in AttentionSources
    /\ Stage(r) = Stage(w) /\ r.waivedGaps = w.waivedGaps
    /\ r.request # NoValue /\ r.deferredFrom = w.deferredFrom
    /\ r.closed = w.closed /\ (w.request # NoValue => r.request.id = w.request.id)
    /\ FinalAuditHolds(w) => FinalAuditHolds(r)

LEMMA RaiseIsSound ==
    ASSUME NEW w, Sound(w), CanRaise(w), NEW id \in Nat, NEW codes \in SUBSET Code,
           NEW warnings \in SUBSET Code, NEW gaps \in SUBSET Gap
    PROVE  RaisedTo(w, RaiseAs(w, id, codes, warnings, gaps))
<1> PICK r : r = RaiseAs(w, id, codes, warnings, gaps)
    OBVIOUS
<1>1. w \in WorkOrderRecord /\ Standing(w) /\ Fits(w, Stage(w))
    BY DEF Sound, Shaped
<1>0. w.attention \in Nat /\ Counting(w.attention) \in Nat
    BY <1>1 DEF WorkOrderRecord, Counting
<1>2. /\ r \in WorkOrderRecord /\ SameWork(w, r) /\ r.deviations = w.deviations
      /\ r.outcome = w.outcome /\ r.waivedGaps = w.waivedGaps /\ r.deferredFrom = w.deferredFrom
      /\ r.closed = w.closed
      /\ r.request \in Request /\ r.status = Attention
      /\ w.request = NoValue => r.request.from = w.status /\ r.request.waived = {}
      /\ w.request # NoValue => /\ r.request.from = w.request.from
                                /\ r.request.waived = w.request.waived
                                /\ w.request.gaps \subseteq r.request.gaps
                                /\ r.request.id = w.request.id
      /\ w.request # NoValue => w.status = Attention
      /\ w.request = NoValue => w.status \in AttentionSources
  <2>1. CASE w.request = NoValue
    <3>1. w.status \in AttentionSources
        BY <2>1 DEF CanRaise
    <3> DEFINE q == [id |-> id, from |-> w.status, reasons |-> codes, warnings |-> warnings,
                     gaps |-> gaps, resolved |-> {}, waived |-> {}]
    <3>2. q \in Request /\ q.from = w.status /\ q.waived = {}
        BY <3>1 DEF Request
    <3> PICK n \in Nat : n = Counting(w.attention)
        BY <1>0
    <3>3. r = [w EXCEPT !.status = Attention, !.attention = n, !.request = q]
        BY <2>1 DEF RaiseAs
    <3> HIDE DEF q
    <3> PICK w1 : w1 = [w EXCEPT !.status = Attention, !.attention = n]
        OBVIOUS
    <3>5. w1 \in WorkOrderRecord
        BY <1>1, StatusFacts DEF WorkOrderRecord
    <3>6. r = [w1 EXCEPT !.request = q]
        BY <3>3
    <3>7. r \in WorkOrderRecord
        BY <3>2, <3>5, <3>6 DEF WorkOrderRecord
    <3>4. /\ r \in WorkOrderRecord /\ SameWork(w, r) /\ r.deviations = w.deviations
          /\ r.outcome = w.outcome /\ r.waivedGaps = w.waivedGaps /\ r.deferredFrom = w.deferredFrom
          /\ r.closed = w.closed
          /\ r.request = q /\ r.status = Attention
        BY <1>1, <3>3, <3>7 DEF WorkOrderRecord, SameWork, Untouched
    <3> QED BY <2>1, <3>1, <3>2, <3>4
  <2>2. CASE w.request # NoValue
    <3>1. w.request \in Request /\ w.status = Attention
        BY <1>1, <2>2 DEF WorkOrderRecord, Standing
    <3> DEFINE q == [w.request EXCEPT !.reasons = @ \cup codes,
                                      !.warnings = @ \cup (warnings \ w.request.reasons),
                                      !.gaps = @ \cup gaps, !.resolved = @ \ codes]
    <3>2. /\ q \in Request /\ q.from = w.request.from /\ q.waived = w.request.waived
          /\ w.request.gaps \subseteq q.gaps /\ q.id = w.request.id
        BY <3>1 DEF Request
    <3>3. r = [w EXCEPT !.request = q]
        BY <1>1, <2>2, <3>1 DEF RaiseAs, WorkOrderRecord, Request
    <3> HIDE DEF q
    <3>4. /\ r \in WorkOrderRecord /\ SameWork(w, r) /\ r.deviations = w.deviations
          /\ r.outcome = w.outcome /\ r.waivedGaps = w.waivedGaps /\ r.deferredFrom = w.deferredFrom
          /\ r.closed = w.closed
          /\ r.request = q /\ r.status = w.status
        BY <1>1, <3>2, <3>3 DEF WorkOrderRecord, SameWork, Untouched
    <3> QED BY <2>2, <3>1, <3>2, <3>4
  <2> QED BY <2>1, <2>2
<1>3. r.request # NoValue
    BY <1>2, RequestIsNoNone
<1>4. w.deferredFrom = NoValue
    BY <1>1, <1>2, StatusFacts DEF Standing
<1>5. Stage(r) = Stage(w)
    BY <1>2, <1>3, <1>4 DEF Stage
<1>6. Waived(w) \subseteq Waived(r)
    BY <1>2, <1>3 DEF Waived
<1>7. Standing(r)
    BY <1>1, <1>2, <1>3, <1>4, StatusFacts DEF Standing
<1>8. Len(r.deviations) >= Len(w.deviations)
  <2>1. Len(w.deviations) \in Nat
      BY <1>1 DEF WorkOrderRecord
  <2> QED BY <1>2, <2>1
<1>9. Sound(r) /\ Follows(w, r) /\ (FinalAuditHolds(w) => FinalAuditHolds(r))
    BY <1>1, <1>2, <1>5, <1>6, <1>7, <1>8, SameWorkIsSound DEF MoreSettled
<1> QED BY <1>2, <1>3, <1>5, <1>6, <1>9 DEF RaisedTo

\* The same of a request the machine raises itself.
LEMMA MachineRaise ==
    ASSUME NEW w, Sound(w), CanRaise(w), NEW codes \in SUBSET Code, NEW gaps \in SUBSET Gap
    PROVE  RaisedTo(w, Raise(w, codes, gaps))
<1>1. w.attention + 1 \in Nat
    BY DEF Sound, Shaped, WorkOrderRecord
<1> QED BY <1>1, RaiseIsSound DEF Raise

-----------------------------------------------------------------------------
(*                                 Writing                                 *)

\* Only a request that is opened by an operation that may raise one gets another id; what
\* was closed stays so while a request is open.
KeepsIds(op, new) ==
    new.request # NoValue =>
      /\ new.closed = wo.closed
      /\ op \in Raising \/ (wo.request # NoValue /\ new.request.id = wo.request.id)

\* The history an operation remembers, as far as the proofs go.
Keeps(remember) ==
    remember \in PastRecord /\ remember.quota = past.quota /\ remember.writers = past.writers

LEMMA AskedFacts ==
    ASSUME NEW new \in WorkOrderRecord, NEW remember \in PastRecord
    PROVE  LET p == Asked(new, remember) IN
           /\ p \in PastRecord /\ p.quota = remember.quota /\ p.writers = remember.writers
           /\ p.afterAudit = remember.afterAudit
<1>1. CASE new.request = NoValue
    BY <1>1 DEF Asked, PastRecord
<1>2. CASE new.request # NoValue /\ wo.request = NoValue
  <2>1. new.request \in Request
      BY <1>2 DEF WorkOrderRecord
  <2> PICK unanswered \in SUBSET Code : unanswered = OpenBlocking(new)
      BY <2>1 DEF OpenBlocking, Request
  <2> PICK excused \in SUBSET Code : excused = new.request.warnings \cup new.request.waived
      BY <2>1 DEF Request
  <2>2. Asked(new, remember) = [remember EXCEPT !.unanswered = unanswered, !.excused = excused]
      BY <1>2 DEF Asked
  <2> QED BY <2>2 DEF PastRecord
<1>3. CASE new.request # NoValue /\ wo.request # NoValue
    BY <1>3 DEF Asked
<1> QED BY <1>1, <1>2, <1>3

\* The end of an operation: the new record is sound, or the refusal is known.
LEMMA Stored ==
    ASSUME RecordInv, NEW op, NEW new, NEW remember, Store(op, new, remember),
           Shaped(new), Follows(wo, new), wo.status \notin Terminal, KeepsIds(op, new),
           Counted(new, remember), Remembered(new, remember),
           LET others == Broken(wo, new) \ {"attention"} IN
           others = {} \/ <<op, others>> \in KnownRefusal
    PROVE  RecordInv' /\ OnlyKnownRefusals'
<1>1. CASE Broken(wo, new) = {}
  <2>1. wo' = new /\ past' = Asked(new, remember) /\ refusal' = NoRefusal
      BY <1>1 DEF Store
  <2>2. Independent(new) /\ DeviationIdsDiffer(new) /\ IdIsNew(wo, new)
      BY <1>1, BrokenIs
  <2>3. Sound(new) /\ FinalAuditHolds(new)
      BY <2>2, IndependentIs DEF Sound
  <2>4. IdIsNew(new, new)
      BY <2>2 DEF IdIsNew, KeepsIds
  <2>5. PICK p : p = Asked(new, remember)
      OBVIOUS
  <2>6. Counted(new, p) /\ Remembered(new, p)
      BY <2>5, AskedFacts DEF Shaped, Counted, Remembered
  <2>7. RecordInv'
      BY <2>1, <2>2, <2>3, <2>4, <2>5, <2>6 DEF RecordInv
  <2> QED BY <2>1, <2>7 DEF OnlyKnownRefusals, NoRefusal
<1>2. CASE Broken(wo, new) # {}
  <2>1. UNCHANGED <<wo, past>> /\ refusal' = [op |-> op, rules |-> Broken(wo, new)]
      BY <1>2 DEF Store
  <2>2. RecordInv'
      BY <2>1 DEF RecordInv
  <2>3. LET others == refusal'.rules \ {"attention"} IN
        others # {} => <<refusal'.op, others>> \in KnownRefusal
      BY <2>1
  <2>4. ASSUME "attention" \in refusal'.rules
        PROVE  op \in Raising /\ GivenIds # {}
    <3>1. new.request # NoValue /\ new.request.id \in wo.closed
        BY <2>1, <2>4, BrokenIs DEF IdIsNew
    <3>2. wo.closed \subseteq GivenIds /\ IdIsNew(wo, wo)
        BY DEF RecordInv, Sound, Shaped, WorkOrderRecord
    <3> QED BY <3>1, <3>2 DEF KeepsIds, IdIsNew
  <2>5. refusal'.op = op
      BY <2>1
  <2> QED BY <2>2, <2>3, <2>4, <2>5 DEF OnlyKnownRefusals
<1> QED BY <1>1, <1>2

LEMMA StoredPlainly ==
    ASSUME RecordInv, NEW op, NEW new, NEW remember, Store(op, new, remember),
           Sound(new), Follows(wo, new), wo.status \notin Terminal, KeepsIds(op, new),
           Counted(new, remember), Remembered(new, remember),
           Moves(wo, new), FinalAuditHolds(new), DeviationIdsDiffer(new)
    PROVE  RecordInv' /\ OnlyKnownRefusals'
<1>1. Independent(new) /\ Shaped(new)
    BY IndependentIs DEF Sound
<1>2. Broken(wo, new) \subseteq {"attention"}
    BY <1>1, BrokenIs
<1>3. Broken(wo, new) \ {"attention"} = {}
    BY <1>2
<1> QED BY <1>1, <1>3, Stored

\* An operation that leaves the work alone.
LEMMA StoredSettled ==
    ASSUME RecordInv, NEW op, NEW new, NEW remember, Store(op, new, remember),
           new \in WorkOrderRecord, SameWork(wo, new), MoreSettled(wo, new),
           DeviationIdsDiffer(new), Standing(new), Fits(wo, Stage(new)),
           Moves(wo, new), wo.status \notin Terminal,
           KeepsIds(op, new), Keeps(remember)
    PROVE  RecordInv' /\ OnlyKnownRefusals'
<1>1. Sound(wo) /\ FinalAuditHolds(wo) /\ Counted(wo, past) /\ Remembered(wo, past)
    BY DEF RecordInv
<1>2. Sound(new) /\ Follows(wo, new) /\ FinalAuditHolds(new)
    BY <1>1, SameWorkIsSound
<1>3. Counted(new, remember) /\ Remembered(new, remember)
    BY <1>1, SameWorkIsCounted DEF Keeps
<1> QED BY <1>2, <1>3, StoredPlainly

LEMMA StoredSameWork ==
    ASSUME RecordInv, NEW op, NEW new, NEW remember, Store(op, new, remember),
           new \in WorkOrderRecord, SameWork(wo, new), Waived(wo) \subseteq Waived(new),
           new.deviations = wo.deviations, Standing(new), Fits(wo, Stage(new)),
           Moves(wo, new), wo.status \notin Terminal,
           KeepsIds(op, new), Keeps(remember)
    PROVE  RecordInv' /\ OnlyKnownRefusals'
<1>1. MoreSettled(wo, new)
  <2>1. Len(wo.deviations) \in Nat
      BY DEF RecordInv, Sound, Shaped, WorkOrderRecord
  <2> QED BY <2>1 DEF MoreSettled
<1>2. DeviationIdsDiffer(new)
    BY DEF RecordInv, DeviationIdsDiffer
<1> QED BY <1>1, <1>2, StoredSettled

\* Attention raised on the record as it is, and on one that was put in its place.
LEMMA StoredRaise ==
    ASSUME RecordInv, NEW op \in Raising, NEW r, RaisedTo(wo, r), NEW remember,
           Keeps(remember), Store(op, r, remember)
    PROVE  RecordInv' /\ OnlyKnownRefusals'
<1>1. /\ Sound(r) /\ Follows(wo, r) /\ SameWork(wo, r) /\ r.status = Attention
      /\ r.deviations = wo.deviations /\ FinalAuditHolds(r) /\ r.closed = wo.closed
      /\ wo.status = Attention \/ wo.status \in AttentionSources
    BY DEF RaisedTo, RecordInv
<1>2. Moves(wo, r) /\ wo.status \notin Terminal
    BY <1>1 DEF Moves, Transition, Terminal, AttentionSources, Attention
<1>3. Counted(r, remember) /\ Remembered(r, remember)
    BY <1>1, SameWorkIsCounted DEF RecordInv, Keeps
<1>4. DeviationIdsDiffer(r)
    BY <1>1 DEF RecordInv, DeviationIdsDiffer
<1>5. KeepsIds(op, r)
    BY <1>1 DEF KeepsIds
<1> QED BY <1>1, <1>2, <1>3, <1>4, <1>5, StoredPlainly

\* The same, where an operation writes what attention makes of a settled request.
LEMMA WaivedOfClosed ==
    ASSUME NEW w, w \in WorkOrderRecord, w.request # NoValue, NEW target \in Status
    PROVE  LET c == Close(w, target) IN
           /\ c \in WorkOrderRecord /\ SameWork(w, c) /\ Waived(c) = Waived(w)
           /\ c.status = target /\ c.request = NoValue /\ c.deferredFrom = w.deferredFrom
           /\ c.deviations = w.deviations /\ c.outcome = w.outcome /\ c.waivedGaps = Waived(w)
<1> PICK c : c = Close(w, target)
    OBVIOUS
<1> PICK gaps : gaps = Waived(w)
    OBVIOUS
<1>1. gaps \subseteq Gap
    BY DEF Waived, WorkOrderRecord, Request
<1> PICK closed \in SUBSET GivenIds : closed = w.closed \cup ({w.request.id} \cap GivenIds)
    BY DEF WorkOrderRecord
<1> PICK w1 : w1 = [w EXCEPT !.status = target, !.waivedGaps = gaps, !.closed = closed]
    OBVIOUS
<1>5. w1 \in WorkOrderRecord
    BY <1>1 DEF WorkOrderRecord
<1>2. c = [w1 EXCEPT !.request = NoValue]
    BY DEF Close, WorkOrderRecord
<1>6. c \in WorkOrderRecord
    BY <1>2, <1>5 DEF WorkOrderRecord
<1>3. /\ c \in WorkOrderRecord /\ SameWork(w, c) /\ c.waivedGaps = Waived(w)
      /\ c.status = target /\ c.request = NoValue /\ c.deferredFrom = w.deferredFrom
      /\ c.deviations = w.deviations /\ c.outcome = w.outcome
    BY <1>2, <1>5, <1>6 DEF WorkOrderRecord, SameWork, Untouched
<1>4. Waived(c) = Waived(w)
    BY <1>3 DEF Waived
<1> QED BY <1>3, <1>4

-----------------------------------------------------------------------------
(*                          Steps outside the blocks                       *)

\* An operation that leaves blocks, deviations and request alone.
LEMMA StoredSameBlocks ==
    ASSUME RecordInv, NEW op, NEW new, NEW remember, Store(op, new, remember),
           new \in WorkOrderRecord, new.blocks = wo.blocks, new.superseded = wo.superseded,
           new.approved = wo.approved, new.budget = wo.budget, new.deviations = wo.deviations,
           new.request = wo.request, new.waivedGaps = wo.waivedGaps,
           new.closed = wo.closed, new.envelope = wo.envelope,
           Extends(new.plans, wo.plans), wo.candidate => new.candidate,
           wo.baseline # NoValue => new.baseline = wo.baseline,
           Founded(new), Standing(new), Fits(new, Stage(new)), FinalAuditHolds(new),
           Moves(wo, new), wo.status \notin Terminal, Keeps(remember)
    PROVE  RecordInv' /\ OnlyKnownRefusals'
<1>1. /\ Sound(wo) /\ Counted(wo, past) /\ Remembered(wo, past) /\ DeviationIdsDiffer(wo)
      /\ wo \in WorkOrderRecord
    BY DEF RecordInv, Sound, Shaped
<1>2. BlocksOf(new) = BlocksOf(wo) /\ Writers(new) = Writers(wo) /\ Waived(new) = Waived(wo)
    BY DEF BlocksOf, Writers, Waived
<1>3. Sound(new)
    BY <1>1, <1>2 DEF Sound, Shaped
<1>4. Follows(wo, new)
  <2>1. wo.approved \in Nat /\ Len(wo.deviations) \in Nat
      BY <1>1 DEF WorkOrderRecord
  <2> QED BY <1>2, <2>1 DEF Follows, DoneIsKept
<1>5. Counted(new, remember) /\ Remembered(new, remember)
    BY <1>1, <1>2 DEF Counted, Remembered, Keeps
<1>6. DeviationIdsDiffer(new)
    BY <1>1 DEF DeviationIdsDiffer
<1>7. KeepsIds(op, new)
    BY DEF KeepsIds
<1> QED BY <1>3, <1>4, <1>5, <1>6, <1>7, StoredPlainly

LEMMA WorkOrderFacts ==
    ASSUME RecordInv
    PROVE  /\ wo \in WorkOrderRecord /\ Sound(wo) /\ Founded(wo) /\ Standing(wo) /\ Fits(wo, Stage(wo))
           /\ FinalAuditHolds(wo) /\ Extends(wo.plans, wo.plans) /\ past \in PastRecord
           /\ Keeps(past) /\ IdIsNew(wo, wo)
           /\ wo.status \notin {Attention, "DEFERRED"} =>
                Stage(wo) = wo.status /\ wo.request = NoValue /\ wo.deferredFrom = NoValue
           /\ Len(wo.deviations) \in Nat /\ Len(wo.plans) \in Nat /\ wo.plans \in Seq(Plan)
           /\ \A b \in BlocksOf(wo) : b \in BlockRecord /\ BlockIsFine(b)
                                      /\ BlockAuditsHold(b, wo.envelope, Waived(wo))
           /\ \A i \in DOMAIN wo.blocks : wo.blocks[i] \in BlocksOf(wo)
<1>1. /\ wo \in WorkOrderRecord /\ Sound(wo) /\ Founded(wo) /\ Standing(wo) /\ Fits(wo, Stage(wo))
      /\ FinalAuditHolds(wo) /\ past \in PastRecord /\ Keeps(past) /\ IdIsNew(wo, wo)
      /\ \A b \in BlocksOf(wo) : BlockIsFine(b) /\ BlockAuditsHold(b, wo.envelope, Waived(wo))
    BY DEF RecordInv, Sound, Shaped, Remembered, Keeps
<1>2. wo.status \notin {Attention, "DEFERRED"} =>
        Stage(wo) = wo.status /\ wo.request = NoValue /\ wo.deferredFrom = NoValue
    BY <1>1 DEF Standing, Stage
<1>3. /\ wo.deviations \in Seq(DeviationRecord) /\ wo.plans \in Seq(Plan)
      /\ wo.blocks \in Seq(BlockRecord)
    BY <1>1 DEF WorkOrderRecord
<1>4. \A b \in BlocksOf(wo) : b \in BlockRecord
    BY <1>3 DEF BlocksOf
<1>5. \A i \in DOMAIN wo.blocks : wo.blocks[i] \in BlocksOf(wo)
    BY DEF BlocksOf
<1>6. Extends(wo.plans, wo.plans)
    BY <1>3, PlansStay
<1>7. Len(wo.deviations) \in Nat /\ Len(wo.plans) \in Nat
    BY <1>3
<1> QED BY <1>1, <1>2, <1>3, <1>4, <1>5, <1>6, <1>7

LEMMA StartIntakeStep ==
    ASSUME RecordInv, observed \in Nat, StartIntake
    PROVE  RecordInv' /\ OnlyKnownRefusals'
<1> PICK new : new = [wo EXCEPT !.status = "CONTEXT_INTAKE", !.baseline = observed]
    OBVIOUS
<1>1. /\ Store("start_intake", new, past) /\ wo.status = "DRAFT"
    BY DEF StartIntake, Write
<1>2. /\ new \in WorkOrderRecord /\ new.blocks = wo.blocks /\ new.superseded = wo.superseded
      /\ new.approved = wo.approved /\ new.budget = wo.budget /\ new.deviations = wo.deviations
      /\ new.request = wo.request /\ new.waivedGaps = wo.waivedGaps /\ new.plans = wo.plans
      /\ new.closed = wo.closed /\ new.envelope = wo.envelope
      /\ new.candidate = wo.candidate /\ new.finalAudit = wo.finalAudit
      /\ new.deferredFrom = wo.deferredFrom /\ new.outcome = wo.outcome
      /\ new.status = "CONTEXT_INTAKE"
    BY WorkOrderFacts DEF WorkOrderRecord, Status
<1>3. wo.baseline = NoValue /\ wo.request = NoValue /\ wo.deferredFrom = NoValue
    BY <1>1, WorkOrderFacts DEF Standing, Attention
<1>4. Founded(new) /\ FinalAuditHolds(new)
    BY <1>2, WorkOrderFacts DEF Founded, ApprovedPlan, PlanRequires, FinalAuditHolds, Writers, Waived, BlocksOf
<1>5. Standing(new)
    BY <1>1, <1>2, WorkOrderFacts DEF Standing, Attention
<1>6. Fits(new, Stage(new))
    BY <1>2, <1>3 DEF Fits, Stage, NeedsBaseline, AttentionSources
<1>7. Moves(wo, new) /\ wo.status \notin Terminal
    BY <1>1, <1>2 DEF Moves, Transition, Terminal
<1> QED BY <1>1, <1>2, <1>3, <1>4, <1>5, <1>6, <1>7, WorkOrderFacts, StoredSameBlocks

LEMMA ProposePlanStep ==
    ASSUME RecordInv, ProposePlan
    PROVE  RecordInv' /\ OnlyKnownRefusals'
<1>1. PICK pl \in Plan :
        Store("propose_plan", [wo EXCEPT !.status = "PLAN_PROPOSED", !.plans = Append(@, pl)], past)
    BY DEF ProposePlan, Write
<1>2. wo.status \in {"CONTEXT_INTAKE", "PLAN_PROPOSED"}
    BY DEF ProposePlan
<1> PICK new : new = [wo EXCEPT !.status = "PLAN_PROPOSED", !.plans = Append(@, pl)]
    OBVIOUS
<1>3. /\ wo.plans \in Seq(Plan) /\ Append(wo.plans, pl) \in Seq(Plan)
      /\ Len(Append(wo.plans, pl)) = Len(wo.plans) + 1 /\ Len(wo.plans) \in Nat
      /\ \A i \in 1..Len(wo.plans) : Append(wo.plans, pl)[i] = wo.plans[i]
    BY WorkOrderFacts
<1>4. Extends(Append(wo.plans, pl), wo.plans)
  <2>1. SubSeq(Append(wo.plans, pl), 1, Len(wo.plans)) = wo.plans
      BY <1>3
  <2> QED BY <1>3, <2>1 DEF Extends
<1>5. /\ new \in WorkOrderRecord /\ new.blocks = wo.blocks /\ new.superseded = wo.superseded
      /\ new.approved = wo.approved /\ new.budget = wo.budget /\ new.deviations = wo.deviations
      /\ new.request = wo.request /\ new.waivedGaps = wo.waivedGaps
      /\ new.closed = wo.closed /\ new.envelope = wo.envelope
      /\ new.plans = Append(wo.plans, pl)
      /\ new.candidate = wo.candidate /\ new.finalAudit = wo.finalAudit
      /\ new.deferredFrom = wo.deferredFrom /\ new.outcome = wo.outcome
      /\ new.baseline = wo.baseline /\ new.status = "PLAN_PROPOSED"
    BY <1>3, WorkOrderFacts DEF WorkOrderRecord, Status
<1>6. wo.request = NoValue /\ wo.deferredFrom = NoValue
    BY <1>2, WorkOrderFacts DEF Attention
<1>7. new.approved # 0 => ApprovedPlan(new) = ApprovedPlan(wo)
  <2>1. wo.approved \in Nat /\ wo.approved <= Len(wo.plans)
      BY WorkOrderFacts DEF WorkOrderRecord, Founded
  <2> QED BY <1>3, <1>5, <2>1 DEF ApprovedPlan
<1>8. Founded(new)
  <2>1. wo.approved \in Nat
      BY WorkOrderFacts DEF WorkOrderRecord
  <2> QED BY <1>3, <1>5, <1>7, <2>1, WorkOrderFacts DEF Founded
<1>9. FinalAuditHolds(new)
  <2>1. wo.finalAudit # NoValue => new.approved # 0
      BY <1>5, WorkOrderFacts DEF Founded
  <2> QED BY <1>5, <1>7, <2>1, WorkOrderFacts DEF FinalAuditHolds, PlanRequires, Writers, Waived, BlocksOf
<1>10. Standing(new)
    BY <1>2, <1>5, WorkOrderFacts DEF Standing, Attention
<1>11. Fits(new, Stage(new))
    BY <1>5, <1>6 DEF Fits, Stage, NeedsBaseline, AttentionSources
<1>12. Moves(wo, new) /\ wo.status \notin Terminal
    BY <1>2, <1>5 DEF Moves, Transition, Terminal
<1> QED BY <1>1, <1>4, <1>5, <1>8, <1>9, <1>10, <1>11, <1>12, WorkOrderFacts, StoredSameBlocks

\* An operation on an order at work that only moves it on.
LEMMA StatusStep ==
    ASSUME RecordInv, NEW op, NEW target \in Status, wo.status \notin {Attention, "DEFERRED"},
           wo.status \notin Terminal, target \notin {Attention, "DEFERRED", "PROMOTED", "DRAFT"},
           <<wo.status, target>> \in Transition, Fits(wo, target),
           Store(op, [wo EXCEPT !.status = target], past)
    PROVE  RecordInv' /\ OnlyKnownRefusals'
<1> PICK new : new = [wo EXCEPT !.status = target]
    OBVIOUS
<1>1. /\ new \in WorkOrderRecord /\ SameWork(wo, new) /\ new.deviations = wo.deviations
      /\ new.request = wo.request /\ new.waivedGaps = wo.waivedGaps /\ new.outcome = wo.outcome
      /\ new.closed = wo.closed /\ new.envelope = wo.envelope
      /\ new.deferredFrom = wo.deferredFrom /\ new.status = target
    BY WorkOrderFacts DEF WorkOrderRecord, SameWork, Untouched
<1>2. Waived(new) = Waived(wo)
    BY <1>1 DEF Waived
<1>3. Standing(new) /\ Stage(new) = target
    BY <1>1, WorkOrderFacts DEF Standing, Stage, Terminal
<1>4. Moves(wo, new) /\ KeepsIds(op, new)
    BY <1>1 DEF Moves, KeepsIds
<1> QED BY <1>1, <1>2, <1>3, <1>4, WorkOrderFacts, StoredSameWork

LEMMA DriftStep ==
    ASSUME RecordInv, NEW op \in Raising, NEW after, wo.status \in AttentionSources,
           WriteUnlessDrift(op, wo, after, past),
           Store(op, after, past) => RecordInv' /\ OnlyKnownRefusals'
    PROVE  RecordInv' /\ OnlyKnownRefusals'
<1>1. CASE observed = wo.baseline
    BY <1>1 DEF WriteUnlessDrift, WriteAnd
<1>2. CASE observed # wo.baseline
  <2>1. wo.request = NoValue
      BY WorkOrderFacts, StatusFacts
  <2>2. Store(op, Raise(wo, {"BASELINE_DRIFT"}, {}), past)
      BY <1>2, <2>1 DEF WriteUnlessDrift, WriteAnd, Again
  <2>3. RaisedTo(wo, Raise(wo, {"BASELINE_DRIFT"}, {}))
    <3>1. {"BASELINE_DRIFT"} \in SUBSET Code /\ {} \in SUBSET Gap
        BY DEF Code
    <3> QED BY <3>1, MachineRaise, WorkOrderFacts DEF CanRaise
  <2> QED BY <2>2, <2>3, StoredRaise, WorkOrderFacts
<1> QED BY <1>1, <1>2

LEMMA SmallSteps ==
    ASSUME RecordInv, RejectPlan \/ StartExecution \/ EnterFinalVerification
    PROVE  RecordInv' /\ OnlyKnownRefusals'
<1>1. CASE RejectPlan
  <2>1. wo.status = "PLAN_PROPOSED" /\ Store("reject_plan", [wo EXCEPT !.status = "ABORTED"], past)
      BY <1>1 DEF RejectPlan, Write
  <2>2. Fits(wo, "ABORTED")
      BY DEF Fits, NeedsBaseline, AttentionSources
  <2> QED BY <2>1, <2>2, StatusStep DEF Transition, Terminal, Status, Attention
<1>2. CASE StartExecution
  <2>1. wo.status = "PLAN_APPROVED" /\ wo.candidate
      BY <1>2 DEF StartExecution
  <2>2. Fits(wo, "EXECUTING")
      BY <2>1, WorkOrderFacts, StatusFacts DEF Fits, Attention
  <2>3. WriteUnlessDrift("start_execution", wo, [wo EXCEPT !.status = "EXECUTING"], past)
      BY <1>2 DEF StartExecution
  <2>4. ASSUME Store("start_execution", [wo EXCEPT !.status = "EXECUTING"], past)
        PROVE  RecordInv' /\ OnlyKnownRefusals'
      BY <2>1, <2>2, <2>4, StatusStep DEF Transition, Terminal, Status, Attention
  <2> QED BY <2>1, <2>3, <2>4, DriftStep DEF AttentionSources, Raising
<1>3. CASE EnterFinalVerification
  <2>1. wo.status = "EXECUTING" /\ \A b \in BlocksOf(wo) : b.status = "BLOCK_DONE"
      BY <1>3 DEF EnterFinalVerification
  <2>2. Fits(wo, "FINAL_VERIFICATION")
      BY <2>1, WorkOrderFacts, StatusFacts DEF Fits, Attention
  <2>3. WriteUnlessDrift("enter_final_verification", wo, [wo EXCEPT !.status = "FINAL_VERIFICATION"], past)
      BY <1>3 DEF EnterFinalVerification
  <2>4. ASSUME Store("enter_final_verification", [wo EXCEPT !.status = "FINAL_VERIFICATION"], past)
        PROVE  RecordInv' /\ OnlyKnownRefusals'
      BY <2>1, <2>2, <2>4, StatusStep DEF Transition, Terminal, Status, Attention
  <2> QED BY <2>1, <2>3, <2>4, DriftStep DEF AttentionSources, Raising
<1> QED BY <1>1, <1>2, <1>3

LEMMA AttachCandidateStep ==
    ASSUME RecordInv, AttachCandidate
    PROVE  RecordInv' /\ OnlyKnownRefusals'
<1>1. wo.status = "PLAN_APPROVED"
    BY DEF AttachCandidate
<1> PICK new : new = [wo EXCEPT !.candidate = TRUE]
    OBVIOUS
<1>2. WriteUnlessDrift("attach_candidate", wo, new, past)
    BY DEF AttachCandidate
<1>3. ASSUME Store("attach_candidate", new, past)
      PROVE  RecordInv' /\ OnlyKnownRefusals'
  <2>1. /\ new \in WorkOrderRecord /\ new.blocks = wo.blocks /\ new.superseded = wo.superseded
        /\ new.approved = wo.approved /\ new.budget = wo.budget /\ new.deviations = wo.deviations
        /\ new.request = wo.request /\ new.waivedGaps = wo.waivedGaps /\ new.plans = wo.plans
        /\ new.closed = wo.closed /\ new.envelope = wo.envelope
        /\ new.candidate = TRUE /\ new.finalAudit = wo.finalAudit
        /\ new.deferredFrom = wo.deferredFrom /\ new.outcome = wo.outcome
        /\ new.baseline = wo.baseline /\ new.status = wo.status
      BY WorkOrderFacts DEF WorkOrderRecord
  <2>2. wo.blocks # <<>> /\ Stage(wo) = "PLAN_APPROVED"
      BY <1>1, WorkOrderFacts, StatusFacts DEF Fits, Attention
  <2>3. Founded(new) /\ FinalAuditHolds(new)
      BY <2>1, <2>2, WorkOrderFacts DEF Founded, ApprovedPlan, PlanRequires, FinalAuditHolds, Writers, Waived, BlocksOf
  <2>4. Standing(new)
      BY <2>1, WorkOrderFacts DEF Standing
  <2>5. Stage(new) = "PLAN_APPROVED"
      BY <2>1, <2>2 DEF Stage
  <2>6. Fits(new, Stage(new))
      BY <2>1, <2>2, <2>5 DEF Fits
  <2>7. Moves(wo, new) /\ wo.status \notin Terminal
      BY <1>1, <2>1 DEF Moves, Terminal
  <2> QED BY <1>3, <2>1, <2>3, <2>4, <2>6, <2>7, WorkOrderFacts, StoredSameBlocks
<1> QED BY <1>1, <1>2, <1>3, DriftStep DEF AttentionSources, Raising

\* Who is bound to a role is a profile.
LEMMA BoundIsProfile ==
    ASSUME NEW w, w \in WorkOrderRecord, NEW role \in Role
    PROVE  Bound(w, role) \in Profile /\ \A p : MayRun(w, role, p) => p \in Profile
<1>1. w.envelope \in DOMAIN Envelope
    BY DEF WorkOrderRecord
<1> QED BY <1>1, ProfileAssumption DEF Bound, MayRun

LEMMA IndependenceStep ==
    ASSUME RecordInv, NEW op \in Raising, NEW gaps, gaps \subseteq Gap, NEW new, NEW remember,
           wo.status \in AttentionSources, WriteUnlessGaps(op, gaps, new, remember),
           gaps = {} /\ Store(op, new, remember) => RecordInv' /\ OnlyKnownRefusals'
    PROVE  RecordInv' /\ OnlyKnownRefusals'
<1>1. CASE gaps = {}
    BY <1>1 DEF WriteUnlessGaps, WriteAnd
<1>2. CASE gaps # {}
  <2>1. Store(op, Raise(wo, {"INDEPENDENCE_UNAVAILABLE"}, gaps), past)
      BY <1>2 DEF WriteUnlessGaps, Write
  <2>2. RaisedTo(wo, Raise(wo, {"INDEPENDENCE_UNAVAILABLE"}, gaps))
    <3>1. {"INDEPENDENCE_UNAVAILABLE"} \in SUBSET Code
        BY DEF Code
    <3> QED BY <3>1, MachineRaise, WorkOrderFacts DEF CanRaise
  <2> QED BY <2>1, <2>2, StoredRaise, WorkOrderFacts
<1> QED BY <1>1, <1>2

LEMMA RecordFinalAuditStep ==
    ASSUME RecordInv, NEW fresh \in Sessions, NEW original \in BOOLEAN, RecordFinalAudit(fresh, original)
    PROVE  RecordInv' /\ OnlyKnownRefusals'
<1> PICK audit : audit = [by |-> Bound(wo, "final_verifier"), fresh |-> fresh, original |-> original]
    OBVIOUS
<1> PICK new : new = [wo EXCEPT !.finalAudit = audit]
    OBVIOUS
<1> PICK remember : remember = [past EXCEPT !.afterAudit = FALSE]
    OBVIOUS
<1> PICK gaps : gaps = AuditGaps("final_verifier", audit, Writers(wo), PlanRequires(wo))
    OBVIOUS
<1>1. /\ wo.status = "FINAL_VERIFICATION"
      /\ WriteUnlessGaps("record_final_audit", gaps \ Waived(wo), new, remember)
    BY DEF RecordFinalAudit
<1>2. audit \in FinalAudit
  <2>1. Bound(wo, "final_verifier") \in Profile /\ fresh \in BOOLEAN
      BY BoundIsProfile, WorkOrderFacts, BoundAssumption DEF Role, Auditor
  <2> QED BY <2>1 DEF FinalAudit
<1>3. ASSUME gaps \ Waived(wo) = {}, Store("record_final_audit", new, remember)
      PROVE  RecordInv' /\ OnlyKnownRefusals'
  <2>1. /\ new \in WorkOrderRecord /\ new.blocks = wo.blocks /\ new.superseded = wo.superseded
        /\ new.approved = wo.approved /\ new.budget = wo.budget /\ new.deviations = wo.deviations
        /\ new.request = wo.request /\ new.waivedGaps = wo.waivedGaps /\ new.plans = wo.plans
        /\ new.closed = wo.closed /\ new.envelope = wo.envelope
        /\ new.candidate = wo.candidate /\ new.finalAudit = audit
        /\ new.deferredFrom = wo.deferredFrom /\ new.outcome = wo.outcome
        /\ new.baseline = wo.baseline /\ new.status = wo.status
      BY <1>2, WorkOrderFacts DEF WorkOrderRecord
  <2>2. Writers(new) = Writers(wo) /\ Waived(new) = Waived(wo) /\ ApprovedPlan(new) = ApprovedPlan(wo)
        /\ PlanRequires(new) = PlanRequires(wo)
      BY <2>1 DEF Writers, Waived, BlocksOf, ApprovedPlan, PlanRequires
  <2>3. FinalAuditHolds(new)
      BY <1>3, <2>1, <2>2 DEF FinalAuditHolds
  <2>4. wo.blocks # <<>> /\ Stage(new) = Stage(wo)
      BY <1>1, <2>1, WorkOrderFacts, StatusFacts DEF Fits, Attention, Stage
  <2>5. Founded(new)
      BY <2>1, <2>2, <2>4, WorkOrderFacts DEF Founded
  <2>6. Standing(new) /\ Fits(new, Stage(new))
      BY <2>1, <2>4, WorkOrderFacts DEF Standing, Fits, BlocksOf
  <2>7. Keeps(remember)
      BY WorkOrderFacts DEF PastRecord, Keeps
  <2>8. Moves(wo, new) /\ wo.status \notin Terminal
      BY <1>1, <2>1 DEF Moves, Terminal
  <2> QED BY <1>3, <2>1, <2>3, <2>5, <2>6, <2>7, <2>8, WorkOrderFacts, StoredSameBlocks
<1>4. gaps \subseteq Gap
    BY GapsAreGaps DEF Auditor
<1> HIDE DEF WriteUnlessGaps
<1> QED BY <1>1, <1>3, <1>4, IndependenceStep DEF AttentionSources, Raising

LEMMA KernelOutcomeStep ==
    ASSUME RecordInv, NEW promoted \in BOOLEAN, RecordKernelOutcome(promoted)
    PROVE  RecordInv' /\ OnlyKnownRefusals'
<1>1. wo.status = "FINAL_VERIFICATION" /\ Stage(wo) = "FINAL_VERIFICATION"
    BY WorkOrderFacts DEF RecordKernelOutcome, Attention
<1>2. CASE promoted
  <2> PICK new : new = [wo EXCEPT !.status = "PROMOTED", !.outcome = "promoted"]
      OBVIOUS
  <2>1. Store("record_kernel_outcome", new, past)
      BY <1>2 DEF RecordKernelOutcome, Write
  <2>2. /\ new \in WorkOrderRecord /\ SameWork(wo, new) /\ new.deviations = wo.deviations
        /\ new.request = wo.request /\ new.waivedGaps = wo.waivedGaps /\ new.outcome = "promoted"
        /\ new.closed = wo.closed /\ new.envelope = wo.envelope
        /\ new.deferredFrom = wo.deferredFrom /\ new.status = "PROMOTED"
      BY WorkOrderFacts DEF WorkOrderRecord, SameWork, Untouched, Status
  <2>3. Waived(new) = Waived(wo)
      BY <2>2 DEF Waived
  <2>4. Standing(new) /\ Stage(new) = "PROMOTED"
      BY <1>1, <2>2, WorkOrderFacts DEF Standing, Stage, Attention
  <2>5. Fits(wo, "PROMOTED")
      BY <1>1, WorkOrderFacts DEF Fits, NeedsBaseline, AttentionSources
  <2>6. Moves(wo, new) /\ wo.status \notin Terminal
      BY <1>1, <2>2 DEF Moves, Transition, Terminal
  <2>7. KeepsIds("record_kernel_outcome", new)
      BY <2>2 DEF KeepsIds
  <2> QED BY <2>1, <2>2, <2>3, <2>4, <2>5, <2>6, <2>7, WorkOrderFacts, StoredSameWork
<1>3. CASE ~promoted
  <2> PICK r : r = Raise(wo, {"PROMOTION_REFUSED"}, {})
      OBVIOUS
  <2>1. CanRaise(wo) /\ {"PROMOTION_REFUSED"} \in SUBSET Code /\ {} \in SUBSET Gap
      BY <1>1 DEF CanRaise, AttentionSources, Code
  <2>2. /\ Sound(r) /\ SameWork(wo, r) /\ Waived(wo) \subseteq Waived(r)
        /\ r.status = Attention /\ r.deviations = wo.deviations /\ Stage(r) = Stage(wo)
        /\ r.request # NoValue /\ r.closed = wo.closed
      BY <2>1, MachineRaise, WorkOrderFacts DEF RaisedTo
  <2> PICK new : new = [r EXCEPT !.outcome = "refused"]
      OBVIOUS
  <2>3. Store("record_kernel_outcome", new, past)
      BY <1>3 DEF RecordKernelOutcome, Write
  <2>4. r \in WorkOrderRecord /\ Standing(r)
      BY <2>2 DEF Sound, Shaped
  <2>5. /\ new \in WorkOrderRecord /\ SameWork(r, new) /\ new.deviations = r.deviations
        /\ new.request = r.request /\ new.waivedGaps = r.waivedGaps /\ new.outcome = "refused"
        /\ new.deferredFrom = r.deferredFrom /\ new.status = r.status /\ new.closed = r.closed
      BY <2>4 DEF WorkOrderRecord, SameWork, Untouched
  <2>6. SameWork(wo, new)
      BY <2>2, <2>5 DEF SameWork, Untouched
  <2>7. Waived(new) = Waived(r) /\ Stage(new) = Stage(r)
      BY <2>5 DEF Waived, Stage
  <2>8. Standing(new)
      BY <2>2, <2>4, <2>5 DEF Standing, Attention
  <2>9. Moves(wo, new) /\ wo.status \notin Terminal
      BY <1>1, <2>2, <2>5 DEF Moves, Transition, Terminal, AttentionSources, Attention
  <2>10. KeepsIds("record_kernel_outcome", new)
      BY <2>2, <2>5 DEF KeepsIds, Raising
  <2> QED BY <2>2, <2>3, <2>5, <2>6, <2>7, <2>8, <2>9, <2>10, WorkOrderFacts, StoredSameWork
<1> QED BY <1>2, <1>3

\* The history of codes that come again keeps what the proofs need of it.
LEMMA AgainKeeps ==
    ASSUME NEW w \in WorkOrderRecord, NEW p \in PastRecord, NEW codes \in SUBSET Code,
           NEW warnings \in SUBSET Code
    PROVE  LET q == Again(w, p, codes, warnings) IN
           q \in PastRecord /\ q.quota = p.quota /\ q.writers = p.writers
<1>1. CASE w.request = NoValue
    BY <1>1 DEF Again
<1>2. CASE w.request # NoValue
  <2> PICK unanswered \in SUBSET Code :
           unanswered = p.unanswered \cup ((codes \ warnings) \ p.excused)
      BY DEF PastRecord
  <2> PICK excused \in SUBSET Code : excused = p.excused \cup (warnings \ w.request.reasons)
      BY DEF PastRecord
  <2>1. Again(w, p, codes, warnings)
          = [p EXCEPT !.unanswered = unanswered, !.excused = excused]
      BY <1>2 DEF Again, PastRecord
  <2> QED BY <2>1 DEF PastRecord
<1> QED BY <1>1, <1>2

LEMMA RaiseAttentionStep ==
    ASSUME RecordInv, RaiseAttention
    PROVE  RecordInv' /\ OnlyKnownRefusals'
<1>1. PICK code \in Raised, severity \in Severities, id \in {wo.attention + 1} \cup GivenIds :
         LET warnings == IF severity = "warning" THEN {code} ELSE {} IN
         WriteAnd("raise_attention", RaiseAs(wo, id, {code}, warnings, {}),
                  Again(wo, past, {code}, warnings))
    BY DEF RaiseAttention
<1>2. CanRaise(wo) /\ {code} \in SUBSET Code /\ {} \in SUBSET Gap /\ id \in Nat
    BY WorkOrderFacts, BoundAssumption DEF RaiseAttention, WorkOrderRecord
<1> PICK warnings \in SUBSET Code : warnings = IF severity = "warning" THEN {code} ELSE {}
    BY <1>2
<1> PICK remember : remember = Again(wo, past, {code}, warnings)
    OBVIOUS
<1>3. Store("raise_attention", RaiseAs(wo, id, {code}, warnings, {}), remember)
    BY <1>1 DEF WriteAnd
<1>4. Keeps(remember)
    BY <1>2, AgainKeeps, WorkOrderFacts DEF Keeps
<1>5. RaisedTo(wo, RaiseAs(wo, id, {code}, warnings, {}))
    BY <1>2, RaiseIsSound, WorkOrderFacts
<1> QED BY <1>3, <1>4, <1>5, StoredRaise DEF Raising

\* One more deviation, and attention if it is material.
DeviatesTo(w, d) ==
    /\ Sound(d) /\ SameWork(w, d) /\ Follows(w, d)
    /\ d.status = w.status \/ (d.status = Attention /\ w.status \in AttentionSources)
    /\ FinalAuditHolds(w) => FinalAuditHolds(d)
    /\ Len(d.deviations) >= Len(w.deviations) /\ Len(w.deviations) \in Nat
    /\ d.closed = w.closed

LEMMA DeviatingIsSound ==
    ASSUME NEW w, Sound(w), NEW id \in Nat, NEW block \in BlockIds \cup {NoValue},
           NEW material \in BOOLEAN, material => CanRaise(w)
    PROVE  DeviatesTo(w, Deviating(w, id, block, material))
<1> PICK v : v = [w EXCEPT !.deviations = Append(@, [id |-> id, block |-> block, approved |-> FALSE])]
    OBVIOUS
<1>1. w \in WorkOrderRecord /\ Standing(w) /\ Fits(w, Stage(w)) /\ w.deviations \in Seq(DeviationRecord)
    BY DEF Sound, Shaped, WorkOrderRecord
<1>2. [id |-> id, block |-> block, approved |-> FALSE] \in DeviationRecord
    BY DEF DeviationRecord
<1> PICK longer : longer = Append(w.deviations, [id |-> id, block |-> block, approved |-> FALSE])
    OBVIOUS
<1>3. longer \in Seq(DeviationRecord) /\ Len(longer) = Len(w.deviations) + 1 /\ Len(w.deviations) \in Nat
    BY <1>1, <1>2
<1>4. /\ v \in WorkOrderRecord /\ SameWork(w, v) /\ v.deviations = longer
      /\ v.request = w.request /\ v.waivedGaps = w.waivedGaps /\ v.outcome = w.outcome
      /\ v.deferredFrom = w.deferredFrom /\ v.status = w.status /\ v.closed = w.closed
    BY <1>1, <1>3 DEF WorkOrderRecord, SameWork, Untouched
<1>5. Waived(v) = Waived(w) /\ Stage(v) = Stage(w) /\ Standing(v)
    BY <1>1, <1>4 DEF Waived, Stage, Standing
<1>6. Sound(v) /\ Follows(w, v) /\ (FinalAuditHolds(w) => FinalAuditHolds(v))
  <2>1. Len(longer) >= Len(w.deviations)
      BY <1>3
  <2>2. MoreSettled(w, v)
      BY <1>4, <1>5, <2>1 DEF MoreSettled
  <2> QED BY <1>1, <1>4, <1>5, <2>2, SameWorkIsSound
<1>7. CASE ~material
  <2>1. Deviating(w, id, block, material) = v
      BY <1>7 DEF Deviating
  <2> QED BY <1>3, <1>4, <1>6, <2>1 DEF DeviatesTo
<1>8. CASE material
  <2> PICK d : d = Raise(v, {"MATERIAL_DEVIATION"}, {})
      OBVIOUS
  <2>1. Deviating(w, id, block, material) = d
      BY <1>8 DEF Deviating
  <2>2. CanRaise(v) /\ {"MATERIAL_DEVIATION"} \in SUBSET Code /\ {} \in SUBSET Gap
      BY <1>4, <1>8 DEF CanRaise, Code
  <2>3. /\ Sound(d) /\ SameWork(v, d) /\ Waived(v) \subseteq Waived(d)
        /\ d.status = Attention /\ d.deviations = v.deviations /\ Stage(d) = Stage(v)
        /\ v.status = Attention \/ v.status \in AttentionSources
        /\ d.closed = v.closed
    <3>1. RaisedTo(v, d)
        BY <1>6, <2>2, MachineRaise
    <3> QED BY <3>1 DEF RaisedTo
  <2>4. d \in WorkOrderRecord /\ Standing(d) /\ SameWork(w, d)
      BY <1>4, <2>3 DEF Sound, Shaped, SameWork, Untouched
  <2>5. Sound(d) /\ Follows(w, d) /\ (FinalAuditHolds(w) => FinalAuditHolds(d))
    <3>1. d.deviations = longer /\ Len(longer) >= Len(w.deviations)
      <4>1. d.deviations = longer
          BY <1>4, <2>3
      <4>2. Len(longer) >= Len(w.deviations)
          BY <1>3
      <4> QED BY <4>1, <4>2
    <3>2. MoreSettled(w, d) /\ Fits(w, Stage(d))
        BY <1>1, <1>5, <2>3, <3>1 DEF MoreSettled
    <3> QED BY <2>4, <3>2, SameWorkIsSound
  <2>6. d.status = w.status \/ (d.status = Attention /\ w.status \in AttentionSources)
      BY <1>4, <2>3
  <2>7. Len(d.deviations) >= Len(w.deviations)
    <3>1. d.deviations = longer
        BY <1>4, <2>3
    <3>2. Len(longer) >= Len(w.deviations)
        BY <1>3
    <3> QED BY <3>1, <3>2
  <2> QED BY <1>3, <1>4, <2>1, <2>3, <2>4, <2>5, <2>6, <2>7 DEF DeviatesTo
<1> QED BY <1>7, <1>8

\* A record that may only fail because its deviations share an id.
LEMMA StoredDeviation ==
    ASSUME RecordInv, NEW op \in {"record_deviation", "finish_memory_curation"}, NEW new,
           NEW remember, Store(op, new, remember), Sound(new), Follows(wo, new),
           wo.status \notin Terminal, new.closed = wo.closed,
           Counted(new, remember), Remembered(new, remember), Moves(wo, new), FinalAuditHolds(new)
    PROVE  RecordInv' /\ OnlyKnownRefusals'
<1>1. Independent(new) /\ Shaped(new)
    BY IndependentIs DEF Sound
<1>2. Broken(wo, new) \subseteq {"attention", "deviation_ids"}
    BY <1>1, BrokenIs
<1>3. LET others == Broken(wo, new) \ {"attention"} IN
      others = {} \/ others = {"deviation_ids"}
    BY <1>2
<1>4. <<op, {"deviation_ids"}>> \in KnownRefusal
    BY DEF KnownRefusal
<1>5. KeepsIds(op, new)
    BY DEF KeepsIds, Raising
<1> QED BY <1>1, <1>3, <1>4, <1>5, Stored

LEMMA RecordDeviationStep ==
    ASSUME RecordInv, RecordDeviation
    PROVE  RecordInv' /\ OnlyKnownRefusals'
<1>1. PICK id \in 1..(MaxDeviations + 1), material \in BOOLEAN :
         /\ material => CanRaise(wo)
         /\ Store("record_deviation", Deviating(wo, id, NoValue, material),
                  IF material THEN Again(wo, past, {"MATERIAL_DEVIATION"}, {}) ELSE past)
    BY DEF RecordDeviation, WriteAnd
<1> PICK d : d = Deviating(wo, id, NoValue, material)
    OBVIOUS
<1> PICK remember :
        remember = IF material THEN Again(wo, past, {"MATERIAL_DEVIATION"}, {}) ELSE past
    OBVIOUS
<1>2. id \in Nat
    OBVIOUS
<1>3. /\ Sound(d) /\ SameWork(wo, d) /\ Follows(wo, d) /\ FinalAuditHolds(d)
      /\ d.status = wo.status \/ (d.status = Attention /\ wo.status \in AttentionSources)
      /\ d.closed = wo.closed
  <2>1. DeviatesTo(wo, d)
      BY <1>1, <1>2, DeviatingIsSound, WorkOrderFacts
  <2> QED BY <2>1, WorkOrderFacts DEF DeviatesTo
<1>4. Moves(wo, d) /\ wo.status \notin Terminal
    BY <1>3 DEF RecordDeviation, Moves, Transition
<1>6. Keeps(remember)
  <2>1. {"MATERIAL_DEVIATION"} \in SUBSET Code /\ {} \in SUBSET Code
      BY DEF Code
  <2> QED BY <2>1, AgainKeeps, WorkOrderFacts DEF Keeps
<1>5. Counted(d, remember) /\ Remembered(d, remember)
    BY <1>3, <1>6, SameWorkIsCounted DEF RecordInv, Keeps
<1> QED BY <1>1, <1>3, <1>4, <1>5, StoredDeviation

-----------------------------------------------------------------------------
(*                                Decisions                                *)

\* The record a decision acts on: more is waived, more deviations are approved.
DecidedOn(w) ==
    /\ Sound(w) /\ SameWork(wo, w) /\ MoreSettled(wo, w) /\ DeviationIdsDiffer(w)
    /\ w \in WorkOrderRecord /\ wo.status = Attention /\ w.status = Attention
    /\ w.request \in Request /\ w.request # NoValue /\ w.outcome # "promoted"
    /\ w.deferredFrom = NoValue /\ Stage(wo) = w.request.from /\ Stage(w) = w.request.from
    /\ w.closed = wo.closed /\ wo.request # NoValue /\ w.request.id = wo.request.id

LEMMA DecidedFacts ==
    ASSUME RecordInv, wo.status = Attention,
           NEW waived \in SUBSET (wo.request.reasons \ wo.request.waived), NEW ids
    PROVE  DecidedOn(Decided(waived, ids))
<1>1. /\ wo.request # NoValue /\ wo.request \in Request /\ wo.deferredFrom = NoValue
      /\ Stage(wo) = wo.request.from /\ wo.deviations \in Seq(DeviationRecord)
    BY WorkOrderFacts DEF Standing, WorkOrderRecord, Stage, Attention
<1> PICK devs : devs = Approving(ids)
    OBVIOUS
<1>2. /\ devs \in Seq(DeviationRecord) /\ DOMAIN devs = DOMAIN wo.deviations
      /\ Len(devs) = Len(wo.deviations) /\ Len(wo.deviations) \in Nat
      /\ \A i \in DOMAIN devs : devs[i].id = wo.deviations[i].id
  <2>1. DOMAIN wo.deviations = 1..Len(wo.deviations) /\ Len(wo.deviations) \in Nat
      BY <1>1
  <2>2. ASSUME NEW i \in DOMAIN wo.deviations
        PROVE  devs[i] \in DeviationRecord /\ devs[i].id = wo.deviations[i].id
    <3>1. wo.deviations[i] \in DeviationRecord
        BY <1>1
    <3> PICK flag \in BOOLEAN : flag = (wo.deviations[i].approved \/ wo.deviations[i].id \in ids)
        OBVIOUS
    <3>2. devs[i] = [wo.deviations[i] EXCEPT !.approved = flag]
        BY DEF Approving
    <3> QED BY <3>1, <3>2 DEF DeviationRecord
  <2>3. devs \in [1..Len(wo.deviations) -> DeviationRecord] /\ DOMAIN devs = DOMAIN wo.deviations
      BY <2>1, <2>2 DEF Approving
  <2>4. devs \in Seq(DeviationRecord) /\ Len(devs) = Len(wo.deviations)
      BY <2>1, <2>3
  <2> QED BY <2>1, <2>2, <2>3, <2>4
<1> PICK q : q = [wo.request EXCEPT !.waived = @ \cup waived]
    OBVIOUS
<1>3. /\ q \in Request /\ q.from = wo.request.from /\ q.gaps = wo.request.gaps
      /\ wo.request.waived \subseteq q.waived /\ q.id = wo.request.id
    BY <1>1 DEF Request
<1> PICK w : w = Decided(waived, ids)
    OBVIOUS
<1>4. w = [wo EXCEPT !.request = q, !.deviations = devs]
  <2>1. [wo.request EXCEPT !.waived = @ \cup waived] = q
      OBVIOUS
  <2> QED BY <2>1, WorkOrderFacts DEF Decided, WorkOrderRecord
<1>5. /\ w \in WorkOrderRecord /\ SameWork(wo, w) /\ w.deviations = devs
      /\ w.request = q /\ w.waivedGaps = wo.waivedGaps /\ w.outcome = wo.outcome
      /\ w.deferredFrom = wo.deferredFrom /\ w.status = wo.status /\ w.grants = wo.grants
      /\ w.closed = wo.closed
    BY <1>2, <1>3, <1>4, WorkOrderFacts DEF WorkOrderRecord, SameWork, Untouched
<1>6. w.request # NoValue
    BY <1>3, <1>5, RequestIsNoNone
<1>7. Standing(w) /\ Stage(w) = Stage(wo)
    BY <1>1, <1>3, <1>5, <1>6, WorkOrderFacts DEF Standing, Stage, Attention
<1>8. Waived(wo) \subseteq Waived(w)
    BY <1>1, <1>3, <1>5, <1>6 DEF Waived
<1>9. MoreSettled(wo, w)
  <2>1. Len(devs) >= Len(wo.deviations)
      BY <1>2
  <2> QED BY <1>5, <1>8, <2>1 DEF MoreSettled
<1>10. DeviationIdsDiffer(w)
    BY <1>2, <1>5 DEF RecordInv, DeviationIdsDiffer
<1>11. Sound(w)
    BY <1>5, <1>7, <1>9, WorkOrderFacts, SameWorkIsSound
<1>12. w.outcome # "promoted"
    BY <1>5, <1>7 DEF Standing, Attention
<1> QED BY <1>1, <1>3, <1>5, <1>6, <1>7, <1>9, <1>10, <1>11, <1>12 DEF DecidedOn

LEMMA StoredClosed ==
    ASSUME RecordInv, NEW w, DecidedOn(w), NEW target \in {"PLAN_PROPOSED", "ABORTED", w.request.from},
           NEW op, NEW remember, Store(op, Close(w, target), remember),
           Keeps(remember)
    PROVE  RecordInv' /\ OnlyKnownRefusals'
<1> PICK c : c = Close(w, target)
    OBVIOUS
<1>1. w.request.from \in AttentionSources
    BY DEF DecidedOn, Request
<1>2. /\ target \in Status \ {Attention, "DEFERRED", "PROMOTED", "DRAFT"}
      /\ <<Attention, target>> \in Transition
    BY <1>1, StatusFacts DEF Status, Transition, Attention, AttentionSources
<1>3. /\ c \in WorkOrderRecord /\ SameWork(w, c) /\ Waived(c) = Waived(w)
      /\ c.status = target /\ c.request = NoValue /\ c.deferredFrom = w.deferredFrom
      /\ c.deviations = w.deviations /\ c.outcome = w.outcome
    BY <1>2, WaivedOfClosed DEF DecidedOn
<1>4. SameWork(wo, c) /\ MoreSettled(wo, c) /\ DeviationIdsDiffer(c)
    BY <1>3 DEF DecidedOn, SameWork, Untouched, MoreSettled, DeviationIdsDiffer
<1>5. Standing(c) /\ Stage(c) = target
    BY <1>2, <1>3 DEF DecidedOn, Standing, Stage
<1>6. Fits(wo, target)
    BY <1>1, WorkOrderFacts, StatusFacts DEF DecidedOn, Fits
<1>7. Moves(wo, c) /\ wo.status \notin Terminal
    BY <1>2, <1>3 DEF DecidedOn, Moves, Terminal, Attention
<1>8. KeepsIds(op, c)
    BY <1>3 DEF KeepsIds
<1> QED BY <1>3, <1>4, <1>5, <1>6, <1>7, <1>8, StoredSettled

LEMMA StoredDrift ==
    ASSUME RecordInv, NEW w, DecidedOn(w), NEW op, NEW remember,
           Store(op, Raise(w, {"BASELINE_DRIFT"}, {}), remember),
           Keeps(remember)
    PROVE  RecordInv' /\ OnlyKnownRefusals'
<1> PICK r : r = Raise(w, {"BASELINE_DRIFT"}, {})
    OBVIOUS
<1>1. CanRaise(w) /\ {"BASELINE_DRIFT"} \in SUBSET Code /\ {} \in SUBSET Gap
    BY DEF DecidedOn, CanRaise, Code
<1>2. /\ Sound(r) /\ SameWork(w, r) /\ Waived(w) \subseteq Waived(r) /\ r.status = Attention
      /\ r.deviations = w.deviations /\ Stage(r) = Stage(w)
      /\ r.closed = w.closed /\ r.request.id = w.request.id
    BY <1>1, MachineRaise DEF DecidedOn, RaisedTo
<1>3. SameWork(wo, r) /\ MoreSettled(wo, r) /\ DeviationIdsDiffer(r)
    BY <1>2 DEF DecidedOn, SameWork, Untouched, MoreSettled, DeviationIdsDiffer
<1>4. r \in WorkOrderRecord /\ Standing(r) /\ Fits(wo, Stage(r))
    BY <1>2, WorkOrderFacts DEF DecidedOn, Sound, Shaped
<1>5. Moves(wo, r) /\ wo.status \notin Terminal
    BY <1>2 DEF DecidedOn, Moves, Terminal, Attention
<1>6. KeepsIds(op, r)
    BY <1>2 DEF DecidedOn, KeepsIds
<1> QED BY <1>2, <1>3, <1>4, <1>5, <1>6, StoredSettled

\* What a decision remembers.
LEMMA HeardKeeps ==
    ASSUME RecordInv, NEW w, DecidedOn(w), NEW codes
    PROVE  /\ Keeps(Heard(w)) /\ Keeps(Resolved(w, codes))
           /\ Keeps([past EXCEPT !.unanswered = {}])
           /\ Keeps(Again(w, Heard(w), {"BASELINE_DRIFT"}, {}))
<1>1. past \in PastRecord /\ w.request \in Request /\ w \in WorkOrderRecord
    BY WorkOrderFacts DEF DecidedOn
<1>2. Keeps(Heard(w))
  <2> PICK unanswered \in SUBSET Code : unanswered = past.unanswered \ w.request.waived
      BY <1>1 DEF PastRecord
  <2> PICK excused \in SUBSET Code : excused = past.excused \cup w.request.waived
      BY <1>1 DEF PastRecord, Request
  <2>1. Heard(w) = [past EXCEPT !.unanswered = unanswered, !.excused = excused]
      BY <1>1 DEF Heard, PastRecord
  <2> QED BY <1>1, <2>1 DEF Keeps, PastRecord
<1>3. Keeps(Resolved(w, codes))
  <2> PICK heard : heard = Heard(w)
      OBVIOUS
  <2> PICK unanswered : unanswered = heard.unanswered \ codes
      OBVIOUS
  <2>1. heard \in PastRecord /\ unanswered \in SUBSET Code
      BY <1>2 DEF Keeps, PastRecord
  <2>2. Resolved(w, codes) = [heard EXCEPT !.unanswered = unanswered]
      BY <2>1 DEF Resolved, PastRecord
  <2> QED BY <1>2, <2>1, <2>2 DEF Keeps, PastRecord
<1>4. Keeps([past EXCEPT !.unanswered = {}])
    BY <1>1 DEF Keeps, PastRecord
<1>5. Keeps(Again(w, Heard(w), {"BASELINE_DRIFT"}, {}))
  <2>1. {"BASELINE_DRIFT"} \in SUBSET Code /\ {} \in SUBSET Code
      BY DEF Code
  <2> QED BY <1>1, <1>2, <2>1, AgainKeeps DEF Keeps
<1> QED BY <1>2, <1>3, <1>4, <1>5

LEMMA ResumeStep ==
    ASSUME RecordInv, NEW w, DecidedOn(w), Resume(w)
    PROVE  RecordInv' /\ OnlyKnownRefusals'
<1>1. Keeps(Heard(w)) /\ Keeps(Again(w, Heard(w), {"BASELINE_DRIFT"}, {}))
    BY HeardKeeps
<1>2. \/ Store("resume", Close(w, w.request.from), Heard(w))
      \/ Store("resume", Raise(w, {"BASELINE_DRIFT"}, {}),
               Again(w, Heard(w), {"BASELINE_DRIFT"}, {}))
    BY DEF Resume, WriteUnlessDrift, WriteAnd
<1>3. CASE Store("resume", Close(w, w.request.from), Heard(w))
    BY <1>1, <1>3, StoredClosed
<1>4. CASE Store("resume", Raise(w, {"BASELINE_DRIFT"}, {}),
                 Again(w, Heard(w), {"BASELINE_DRIFT"}, {}))
    BY <1>1, <1>4, StoredDrift
<1> QED BY <1>2, <1>3, <1>4

LEMMA ReplanAndAbortSteps ==
    ASSUME RecordInv, NEW w, DecidedOn(w), Replan(w) \/ Abort(w)
    PROVE  RecordInv' /\ OnlyKnownRefusals'
<1>1. CASE Replan(w)
  <2> PICK remember : remember = [past EXCEPT !.unanswered = {}]
      OBVIOUS
  <2>1. Keeps(remember)
      BY HeardKeeps
  <2>2. Store("replan", Close(w, "PLAN_PROPOSED"), remember)
      BY <1>1 DEF Replan, WriteAnd
  <2> QED BY <2>1, <2>2, StoredClosed
<1>2. CASE Abort(w)
  <2>1. Store("abort", Close(w, "ABORTED"), past)
      BY <1>2 DEF Abort, Write
  <2> QED BY <2>1, StoredClosed, WorkOrderFacts
<1> QED BY <1>1, <1>2

LEMMA DeferStep ==
    ASSUME RecordInv, NEW w, DecidedOn(w), Defer(w)
    PROVE  RecordInv' /\ OnlyKnownRefusals'
<1> PICK remember : remember = Heard(w)
    OBVIOUS
<1>1. Keeps(remember)
    BY HeardKeeps
<1>0. PICK c : c = Close(w, "DEFERRED")
    OBVIOUS
<1>2. /\ c \in WorkOrderRecord /\ SameWork(w, c) /\ Waived(c) = Waived(w)
      /\ c.status = "DEFERRED" /\ c.request = NoValue
      /\ c.deviations = w.deviations /\ c.outcome = w.outcome /\ c.waivedGaps = Waived(w)
    BY <1>0, WaivedOfClosed DEF DecidedOn, Status
<1> PICK from : from = w.request.from
    OBVIOUS
<1> PICK d : d = [c EXCEPT !.deferredFrom = from]
    OBVIOUS
<1>3. Store("defer", d, remember)
    BY <1>0 DEF Defer, WriteAnd
<1>4. from \in AttentionSources
    BY DEF DecidedOn, Request
<1>5. /\ d \in WorkOrderRecord /\ SameWork(c, d) /\ d.status = "DEFERRED" /\ d.request = NoValue
      /\ d.deviations = c.deviations /\ d.outcome = c.outcome /\ d.waivedGaps = c.waivedGaps
      /\ d.deferredFrom = from
  <2>1. c \in WorkOrderRecord
      BY <1>2
  <2>2. d \in WorkOrderRecord
      BY <1>4, <2>1 DEF WorkOrderRecord
  <2> QED BY <1>2, <2>1, <2>2 DEF WorkOrderRecord, SameWork, Untouched
<1>6. Waived(d) = Waived(w)
    BY <1>2, <1>5 DEF Waived
<1>7. SameWork(wo, d) /\ MoreSettled(wo, d) /\ DeviationIdsDiffer(d)
    BY <1>2, <1>5, <1>6 DEF DecidedOn, SameWork, Untouched, MoreSettled, DeviationIdsDiffer
<1>8. from # NoValue
    BY <1>4, StatusFacts, RequestIsNoNone
<1>9. Standing(d) /\ Stage(d) = Stage(wo)
    BY <1>2, <1>5, <1>8 DEF DecidedOn, Standing, Stage, Attention
<1>10. Moves(wo, d) /\ wo.status \notin Terminal
    BY <1>5 DEF DecidedOn, Moves, Transition, Terminal, Attention
<1>11. KeepsIds("defer", d)
    BY <1>5 DEF KeepsIds
<1> QED BY <1>1, <1>3, <1>5, <1>7, <1>9, <1>10, <1>11, WorkOrderFacts, StoredSettled

\* An amendment answers the codes it is about.
LEMMA ResolvingFacts ==
    ASSUME NEW w, DecidedOn(w), NEW codes
    PROVE  \E q \in Request :
             /\ Resolving(w, codes) = [w EXCEPT !.request = q]
             /\ q.from = w.request.from /\ q.gaps = w.request.gaps /\ q.waived = w.request.waived
             /\ q.id = w.request.id /\ q.reasons = w.request.reasons
             /\ q.warnings = w.request.warnings
             /\ q.resolved = w.request.resolved \cup (w.request.reasons \cap codes)
<1> PICK q : q = [w.request EXCEPT !.resolved = @ \cup (w.request.reasons \cap codes)]
    OBVIOUS
<1>1. q \in Request
    BY DEF DecidedOn, Request
<1>2. Resolving(w, codes) = [w EXCEPT !.request = q]
    BY DEF DecidedOn, WorkOrderRecord, Resolving
<1> QED BY <1>1, <1>2 DEF DecidedOn, Request

\* The profile that is changed to may require more than the audits on record show.
LEMMA ChangeAgentStep ==
    ASSUME RecordInv, NEW w, DecidedOn(w), ChangeAgent(w)
    PROVE  RecordInv' /\ OnlyKnownRefusals'
<1> PICK codes : codes = {"AGENT_UNAVAILABLE", "INDEPENDENCE_UNAVAILABLE"}
    OBVIOUS
<1>1. PICK e \in DOMAIN Envelope :
         Store("change_agent", [Resolving(w, codes) EXCEPT !.envelope = e], Resolved(w, codes))
    BY DEF ChangeAgent, WriteAnd
<1>3. PICK q \in Request :
         /\ Resolving(w, codes) = [w EXCEPT !.request = q]
         /\ q.from = w.request.from /\ q.gaps = w.request.gaps /\ q.waived = w.request.waived
         /\ q.id = w.request.id
    BY ResolvingFacts
<1> PICK new : new = [w EXCEPT !.request = q, !.envelope = e]
    OBVIOUS
<1>2. Store("change_agent", new, Resolved(w, codes))
    BY <1>1, <1>3
<1>4. /\ new \in WorkOrderRecord /\ Untouched(w, new) /\ new.deviations = w.deviations
      /\ new.request = q /\ new.waivedGaps = w.waivedGaps /\ new.outcome = w.outcome
      /\ new.deferredFrom = w.deferredFrom /\ new.status = w.status /\ new.baseline = w.baseline
      /\ new.closed = w.closed
    BY DEF DecidedOn, WorkOrderRecord, Untouched
<1>5. new.request # NoValue
    BY <1>4, RequestIsNoNone
<1>6. Waived(new) = Waived(w)
    BY <1>3, <1>4, <1>5 DEF DecidedOn, Waived
<1>7. Standing(new) /\ Stage(new) = Stage(wo)
    BY <1>3, <1>4, <1>5 DEF DecidedOn, Standing, Stage, Attention
<1>8. Untouched(wo, new) /\ MoreSettled(wo, new) /\ DeviationIdsDiffer(new)
    BY <1>4, <1>6 DEF DecidedOn, SameWork, Untouched, MoreSettled, DeviationIdsDiffer
<1>9. Moves(wo, new) /\ wo.status \notin Terminal /\ KeepsIds("change_agent", new)
    BY <1>3, <1>4 DEF DecidedOn, Moves, Terminal, Attention, KeepsIds
<1>10. Shaped(new) /\ Follows(wo, new)
  <2>1. Shaped(wo) /\ Fits(wo, Stage(new))
      BY <1>7, WorkOrderFacts DEF Sound
  <2> QED BY <1>4, <1>7, <1>8, <2>1, UntouchedIsShaped
<1>11. Counted(new, Resolved(w, codes)) /\ Remembered(new, Resolved(w, codes))
  <2>1. Keeps(Resolved(w, codes))
      BY HeardKeeps
  <2>2. BlocksOf(new) = BlocksOf(wo) /\ Writers(new) = Writers(wo)
      BY <1>8 DEF Untouched, BlocksOf, Writers
  <2> QED BY <1>8, <2>1, <2>2 DEF RecordInv, Untouched, Keeps, Counted, Remembered
<1>12. Broken(wo, new) \subseteq {"independence", "attention"}
    BY <1>8, <1>9, <1>10, BrokenIs
<1>13. LET others == Broken(wo, new) \ {"attention"} IN
       others = {} \/ others = {"independence"}
    BY <1>12
<1>14. <<"change_agent", {"independence"}>> \in KnownRefusal
    BY DEF KnownRefusal
<1> QED BY <1>2, <1>9, <1>10, <1>11, <1>13, <1>14, Stored

-----------------------------------------------------------------------------
(*                        Operations on the blocks                         *)

\* What a block becomes, whichever operation works on it under the policy in force.
Succeeds(b, old, waived) ==
    /\ b \in BlockRecord /\ b.spec = old.spec /\ BlockIsFine(b)
    /\ BlockAuditsHold(b, wo.envelope, waived)
    /\ old.status = "BLOCK_DONE" => b = old
    /\ old.coders \subseteq b.coders /\ old.curators \subseteq b.curators

SameOrder(new) ==
    /\ new.baseline = wo.baseline /\ new.candidate = wo.candidate /\ new.plans = wo.plans
    /\ new.approved = wo.approved /\ new.superseded = wo.superseded
    /\ new.envelope = wo.envelope
    /\ new.finalAudit = wo.finalAudit /\ Len(new.deviations) >= Len(wo.deviations)
    /\ Waived(wo) \subseteq Waived(new)

LEMMA BlocksReplaced ==
    ASSUME RecordInv, NEW new, new \in WorkOrderRecord, SameOrder(new), Standing(new),
           Fits(wo, Stage(new)), DOMAIN new.blocks = DOMAIN wo.blocks,
           \A i \in DOMAIN wo.blocks : Succeeds(new.blocks[i], wo.blocks[i], Waived(new))
    PROVE  /\ Sound(new) /\ Follows(wo, new) /\ Writers(wo) \subseteq Writers(new)
           /\ Writers(new) \subseteq Writers(wo) => FinalAuditHolds(new)
<1>1. /\ wo.blocks \in Seq(BlockRecord) /\ new.blocks \in Seq(BlockRecord)
      /\ wo.approved \in Nat /\ wo.plans \in Seq(Plan)
    BY WorkOrderFacts DEF WorkOrderRecord
<1>2. new.blocks = <<>> <=> wo.blocks = <<>>
    BY <1>1
<1>3. ApprovedPlan(new) = ApprovedPlan(wo)
    BY DEF SameOrder, ApprovedPlan
<1>4. Founded(new)
  <2>1. [i \in DOMAIN new.blocks |-> new.blocks[i].spec]
          = [i \in DOMAIN wo.blocks |-> wo.blocks[i].spec]
      BY DEF Succeeds
  <2> QED BY <1>2, <1>3, <2>1, WorkOrderFacts DEF Founded, SameOrder
<1>5. \A b \in BlocksOf(new) : BlockIsFine(b) /\ BlockAuditsHold(b, new.envelope, Waived(new))
    BY DEF BlocksOf, Succeeds, SameOrder
<1>6. \A b \in BlocksOf(wo) : b.status = "BLOCK_DONE" => b \in BlocksOf(new)
    BY DEF BlocksOf, Succeeds
<1>7. Fits(new, Stage(new))
  <2>1. (\A b \in BlocksOf(wo) : b.status = "BLOCK_DONE") =>
          \A b \in BlocksOf(new) : b.status = "BLOCK_DONE"
      BY DEF BlocksOf, Succeeds
  <2> QED BY <1>2, <2>1 DEF Fits, SameOrder
<1>8. Sound(new)
    BY <1>4, <1>5, <1>7 DEF Sound, Shaped
<1>9. Follows(wo, new)
  <2>1. Extends(new.plans, wo.plans) /\ new.approved >= wo.approved
      BY <1>1, PlansStay DEF SameOrder
  <2> QED BY <1>6, <2>1 DEF Follows, DoneIsKept, SameOrder
<1>10. Writers(wo) \subseteq Writers(new)
  <2>1. ASSUME NEW p \in UNION {b.coders \cup b.curators : b \in BlocksOf(wo)}
        PROVE  p \in UNION {b.coders \cup b.curators : b \in BlocksOf(new)}
    <3>1. PICK i \in DOMAIN wo.blocks : p \in wo.blocks[i].coders \cup wo.blocks[i].curators
        BY <2>1 DEF BlocksOf
    <3>2. p \in new.blocks[i].coders \cup new.blocks[i].curators /\ new.blocks[i] \in BlocksOf(new)
        BY <3>1 DEF Succeeds, BlocksOf
    <3> QED BY <3>2
  <2> QED BY <2>1 DEF Writers, SameOrder
<1>11. Writers(new) \subseteq Writers(wo) => FinalAuditHolds(new)
    BY <1>3, FinalAuditStays, WorkOrderFacts DEF SameOrder
<1> QED BY <1>8, <1>9, <1>10, <1>11

\* No new writers: each block has those it had.
LEMMA NoNewWriters ==
    ASSUME NEW old, NEW new, new.superseded = old.superseded, DOMAIN new.blocks = DOMAIN old.blocks,
           \A i \in DOMAIN old.blocks : /\ new.blocks[i].coders = old.blocks[i].coders
                                        /\ new.blocks[i].curators = old.blocks[i].curators
    PROVE  Writers(new) = Writers(old)
<1>1. ASSUME NEW p
      PROVE  p \in UNION {b.coders \cup b.curators : b \in BlocksOf(new)}
               <=> p \in UNION {b.coders \cup b.curators : b \in BlocksOf(old)}
  <2>1. p \in UNION {b.coders \cup b.curators : b \in BlocksOf(new)}
          <=> \E i \in DOMAIN new.blocks : p \in new.blocks[i].coders \cup new.blocks[i].curators
      BY DEF BlocksOf
  <2>2. p \in UNION {b.coders \cup b.curators : b \in BlocksOf(old)}
          <=> \E i \in DOMAIN old.blocks : p \in old.blocks[i].coders \cup old.blocks[i].curators
      BY DEF BlocksOf
  <2> QED BY <2>1, <2>2
<1> QED BY <1>1 DEF Writers

LEMMA SameWorkFollows ==
    ASSUME NEW a, NEW b, NEW c, Follows(a, b), SameWork(b, c), Len(a.deviations) \in Nat,
           Len(b.deviations) \in Nat, Len(c.deviations) \in Nat,
           Len(c.deviations) >= Len(b.deviations)
    PROVE  Follows(a, c)
<1>1. BlocksOf(c) = BlocksOf(b)
    BY DEF SameWork, Untouched, BlocksOf
<1>2. Len(c.deviations) >= Len(a.deviations)
    BY DEF Follows
<1> QED BY <1>1, <1>2 DEF Follows, SameWork, Untouched, DoneIsKept

LEMMA RestartedFacts ==
    ASSUME NEW b \in BlockRecord, BlockIsFine(b), NEW waived,
           BlockAuditsHold(b, wo.envelope, waived)
    PROVE  /\ Succeeds(Restarted(b), b, waived)
           /\ Restarted(b).coders = b.coders /\ Restarted(b).curators = b.curators
<1> PICK r : r = Restarted(b)
    OBVIOUS
<1>1. CASE b.status = "BLOCK_DONE"
    BY <1>1 DEF Restarted, Succeeds
<1>2. CASE b.status # "BLOCK_DONE"
  <2>1. r = [b EXCEPT !.failed = 0, !.curations = 0]
      BY <1>2 DEF Restarted
  <2>2. /\ r \in BlockRecord /\ r.spec = b.spec /\ r.status = b.status /\ r.coders = b.coders
        /\ r.curators = b.curators /\ r.codeAudit = b.codeAudit /\ r.tests = b.tests
        /\ r.memoryAudit = b.memoryAudit /\ r.memoryChange = b.memoryChange /\ r.risk = b.risk
        /\ r.curated = b.curated /\ r.curations = 0
    <3>1. b \in BlockRecord
        OBVIOUS
    <3> PICK r1 : r1 = [b EXCEPT !.failed = 0]
        OBVIOUS
    <3>2. r1 \in BlockRecord
        BY <3>1 DEF BlockRecord
    <3>3. r = [r1 EXCEPT !.curations = 0]
        BY <2>1
    <3>4. r \in BlockRecord
        BY <3>2, <3>3 DEF BlockRecord
    <3> QED BY <2>1, <3>1, <3>4 DEF BlockRecord
  <2>3. BlockIsFine(r)
      BY <2>2 DEF BlockIsFine, BlockIsStaged, CodeApproved, MemoryApproved
  <2>4. BlockAuditsHold(r, wo.envelope, waived)
      BY <2>2 DEF BlockAuditsHold
  <2> QED BY <1>2, <2>2, <2>3, <2>4 DEF Succeeds
<1> QED BY <1>1, <1>2

\* A new budget grants as many attempts again.
LEMMA RestartedIsCounted ==
    ASSUME NEW b \in BlockRecord, NEW budget \in Nat \ {0}, NEW quota \in Nat, NEW n \in Nat \ {0},
           BlockIsCounted(b, budget, quota)
    PROVE  BlockIsCounted(Restarted(b), n, quota + n)
<1> PICK r : r = Restarted(b)
    OBVIOUS
<1>1. /\ b.failed \in Nat /\ b.curations \in Nat /\ b.coded \in Nat /\ b.curated \in Nat
    BY DEF BlockRecord
<1>2. CASE b.status = "BLOCK_DONE"
    BY <1>1, <1>2 DEF Restarted, BlockIsCounted
<1>3. CASE b.status # "BLOCK_DONE"
  <2>1. /\ r.status = b.status /\ r.coded = b.coded /\ r.curated = b.curated
        /\ r.failed = 0 /\ r.curations = 0
      BY <1>3 DEF Restarted, BlockRecord
  <2>2. b.status = "PENDING" => b.coded <= quota
      BY <1>1 DEF BlockIsCounted
  <2>3. b.status # "PENDING" => b.coded <= quota
      BY <1>1, <1>3 DEF BlockIsCounted
  <2>4. b.status \notin Unaudited \cup {"BLOCK_DONE"} => b.curated <= quota + 1
      BY <1>1 DEF BlockIsCounted
  <2> QED BY <1>1, <1>3, <2>1, <2>2, <2>3, <2>4 DEF BlockIsCounted
<1> QED BY <1>2, <1>3

LEMMA BudgetIsPositive ==
    ASSUME RecordInv, wo.blocks # <<>>
    PROVE  wo.budget \in Nat \ {0} /\ past.quota \in Nat
BY WorkOrderFacts, BoundAssumption DEF RecordInv, Counted, WorkOrderRecord, PastRecord

LEMMA ChangeBudgetStep ==
    ASSUME RecordInv, NEW w, DecidedOn(w), ChangeBudget(w)
    PROVE  RecordInv' /\ OnlyKnownRefusals'
<1>21. PICK blocks : blocks = [i \in DOMAIN w.blocks |-> Restarted(w.blocks[i])]
    OBVIOUS
<1>20. PICK codes : codes = {"BUDGET_EXHAUSTED", "ATTEMPTS_EXHAUSTED"}
    OBVIOUS
<1>1. PICK n \in Budget :
         Store("change_budget",
               [Resolving(w, codes) EXCEPT !.budget = n, !.grants = @ + 1,
                                           !.blocks = [i \in DOMAIN @ |-> Restarted(@[i])]],
               [Resolved(w, codes) EXCEPT !.quota = @ + n])
    BY <1>20 DEF ChangeBudget, WriteAnd
<1> PICK remember : remember = [Resolved(w, codes) EXCEPT !.quota = @ + n]
    OBVIOUS
<1> PICK grants : grants = w.grants + 1
    OBVIOUS
<1>3. PICK q \in Request :
         /\ Resolving(w, codes) = [w EXCEPT !.request = q]
         /\ q.from = w.request.from /\ q.gaps = w.request.gaps /\ q.waived = w.request.waived
         /\ q.id = w.request.id
    BY ResolvingFacts
<1>22. PICK new : new = [w EXCEPT !.budget = n, !.grants = grants, !.blocks = blocks, !.request = q]
    OBVIOUS
<1>2. Store("change_budget", new, remember)
  <2>1. [Resolving(w, codes) EXCEPT !.budget = n, !.grants = @ + 1,
                                    !.blocks = [i \in DOMAIN @ |-> Restarted(@[i])]]
          = new
      BY <1>3, <1>21, <1>22 DEF DecidedOn, WorkOrderRecord
  <2> HIDE DEF Store
  <2> QED BY <1>1, <2>1
<1>4. /\ w \in WorkOrderRecord /\ w.blocks = wo.blocks /\ wo.blocks \in Seq(BlockRecord)
      /\ n \in Nat \ {0} /\ grants \in Nat
    BY BoundAssumption, WorkOrderFacts DEF DecidedOn, SameWork, Untouched, WorkOrderRecord
<1>5. \A i \in DOMAIN wo.blocks : /\ blocks[i] = Restarted(wo.blocks[i])
                                  /\ wo.blocks[i] \in BlockRecord
                                  /\ Succeeds(blocks[i], wo.blocks[i], Waived(wo))
                                  /\ blocks[i].coders = wo.blocks[i].coders
                                  /\ blocks[i].curators = wo.blocks[i].curators
    BY <1>4, <1>21, RestartedFacts, WorkOrderFacts
<1>6. blocks \in Seq(BlockRecord) /\ DOMAIN blocks = DOMAIN wo.blocks
  <2>1. DOMAIN wo.blocks = 1..Len(wo.blocks) /\ Len(wo.blocks) \in Nat
      BY <1>4
  <2>2. blocks \in [1..Len(wo.blocks) -> BlockRecord]
      BY <1>4, <1>5, <1>21, <2>1 DEF Succeeds
  <2> QED BY <2>1, <2>2
<1>7. /\ new \in WorkOrderRecord /\ new.deviations = w.deviations /\ new.blocks = blocks
      /\ new.request = q /\ new.waivedGaps = w.waivedGaps /\ new.outcome = w.outcome
      /\ new.deferredFrom = w.deferredFrom /\ new.status = w.status /\ new.baseline = w.baseline
      /\ new.candidate = w.candidate /\ new.plans = w.plans /\ new.approved = w.approved
      /\ new.superseded = w.superseded /\ new.finalAudit = w.finalAudit /\ new.budget = n
      /\ new.closed = w.closed /\ new.envelope = w.envelope
  <2>1. new \in WorkOrderRecord
    <3>0. PICK w1 : w1 = [w EXCEPT !.budget = n, !.grants = grants]
        OBVIOUS
    <3>1. w1 \in WorkOrderRecord
        BY <1>4, <3>0 DEF WorkOrderRecord
    <3>2. new = [w1 EXCEPT !.blocks = blocks, !.request = q]
        BY <1>22, <3>0
    <3> QED BY <1>3, <1>6, <3>1, <3>2 DEF WorkOrderRecord
  <2> QED BY <1>4, <1>22, <2>1 DEF WorkOrderRecord
<1>8. new.request # NoValue
    BY <1>3, <1>7, RequestIsNoNone
<1>9. Waived(new) = Waived(w)
    BY <1>3, <1>7, <1>8 DEF DecidedOn, Waived
<1>10. Standing(new) /\ Stage(new) = Stage(wo)
    BY <1>3, <1>7, <1>8 DEF DecidedOn, Standing, Stage, Attention
<1>11. SameOrder(new)
    BY <1>7, <1>9 DEF DecidedOn, SameWork, Untouched, MoreSettled, SameOrder
<1>12. \A i \in DOMAIN wo.blocks : Succeeds(new.blocks[i], wo.blocks[i], Waived(new))
  <2> SUFFICES ASSUME NEW i \in DOMAIN wo.blocks
               PROVE  Succeeds(blocks[i], wo.blocks[i], Waived(new))
      BY <1>7
  <2>1. Succeeds(blocks[i], wo.blocks[i], Waived(wo)) /\ Waived(wo) \subseteq Waived(new)
      BY <1>5, <1>11 DEF SameOrder
  <2> QED BY <2>1, BlockAuditsStay DEF Succeeds
<1>13. /\ Sound(new) /\ Follows(wo, new) /\ Writers(wo) \subseteq Writers(new)
       /\ Writers(new) \subseteq Writers(wo) => FinalAuditHolds(new)
    BY <1>6, <1>7, <1>10, <1>11, <1>12, WorkOrderFacts, BlocksReplaced
<1>14. Writers(new) = Writers(wo)
  <2>1. \A i \in DOMAIN wo.blocks : /\ new.blocks[i].coders = wo.blocks[i].coders
                                    /\ new.blocks[i].curators = wo.blocks[i].curators
      BY <1>5, <1>7
  <2>2. new.superseded = wo.superseded /\ DOMAIN new.blocks = DOMAIN wo.blocks
      BY <1>6, <1>7, <1>11 DEF SameOrder
  <2> QED BY <2>1, <2>2, NoNewWriters
<1>15. remember \in PastRecord /\ remember.quota = past.quota + n /\ remember.writers = past.writers
       /\ past.quota \in Nat
  <2> PICK heard : heard = Resolved(w, codes)
      OBVIOUS
  <2>1. Keeps(heard) /\ past.quota \in Nat
      BY HeardKeeps, WorkOrderFacts DEF PastRecord
  <2> QED BY <1>4, <2>1 DEF Keeps, PastRecord
<1>16. Counted(new, remember)
  <2>1. new.budget <= remember.quota
      BY <1>4, <1>7, <1>15
  <2>2. new.budget # NoValue
      BY <1>4, <1>7, RequestIsNoNone
  <2>3. ASSUME NEW i \in DOMAIN wo.blocks
        PROVE  BlockIsCounted(blocks[i], n, past.quota + n)
    <3>1. wo.budget \in Nat \ {0} /\ BlockIsCounted(wo.blocks[i], wo.budget, past.quota)
        BY <1>4, BudgetIsPositive, WorkOrderFacts DEF RecordInv, Counted
    <3>2. blocks[i] = Restarted(wo.blocks[i]) /\ wo.blocks[i] \in BlockRecord
        BY <1>5
    <3> QED BY <1>4, <1>15, <3>1, <3>2, RestartedIsCounted
  <2> QED BY <1>6, <1>7, <1>15, <2>1, <2>2, <2>3 DEF Counted, BlocksOf
<1>17. Remembered(new, remember)
    BY <1>14, <1>15 DEF RecordInv, Remembered
<1>18. Moves(wo, new) /\ wo.status \notin Terminal /\ DeviationIdsDiffer(new)
    BY <1>7 DEF DecidedOn, Moves, Terminal, Attention, DeviationIdsDiffer
<1>19. KeepsIds("change_budget", new)
    BY <1>3, <1>7 DEF DecidedOn, KeepsIds
<1> QED BY <1>2, <1>13, <1>14, <1>16, <1>17, <1>18, <1>19, StoredPlainly

LEMMA DecideStep ==
    ASSUME RecordInv, Decide
    PROVE  RecordInv' /\ OnlyKnownRefusals'
<1>1. wo.status = Attention
    BY DEF Decide
<1>2. PICK waived \in SUBSET (wo.request.reasons \ wo.request.waived),
           ids \in SUBSET {d.id : d \in {e \in Deviations : ~e.approved}} :
        LET w == Decided(waived, ids) IN
        \/ Resume(w) \/ Replan(w) \/ Defer(w) \/ Abort(w)
        \/ ChangeAgent(w) \/ ChangeBudget(w)
    BY DEF Decide
<1> PICK w : w = Decided(waived, ids)
    OBVIOUS
<1>3. DecidedOn(w)
    BY <1>1, DecidedFacts
<1> QED BY <1>2, <1>3, ResumeStep, ReplanAndAbortSteps, DeferStep, ChangeAgentStep, ChangeBudgetStep

LEMMA ResumeDeferredStep ==
    ASSUME RecordInv, ResumeDeferred
    PROVE  RecordInv' /\ OnlyKnownRefusals'
<1>1. wo.status = "DEFERRED" /\ wo.request = NoValue /\ wo.deferredFrom \in AttentionSources
      /\ Stage(wo) = wo.deferredFrom
    BY WorkOrderFacts DEF ResumeDeferred, Standing, Stage, WorkOrderRecord, Attention
<1> PICK from : from = wo.deferredFrom
    OBVIOUS
<1>0. PICK new : new = [wo EXCEPT !.status = from, !.deferredFrom = NoValue]
    OBVIOUS
<1>2. /\ from \in Status \ {Attention, "DEFERRED", "PROMOTED", "DRAFT"}
      /\ <<"DEFERRED", from>> \in Transition /\ <<"DEFERRED", Attention>> \in Transition
    BY <1>1, StatusFacts DEF Transition
<1>3. /\ new \in WorkOrderRecord /\ SameWork(wo, new) /\ new.deviations = wo.deviations
      /\ new.request = wo.request /\ new.waivedGaps = wo.waivedGaps /\ new.outcome = wo.outcome
      /\ new.closed = wo.closed /\ new.envelope = wo.envelope
      /\ new.deferredFrom = NoValue /\ new.status = from
    BY <1>0, <1>2, WorkOrderFacts DEF WorkOrderRecord, SameWork, Untouched
<1>4. Waived(new) = Waived(wo)
    BY <1>3 DEF Waived
<1>5. Standing(new) /\ Stage(new) = from
    BY <1>1, <1>2, <1>3, WorkOrderFacts DEF Standing, Stage, Attention
<1>6. wo.status \notin Terminal
    BY <1>1 DEF Terminal
<1>10. new.request = NoValue
    BY <1>1, <1>3
<1>7. Store("resume_deferred", new, past)
      \/ Store("resume_deferred", Raise(new, {"BASELINE_DRIFT"}, {}), past)
    BY <1>0, <1>10 DEF ResumeDeferred, WriteUnlessDrift, WriteAnd, Write, Again
<1>8. CASE Store("resume_deferred", new, past)
  <2>1. Moves(wo, new) /\ KeepsIds("resume_deferred", new)
      BY <1>1, <1>2, <1>3 DEF Moves, KeepsIds
  <2> QED BY <1>1, <1>3, <1>4, <1>5, <1>6, <1>8, <2>1, WorkOrderFacts, StoredSameWork
<1>9. CASE Store("resume_deferred", Raise(new, {"BASELINE_DRIFT"}, {}), past)
  <2> PICK r : r = Raise(new, {"BASELINE_DRIFT"}, {})
      OBVIOUS
  <2>1. CanRaise(new) /\ {"BASELINE_DRIFT"} \in SUBSET Code /\ {} \in SUBSET Gap
      BY <1>1, <1>3 DEF CanRaise, Code
  <2>2. Sound(new)
    <3>1. MoreSettled(wo, new)
      <4>1. Len(wo.deviations) \in Nat
          BY WorkOrderFacts
      <4> QED BY <1>3, <1>4, <4>1 DEF MoreSettled
    <3>2. Fits(wo, Stage(new)) /\ Sound(wo)
        BY <1>1, <1>5, WorkOrderFacts
    <3> QED BY <1>3, <1>5, <3>1, <3>2, SameWorkIsSound
  <2>3. /\ Sound(r) /\ SameWork(new, r) /\ Waived(new) \subseteq Waived(r) /\ r.status = Attention
        /\ r.deviations = new.deviations /\ Stage(r) = Stage(new) /\ r.closed = new.closed
    <3>1. RaisedTo(new, r)
        BY <2>1, <2>2, MachineRaise
    <3> QED BY <3>1 DEF RaisedTo
  <2>4. SameWork(wo, r) /\ r.deviations = wo.deviations /\ Waived(wo) \subseteq Waived(r)
      BY <1>3, <1>4, <2>3 DEF SameWork, Untouched
  <2>5. r \in WorkOrderRecord /\ Standing(r) /\ Fits(wo, Stage(r))
      BY <1>1, <1>5, <2>3, WorkOrderFacts DEF Sound, Shaped
  <2>6. Moves(wo, r) /\ KeepsIds("resume_deferred", r)
      BY <1>1, <1>2, <1>3, <2>3 DEF Moves, KeepsIds, Raising
  <2> QED BY <1>6, <1>9, <2>4, <2>5, <2>6, WorkOrderFacts, StoredSameWork
<1> QED BY <1>7, <1>8, <1>9

\* One block of an order at work is put in the place of what it was.
PutSound(i, b) ==
    LET new == Put(i, b) IN
    /\ new \in WorkOrderRecord /\ Sound(new) /\ Follows(wo, new) /\ new.status = "EXECUTING"
    /\ new.request = NoValue /\ new.deviations = wo.deviations /\ DeviationIdsDiffer(new)
    /\ new.closed = wo.closed /\ Writers(wo) \subseteq Writers(new) /\ b.coders \cup b.curators \subseteq Writers(new)
    /\ b.coders = wo.blocks[i].coders /\ b.curators = wo.blocks[i].curators => FinalAuditHolds(new)
    /\ \A p : p \in PastRecord /\ p.quota = past.quota /\ p.writers \subseteq Writers(new)
                => Counted(new, p) /\ Remembered(new, p)

LEMMA PutIsSound ==
    ASSUME RecordInv, wo.status = "EXECUTING", NEW i \in DOMAIN wo.blocks, NEW b,
           Succeeds(b, wo.blocks[i], Waived(wo)), BlockIsCounted(b, wo.budget, past.quota)
    PROVE  PutSound(i, b)
<1>0. PICK new : new = Put(i, b)
    OBVIOUS
<1>1. wo \in WorkOrderRecord /\ wo.blocks \in Seq(BlockRecord) /\ b \in BlockRecord
    BY WorkOrderFacts DEF WorkOrderRecord, Succeeds
<1>2. PICK blocks : blocks = [wo.blocks EXCEPT ![i] = b]
    OBVIOUS
<1>3. /\ blocks \in Seq(BlockRecord) /\ DOMAIN blocks = DOMAIN wo.blocks
      /\ \A j \in DOMAIN wo.blocks : blocks[j] = IF j = i THEN b ELSE wo.blocks[j]
    BY <1>1, <1>2
<1>4. new = [wo EXCEPT !.blocks = blocks]
    BY <1>0, <1>1, <1>2 DEF Put, WorkOrderRecord
<1>5. /\ new \in WorkOrderRecord /\ new.deviations = wo.deviations /\ new.blocks = blocks
      /\ new.request = wo.request /\ new.waivedGaps = wo.waivedGaps /\ new.outcome = wo.outcome
      /\ new.closed = wo.closed /\ new.envelope = wo.envelope
      /\ new.deferredFrom = wo.deferredFrom /\ new.status = wo.status /\ new.baseline = wo.baseline
      /\ new.candidate = wo.candidate /\ new.plans = wo.plans /\ new.approved = wo.approved
      /\ new.superseded = wo.superseded /\ new.finalAudit = wo.finalAudit /\ new.budget = wo.budget
    BY <1>1, <1>3, <1>4 DEF WorkOrderRecord
<1>6. Waived(new) = Waived(wo) /\ SameOrder(new)
  <2>1. Len(wo.deviations) \in Nat
      BY WorkOrderFacts
  <2>2. Waived(new) = Waived(wo)
      BY <1>5 DEF Waived
  <2> QED BY <1>5, <2>1, <2>2 DEF SameOrder
<1>7. Standing(new) /\ Stage(new) = Stage(wo)
    BY <1>5, WorkOrderFacts DEF Standing, Stage
<1>8. \A j \in DOMAIN wo.blocks : Succeeds(blocks[j], wo.blocks[j], Waived(wo))
    BY <1>3, WorkOrderFacts DEF Succeeds
<1>9. \A j \in DOMAIN wo.blocks : BlockIsCounted(blocks[j], wo.budget, past.quota)
    BY <1>3 DEF RecordInv, Counted, BlocksOf
<1>10. /\ Sound(new) /\ Follows(wo, new) /\ Writers(wo) \subseteq Writers(new)
       /\ Writers(new) \subseteq Writers(wo) => FinalAuditHolds(new)
  <2>1. \A j \in DOMAIN wo.blocks : Succeeds(new.blocks[j], wo.blocks[j], Waived(new))
      BY <1>5, <1>6, <1>8
  <2>2. DOMAIN new.blocks = DOMAIN wo.blocks /\ Fits(wo, Stage(new))
      BY <1>3, <1>5, <1>7, WorkOrderFacts
  <2> QED BY <1>5, <1>6, <1>7, <2>1, <2>2, BlocksReplaced
<1>11. b \in BlocksOf(new) /\ b.coders \cup b.curators \subseteq Writers(new)
  <2>1. b \in BlocksOf(new)
      BY <1>3, <1>5 DEF BlocksOf
  <2> QED BY <2>1 DEF Writers
<1>12. b.coders = wo.blocks[i].coders /\ b.curators = wo.blocks[i].curators => FinalAuditHolds(new)
  <2> SUFFICES ASSUME b.coders = wo.blocks[i].coders, b.curators = wo.blocks[i].curators
               PROVE  Writers(new) = Writers(wo)
      BY <1>10
  <2>1. \A j \in DOMAIN wo.blocks : /\ new.blocks[j].coders = wo.blocks[j].coders
                                    /\ new.blocks[j].curators = wo.blocks[j].curators
      BY <1>3, <1>5
  <2> QED BY <1>3, <1>5, <2>1, NoNewWriters
<1>13. ASSUME NEW p, p \in PastRecord, p.quota = past.quota, p.writers \subseteq Writers(new)
       PROVE  Counted(new, p) /\ Remembered(new, p)
  <2>1. \A c \in BlocksOf(new) : BlockIsCounted(c, new.budget, p.quota)
      BY <1>3, <1>5, <1>9, <1>13 DEF BlocksOf
  <2>2. new.blocks = <<>> <=> wo.blocks = <<>>
      BY <1>1, <1>3, <1>5
  <2> QED BY <1>5, <1>13, <2>1, <2>2 DEF RecordInv, Counted, Remembered
<1>14. DeviationIdsDiffer(new) /\ new.request = NoValue
  <2>1. new.request = NoValue
      BY <1>5, WorkOrderFacts DEF Attention
  <2> QED BY <1>5, <2>1 DEF RecordInv, DeviationIdsDiffer
<1> QED BY <1>0, <1>5, <1>10, <1>11, <1>12, <1>13, <1>14 DEF PutSound

\* A step of a block in which nobody new writes.
LEMMA StoredPut ==
    ASSUME RecordInv, wo.status = "EXECUTING", NEW i \in DOMAIN wo.blocks, NEW b,
           Succeeds(b, wo.blocks[i], Waived(wo)), BlockIsCounted(b, wo.budget, past.quota),
           b.coders = wo.blocks[i].coders, b.curators = wo.blocks[i].curators,
           NEW op, Store(op, Put(i, b), past)
    PROVE  RecordInv' /\ OnlyKnownRefusals'
<1>1. PutSound(i, b)
    BY PutIsSound
<1>2. Moves(wo, Put(i, b)) /\ wo.status \notin Terminal /\ KeepsIds(op, Put(i, b))
    BY <1>1 DEF PutSound, Moves, Terminal, KeepsIds
<1>3. past \in PastRecord /\ past.writers \subseteq Writers(Put(i, b))
    BY <1>1 DEF PutSound, RecordInv, Remembered
<1> HIDE DEF Put
<1> QED BY <1>1, <1>2, <1>3, StoredPlainly DEF PutSound

\* A step of a block by a profile that may disqualify the final audit on record.
LEMMA StoredWrite ==
    ASSUME RecordInv, wo.status = "EXECUTING", NEW i \in DOMAIN wo.blocks, NEW b,
           Succeeds(b, wo.blocks[i], Waived(wo)), BlockIsCounted(b, wo.budget, past.quota),
           NEW p \in Profile, p \in b.coders \cup b.curators,
           NEW op \in {"begin_attempt", "begin_memory_curation"}, Store(op, Put(i, b), Wrote(p))
    PROVE  RecordInv' /\ OnlyKnownRefusals'
<1>1. PutSound(i, b)
    BY PutIsSound
<1>2. Moves(wo, Put(i, b)) /\ wo.status \notin Terminal /\ KeepsIds(op, Put(i, b))
    BY <1>1 DEF PutSound, Moves, Terminal, KeepsIds
<1>3. /\ Wrote(p) \in PastRecord /\ Wrote(p).quota = past.quota
      /\ Wrote(p).writers = past.writers \cup {p}
  <2>1. PICK after \in BOOLEAN : after = (wo.finalAudit # NoValue)
      OBVIOUS
  <2>2. PICK writers : writers = past.writers \cup {p}
      OBVIOUS
  <2>3. Wrote(p) = [past EXCEPT !.writers = writers, !.afterAudit = after]
      BY <2>1, <2>2 DEF Wrote
  <2>4. past \in PastRecord
      BY WorkOrderFacts
  <2>5. writers \in SUBSET Profile
      BY <2>2, <2>4 DEF PastRecord
  <2>6. /\ Wrote(p) \in PastRecord /\ Wrote(p).quota = past.quota /\ Wrote(p).writers = writers
    <3> HIDE DEF Wrote
    <3> QED BY <2>3, <2>4, <2>5 DEF PastRecord
  <2> QED BY <2>2, <2>6
<1>4. Wrote(p).writers \subseteq Writers(Put(i, b))
    BY <1>1, <1>3 DEF PutSound, RecordInv, Remembered
<1>5. Counted(Put(i, b), Wrote(p)) /\ Remembered(Put(i, b), Wrote(p))
    BY <1>1, <1>3, <1>4 DEF PutSound
<1> HIDE DEF Put, Wrote
<1>6. LET others == Broken(wo, Put(i, b)) \ {"attention"} IN
      others = {} \/ others = {"independence"}
  <2>1. Broken(wo, Put(i, b)) \subseteq {"independence", "attention"}
      BY <1>1, <1>2, BrokenIs DEF PutSound, Sound
  <2> QED BY <2>1
<1>7. <<op, {"independence"}>> \in KnownRefusal
    BY DEF KnownRefusal
<1> QED BY <1>1, <1>2, <1>5, <1>6, <1>7, Stored DEF PutSound, Sound

\* A step of a block that ends in attention.
LEMMA StoredExhausted ==
    ASSUME RecordInv, wo.status = "EXECUTING", NEW i \in DOMAIN wo.blocks, NEW b,
           Succeeds(b, wo.blocks[i], Waived(wo)), BlockIsCounted(b, wo.budget, past.quota),
           b.coders = wo.blocks[i].coders, b.curators = wo.blocks[i].curators,
           NEW op \in Raising, Store(op, Exhausted(Put(i, b)), past)
    PROVE  RecordInv' /\ OnlyKnownRefusals'
<1>0. PICK new : new = Put(i, b)
    OBVIOUS
<1>1. PutSound(i, b)
    BY PutIsSound
<1>2. /\ Sound(new) /\ Follows(wo, new) /\ new.status = "EXECUTING" /\ FinalAuditHolds(new)
      /\ new.deviations = wo.deviations /\ DeviationIdsDiffer(new) /\ new \in WorkOrderRecord
      /\ Counted(new, past) /\ Remembered(new, past) /\ new.closed = wo.closed
  <2>1. past \in PastRecord /\ past.writers \subseteq Writers(Put(i, b))
      BY <1>1 DEF PutSound, RecordInv, Remembered
  <2> QED BY <1>0, <1>1, <2>1 DEF PutSound
<1>3. PICK r : r = Raise(new, {"ATTEMPTS_EXHAUSTED"}, {})
    OBVIOUS
<1>4. CanRaise(new) /\ {"ATTEMPTS_EXHAUSTED"} \in SUBSET Code /\ {} \in SUBSET Gap
    BY <1>2 DEF CanRaise, AttentionSources, Code
<1>5. /\ Sound(r) /\ SameWork(new, r) /\ r.status = Attention /\ r.deviations = new.deviations
      /\ FinalAuditHolds(r) /\ r.closed = new.closed
  <2>1. RaisedTo(new, r)
      BY <1>2, <1>3, <1>4, MachineRaise
  <2> QED BY <1>2, <2>1 DEF RaisedTo
<1>6. Follows(wo, r)
  <2>1. Len(wo.deviations) \in Nat
      BY WorkOrderFacts
  <2>2. Len(new.deviations) \in Nat /\ Len(r.deviations) \in Nat /\ Len(r.deviations) >= Len(new.deviations)
      BY <1>2, <1>5, <2>1
  <2> QED BY <1>2, <1>5, <2>1, <2>2, SameWorkFollows
<1>7. Moves(wo, r) /\ wo.status \notin Terminal
    BY <1>5 DEF Moves, Terminal, Transition, AttentionSources, Attention
<1>10. KeepsIds(op, r)
    BY <1>2, <1>5 DEF KeepsIds
<1>8. Counted(r, past) /\ Remembered(r, past) /\ DeviationIdsDiffer(r)
    BY <1>2, <1>5, SameWorkIsCounted DEF Remembered, DeviationIdsDiffer
<1>9. Store(op, r, past)
    BY <1>0, <1>3 DEF Exhausted
<1> QED BY <1>5, <1>6, <1>7, <1>8, <1>9, <1>10, StoredPlainly

\* What is known of block i while the order is at work.
LEMMA BlockFacts ==
    ASSUME RecordInv, wo.status = "EXECUTING", NEW i \in DOMAIN wo.blocks
    PROVE  LET b == wo.blocks[i] IN
           /\ b \in BlockRecord /\ CodeApproved(b) /\ MemoryApproved(b) /\ BlockIsStaged(b)
           /\ BlockAuditsHold(b, wo.envelope, Waived(wo)) /\ BlockIsCounted(b, wo.budget, past.quota)
           /\ wo.budget \in Nat \ {0} /\ past.quota \in Nat /\ wo.budget <= past.quota
           /\ b.failed \in Nat /\ b.curations \in Nat /\ b.coded \in Nat /\ b.curated \in Nat
<1>1. wo.blocks[i] \in BlocksOf(wo) /\ wo.blocks \in Seq(BlockRecord) /\ wo.blocks # <<>>
    BY WorkOrderFacts DEF WorkOrderRecord
<1>2. wo.budget \in Nat \ {0} /\ past.quota \in Nat /\ wo.budget <= past.quota
    BY <1>1, BudgetIsPositive, RequestIsNoNone DEF RecordInv, Counted
<1>3. wo.blocks[i] \in BlockRecord /\ BlockIsFine(wo.blocks[i])
      /\ BlockAuditsHold(wo.blocks[i], wo.envelope, Waived(wo))
    BY <1>1, WorkOrderFacts
<1>4. BlockIsCounted(wo.blocks[i], wo.budget, past.quota)
    BY <1>1 DEF RecordInv, Counted
<1>5. LET b == wo.blocks[i] IN
      b.failed \in Nat /\ b.curations \in Nat /\ b.coded \in Nat /\ b.curated \in Nat
    BY <1>3 DEF BlockRecord
<1> QED BY <1>2, <1>3, <1>4, <1>5 DEF BlockIsFine

\* What a producer would open are gaps.
LEMMA ProducerGapsAreGaps ==
    ASSUME NEW role \in {"primary_code_executor", "memory_curator"}, NEW p
    PROVE  ProducerGaps(wo, role, p) \subseteq Gap
<1>1. \A a \in Auditor : FamilyGaps(a, Bound(wo, a), {p}, PlanRequires(wo)) \subseteq Gap
    BY GapsAreGaps
<1> HIDE DEF FamilyGaps
<1> QED BY <1>1 DEF ProducerGaps, Auditor

LEMMA BeginAttemptStep ==
    ASSUME RecordInv, NEW i \in DOMAIN wo.blocks, NEW p \in Profile, BeginAttempt(i, p)
    PROVE  RecordInv' /\ OnlyKnownRefusals'
<1>0. PICK old : old = wo.blocks[i]
    OBVIOUS
<1>1. wo.status = "EXECUTING" /\ old.status = "PENDING"
    BY <1>0 DEF BeginAttempt, In
<1>2. /\ old \in BlockRecord /\ BlockIsStaged(old)
      /\ BlockAuditsHold(old, wo.envelope, Waived(wo)) /\ BlockIsCounted(old, wo.budget, past.quota)
      /\ wo.budget \in Nat \ {0} /\ past.quota \in Nat
      /\ old.failed \in Nat /\ old.coded \in Nat
    BY <1>0, <1>1, BlockFacts
<1>3. CASE ~AttemptsLeft(old.failed)
  <2>1. Store("begin_attempt", Raise(wo, {"ATTEMPTS_EXHAUSTED"}, {}), past)
      BY <1>0, <1>3 DEF BeginAttempt, Write, Exhausted
  <2>2. CanRaise(wo) /\ {"ATTEMPTS_EXHAUSTED"} \in SUBSET Code /\ {} \in SUBSET Gap
      BY <1>1 DEF CanRaise, AttentionSources, Code
  <2> QED BY <2>1, <2>2, MachineRaise, StoredRaise, WorkOrderFacts DEF Raising
<1>4. CASE AttemptsLeft(old.failed)
  <2>0. PICK coded : coded = old.coded + 1
      OBVIOUS
  <2>1. PICK coders : coders = old.coders \cup {p}
      OBVIOUS
  <2>2. PICK b : b = [old EXCEPT !.status = "RUNNING", !.coded = coded, !.coders = coders,
                                 !.tests = "none", !.codeAudit = NoValue]
      OBVIOUS
  <2>3. WriteUnlessGaps("begin_attempt", ProducerGaps(wo, "primary_code_executor", p),
                        Put(i, b), Wrote(p))
      BY <1>0, <1>4, <2>0, <2>1, <2>2 DEF BeginAttempt
  <2>4. b \in BlockRecord
    <3>1. PICK b1 : b1 = [old EXCEPT !.status = "RUNNING", !.coded = coded, !.coders = coders]
        OBVIOUS
    <3>2. coded \in Nat /\ coders \in SUBSET Profile
        BY <1>2, <2>0, <2>1 DEF BlockRecord
    <3>3. b1 \in BlockRecord
        BY <1>2, <3>1, <3>2 DEF BlockRecord, BlockStatus
    <3>4. b = [b1 EXCEPT !.tests = "none", !.codeAudit = NoValue]
        BY <2>2, <3>1
    <3> QED BY <3>3, <3>4 DEF BlockRecord
  <2>5. /\ b.spec = old.spec /\ b.status = "RUNNING" /\ b.coded = coded /\ b.coders = coders
        /\ b.codeAudit = NoValue /\ b.curators = old.curators /\ b.curated = old.curated
        /\ b.memoryAudit = old.memoryAudit /\ b.memoryChange = old.memoryChange
        /\ b.failed = old.failed /\ b.curations = old.curations
      BY <1>2, <2>2 DEF BlockRecord
  <2>6. BlockIsFine(b) /\ BlockAuditsHold(b, wo.envelope, Waived(wo))
      BY <1>1, <1>2, <2>5 DEF BlockIsFine, BlockIsStaged, CodeApproved, MemoryApproved,
                              BlockAuditsHold, Unaudited
  <2>7. Succeeds(b, wo.blocks[i], Waived(wo))
      BY <1>0, <1>1, <2>1, <2>4, <2>5, <2>6 DEF Succeeds
  <2>8. BlockIsCounted(b, wo.budget, past.quota)
    <3>1. old.coded + wo.budget <= past.quota + old.failed /\ old.failed < wo.budget
        BY <1>1, <1>2, <1>4 DEF BlockIsCounted, AttemptsLeft
    <3>2. coded + wo.budget <= past.quota + old.failed + 1
        BY <1>2, <2>0, <3>1
    <3> QED BY <2>5, <3>1, <3>2 DEF BlockIsCounted, Unaudited
  <2>9. ProducerGaps(wo, "primary_code_executor", p) \subseteq Gap
      BY ProducerGapsAreGaps
  <2>10. ASSUME Store("begin_attempt", Put(i, b), Wrote(p))
         PROVE  RecordInv' /\ OnlyKnownRefusals'
    <3>1. p \in b.coders \cup b.curators
        BY <2>1, <2>5
    <3> QED BY <1>1, <2>7, <2>8, <2>10, <3>1, StoredWrite
  <2> HIDE DEF WriteUnlessGaps
  <2> QED BY <1>1, <2>3, <2>9, <2>10, IndependenceStep DEF AttentionSources, Raising
<1> QED BY <1>3, <1>4

LEMMA RunSteps ==
    ASSUME RecordInv, NEW i \in DOMAIN wo.blocks,
           FinishRun(i) \/ \E result \in {"failed", "passed"} : RecordTests(i, result)
    PROVE  RecordInv' /\ OnlyKnownRefusals'
<1>0. PICK old : old = wo.blocks[i]
    OBVIOUS
<1>1. wo.status = "EXECUTING"
    BY DEF FinishRun, RecordTests, In
<1>2. /\ old \in BlockRecord /\ BlockIsStaged(old)
      /\ BlockAuditsHold(old, wo.envelope, Waived(wo)) /\ BlockIsCounted(old, wo.budget, past.quota)
    BY <1>0, <1>1, BlockFacts
<1>3. CASE FinishRun(i)
  <2>1. old.status = "RUNNING"
      BY <1>0, <1>3 DEF FinishRun, In
  <2>2. PICK b : b = [old EXCEPT !.status = "TESTING"]
      OBVIOUS
  <2>3. /\ b \in BlockRecord /\ b.spec = old.spec /\ b.status = "TESTING" /\ b.coded = old.coded
        /\ b.coders = old.coders /\ b.curators = old.curators /\ b.curated = old.curated
        /\ b.codeAudit = old.codeAudit /\ b.risk = old.risk
        /\ b.memoryAudit = old.memoryAudit /\ b.memoryChange = old.memoryChange
        /\ b.failed = old.failed /\ b.curations = old.curations
      BY <1>2, <2>2 DEF BlockRecord, BlockStatus
  <2>4. BlockIsFine(b) /\ BlockAuditsHold(b, wo.envelope, Waived(wo)) /\ BlockIsCounted(b, wo.budget, past.quota)
      BY <1>2, <2>1, <2>3 DEF BlockIsFine, BlockIsStaged, CodeApproved, MemoryApproved,
                              BlockAuditsHold, Unaudited, BlockIsCounted
  <2>5. Succeeds(b, wo.blocks[i], Waived(wo))
      BY <1>0, <2>1, <2>3, <2>4 DEF Succeeds
  <2>6. Store("finish_run", Put(i, b), past)
      BY <1>0, <1>3, <2>2 DEF FinishRun, Write
  <2> QED BY <1>0, <1>1, <2>3, <2>4, <2>5, <2>6, StoredPut
<1>4. ASSUME NEW result \in {"failed", "passed"}, RecordTests(i, result)
      PROVE  RecordInv' /\ OnlyKnownRefusals'
  <2>1. old.status = "TESTING"
      BY <1>0, <1>4 DEF RecordTests, In
  <2>2. PICK b : b = [old EXCEPT !.status = "BLOCK_RESULT", !.tests = result]
      OBVIOUS
  <2>3. /\ b \in BlockRecord /\ b.spec = old.spec /\ b.status = "BLOCK_RESULT" /\ b.coded = old.coded
        /\ b.coders = old.coders /\ b.curators = old.curators /\ b.curated = old.curated
        /\ b.codeAudit = old.codeAudit /\ b.risk = old.risk
        /\ b.memoryAudit = old.memoryAudit /\ b.memoryChange = old.memoryChange
        /\ b.failed = old.failed /\ b.curations = old.curations
      BY <1>2, <2>2 DEF BlockRecord, BlockStatus
  <2>4. BlockIsFine(b) /\ BlockAuditsHold(b, wo.envelope, Waived(wo)) /\ BlockIsCounted(b, wo.budget, past.quota)
      BY <1>2, <2>1, <2>3 DEF BlockIsFine, BlockIsStaged, CodeApproved, MemoryApproved,
                              BlockAuditsHold, Unaudited, BlockIsCounted
  <2>5. Succeeds(b, wo.blocks[i], Waived(wo))
      BY <1>0, <2>1, <2>3, <2>4 DEF Succeeds
  <2>6. Store("record_tests", Put(i, b), past)
      BY <1>0, <1>4, <2>2 DEF RecordTests, Write
  <2> QED BY <1>0, <1>1, <2>3, <2>4, <2>5, <2>6, StoredPut
<1> QED BY <1>3, <1>4

LEMMA FailAttemptStep ==
    ASSUME RecordInv, NEW i \in DOMAIN wo.blocks, FailAttempt(i)
    PROVE  RecordInv' /\ OnlyKnownRefusals'
<1>0. PICK old : old = wo.blocks[i]
    OBVIOUS
<1>1. wo.status = "EXECUTING" /\ old.status \in {"RUNNING", "TESTING", "BLOCK_RESULT"}
    BY <1>0 DEF FailAttempt, In
<1>2. /\ old \in BlockRecord /\ BlockIsStaged(old)
      /\ BlockAuditsHold(old, wo.envelope, Waived(wo)) /\ BlockIsCounted(old, wo.budget, past.quota)
      /\ wo.budget \in Nat \ {0} /\ past.quota \in Nat /\ old.failed \in Nat /\ old.coded \in Nat
    BY <1>0, <1>1, BlockFacts
<1>3. PICK failed : failed = old.failed + 1
    OBVIOUS
<1>4. PICK b : b = [old EXCEPT !.status = "PENDING", !.failed = failed, !.tests = "none",
                               !.codeAudit = NoValue]
    OBVIOUS
<1>5. Store("fail_attempt", Put(i, b), past) \/ Store("fail_attempt", Exhausted(Put(i, b)), past)
    BY <1>0, <1>3, <1>4 DEF FailAttempt, Write
<1>6. b \in BlockRecord
  <2>1. PICK b1 : b1 = [old EXCEPT !.status = "PENDING", !.failed = failed]
      OBVIOUS
  <2>2. b1 \in BlockRecord
    <3>1. failed \in Nat
        BY <1>2, <1>3
    <3>2. old \in BlockRecord
        BY <1>2
    <3> QED BY <2>1, <3>1, <3>2 DEF BlockRecord, BlockStatus
  <2>3. b = [b1 EXCEPT !.tests = "none", !.codeAudit = NoValue]
      BY <1>4, <2>1
  <2> QED BY <2>2, <2>3 DEF BlockRecord
<1>7. /\ b.spec = old.spec /\ b.status = "PENDING" /\ b.coded = old.coded
      /\ b.coders = old.coders /\ b.curators = old.curators /\ b.curated = old.curated
      /\ b.codeAudit = NoValue /\ b.memoryAudit = old.memoryAudit
      /\ b.memoryChange = old.memoryChange
      /\ b.failed = failed /\ b.curations = old.curations
    BY <1>2, <1>4 DEF BlockRecord
<1>8. BlockIsFine(b) /\ BlockAuditsHold(b, wo.envelope, Waived(wo))
    BY <1>1, <1>2, <1>7 DEF BlockIsFine, BlockIsStaged, CodeApproved, MemoryApproved,
                            BlockAuditsHold, Unaudited
<1>9. BlockIsCounted(b, wo.budget, past.quota)
  <2>1. old.coded + wo.budget <= past.quota + old.failed + 1 /\ old.failed < wo.budget
      BY <1>1, <1>2 DEF BlockIsCounted
  <2>2. old.coded + wo.budget <= past.quota + failed /\ failed <= wo.budget
      BY <1>2, <1>3, <2>1
  <2> QED BY <1>7, <2>2 DEF BlockIsCounted, Unaudited
<1>10. Succeeds(b, wo.blocks[i], Waived(wo))
    BY <1>0, <1>1, <1>6, <1>7, <1>8 DEF Succeeds
<1> QED BY <1>0, <1>1, <1>5, <1>7, <1>9, <1>10, StoredPut, StoredExhausted DEF Raising

LEMMA ApproveCodeStep ==
    ASSUME RecordInv, NEW i \in DOMAIN wo.blocks, NEW fresh \in Sessions, ApproveCode(i, fresh)
    PROVE  RecordInv' /\ OnlyKnownRefusals'
<1>0. PICK old : old = wo.blocks[i]
    OBVIOUS
<1>1. wo.status = "EXECUTING" /\ old.status = "BLOCK_RESULT" /\ old.tests = "passed"
    BY <1>0 DEF ApproveCode, In
<1>2. /\ old \in BlockRecord /\ BlockIsStaged(old)
      /\ BlockAuditsHold(old, wo.envelope, Waived(wo)) /\ BlockIsCounted(old, wo.budget, past.quota)
    BY <1>0, <1>1, BlockFacts
<1>3. PICK risk : risk = ApprovedPlan(wo).risk
    OBVIOUS
<1>4. PICK audit : audit = [by |-> Bound(wo, "code_auditor"), fresh |-> fresh]
    OBVIOUS
<1>5. PICK b : b = [old EXCEPT !.status = "CODE_APPROVED", !.codeAudit = audit, !.risk = risk]
    OBVIOUS
<1>6. PICK gaps : gaps = AuditGaps("code_auditor", audit, old.coders, Required(wo.envelope, risk))
                     \ Waived(wo)
    OBVIOUS
<1>7. WriteUnlessGaps("approve_code", gaps, Put(i, b), past)
    BY <1>0, <1>3, <1>4, <1>5, <1>6 DEF ApproveCode, PlanRequires
<1>8. risk \in Risk
  <2>1. wo.approved \in 1..Len(wo.plans) /\ wo.plans \in Seq(Plan)
    <3>1. wo.blocks # <<>> /\ wo.approved \in Nat
        BY WorkOrderFacts DEF WorkOrderRecord
    <3> QED BY <3>1, WorkOrderFacts DEF Founded
  <2>2. ApprovedPlan(wo) \in Plan
      BY <2>1 DEF ApprovedPlan
  <2> QED BY <1>3, <2>2, PlanAssumption
<1>9. audit \in Audit
  <2>1. Bound(wo, "code_auditor") \in Profile /\ fresh \in BOOLEAN
      BY BoundIsProfile, WorkOrderFacts, BoundAssumption DEF Role, Auditor
  <2> QED BY <1>4, <2>1 DEF Audit
<1>10. /\ b \in BlockRecord /\ b.spec = old.spec /\ b.status = "CODE_APPROVED"
       /\ b.coded = old.coded /\ b.tests = old.tests
       /\ b.coders = old.coders /\ b.curators = old.curators /\ b.curated = old.curated
       /\ b.codeAudit = audit /\ b.risk = risk
       /\ b.memoryAudit = old.memoryAudit /\ b.memoryChange = old.memoryChange
       /\ b.failed = old.failed /\ b.curations = old.curations
  <2>1. b \in BlockRecord
      BY <1>2, <1>5, <1>8, <1>9 DEF BlockRecord, BlockStatus
  <2> QED BY <1>2, <1>5, <2>1 DEF BlockRecord
<1>11. audit # NoValue /\ risk # NoValue
    BY <1>9, <1>8, RequestIsNoNone
<1>12. ASSUME gaps = {}, Store("approve_code", Put(i, b), past)
       PROVE  RecordInv' /\ OnlyKnownRefusals'
  <2>1. BlockIsFine(b) /\ BlockIsCounted(b, wo.budget, past.quota)
      BY <1>1, <1>2, <1>10, <1>11 DEF BlockIsFine, BlockIsStaged, CodeApproved, MemoryApproved,
                                      Unaudited, BlockIsCounted
  <2>2. BlockAuditsHold(b, wo.envelope, Waived(wo))
    <3>1. AuditGaps("code_auditor", audit, b.coders, Required(wo.envelope, risk)) \subseteq Waived(wo)
        BY <1>6, <1>10, <1>12
    <3>2. b.memoryAudit = NoValue
        BY <1>1, <1>2, <1>10 DEF BlockIsStaged, Unaudited
    <3> QED BY <1>10, <3>1, <3>2 DEF BlockAuditsHold
  <2>3. Succeeds(b, wo.blocks[i], Waived(wo))
      BY <1>0, <1>1, <1>10, <2>1, <2>2 DEF Succeeds
  <2> QED BY <1>0, <1>1, <1>10, <1>12, <2>1, <2>3, StoredPut
<1>13. gaps \subseteq Gap
    BY <1>6, GapsAreGaps DEF Auditor
<1> HIDE DEF WriteUnlessGaps
<1> QED BY <1>1, <1>7, <1>12, <1>13, IndependenceStep DEF AttentionSources, Raising

LEMMA BeginMemoryCurationStep ==
    ASSUME RecordInv, NEW i \in DOMAIN wo.blocks, NEW p \in Profile, BeginMemoryCuration(i, p)
    PROVE  RecordInv' /\ OnlyKnownRefusals'
<1>0. PICK old : old = wo.blocks[i]
    OBVIOUS
<1>1. wo.status = "EXECUTING" /\ old.status \in {"CODE_APPROVED", "MEMORY_AUDIT"} /\ old.spec.memory
    BY <1>0 DEF BeginMemoryCuration, In
<1>2. /\ old \in BlockRecord /\ BlockIsStaged(old) /\ CodeApproved(old)
      /\ BlockAuditsHold(old, wo.envelope, Waived(wo)) /\ BlockIsCounted(old, wo.budget, past.quota)
      /\ wo.budget \in Nat \ {0} /\ past.quota \in Nat /\ wo.budget <= past.quota
      /\ old.failed \in Nat /\ old.coded \in Nat /\ old.curations \in Nat /\ old.curated \in Nat
    BY <1>0, <1>1, BlockFacts
<1>3. CASE ~AttemptsLeft(old.curations)
  <2>1. Store("begin_memory_curation", Raise(wo, {"ATTEMPTS_EXHAUSTED"}, {}), past)
      BY <1>0, <1>3 DEF BeginMemoryCuration, Write, Exhausted
  <2>2. CanRaise(wo) /\ {"ATTEMPTS_EXHAUSTED"} \in SUBSET Code /\ {} \in SUBSET Gap
      BY <1>1 DEF CanRaise, AttentionSources, Code
  <2> QED BY <2>1, <2>2, MachineRaise, StoredRaise, WorkOrderFacts DEF Raising
<1>4. CASE AttemptsLeft(old.curations)
  <2>0. PICK curated : curated = old.curated + 1
      OBVIOUS
  <2>1. PICK curators : curators = old.curators \cup {p}
      OBVIOUS
  <2>2. PICK curations : curations = IF old.status = "MEMORY_AUDIT" THEN old.curations + 1
                                     ELSE old.curations
      OBVIOUS
  <2>3. PICK b : b = [old EXCEPT !.status = "MEMORY_CURATION", !.curated = curated,
                                 !.curators = curators, !.memoryAudit = NoValue,
                                 !.memoryChange = "none", !.curations = curations]
      OBVIOUS
  <2>4. WriteUnlessGaps("begin_memory_curation", ProducerGaps(wo, "memory_curator", p),
                        Put(i, b), Wrote(p))
    <3>1. [old EXCEPT !.status = "MEMORY_CURATION", !.curated = @ + 1,
                      !.curators = @ \cup {p}, !.memoryAudit = NoValue,
                      !.memoryChange = "none",
                      !.curations = IF old.status = "MEMORY_AUDIT" THEN @ + 1 ELSE @] = b
        BY <1>2, <2>0, <2>1, <2>2, <2>3 DEF BlockRecord
    <3> HIDE DEF WriteUnlessGaps, Put
    <3> QED BY <1>0, <1>4, <3>1 DEF BeginMemoryCuration
  <2>5. curated \in Nat /\ curations \in Nat /\ curators \in SUBSET Profile
      BY <1>2, <2>0, <2>1, <2>2 DEF BlockRecord
  <2>6. b \in BlockRecord
    <3>1. PICK b1 : b1 = [old EXCEPT !.status = "MEMORY_CURATION", !.curated = curated,
                                     !.curators = curators]
        OBVIOUS
    <3>2. b1 \in BlockRecord
      <4>1. old \in BlockRecord
          BY <1>2
      <4> QED BY <2>5, <3>1, <4>1 DEF BlockRecord, BlockStatus
    <3>3. b = [b1 EXCEPT !.memoryAudit = NoValue, !.memoryChange = "none", !.curations = curations]
        BY <2>3, <3>1
    <3> QED BY <2>5, <3>2, <3>3 DEF BlockRecord
  <2>7. /\ b.spec = old.spec /\ b.status = "MEMORY_CURATION" /\ b.coded = old.coded
        /\ b.coders = old.coders /\ b.curators = curators /\ b.curated = curated
        /\ b.codeAudit = old.codeAudit /\ b.risk = old.risk /\ b.tests = old.tests
        /\ b.memoryAudit = NoValue /\ b.memoryChange = "none"
        /\ b.failed = old.failed /\ b.curations = curations
      BY <1>2, <2>3 DEF BlockRecord
  <2>8. BlockIsFine(b) /\ BlockAuditsHold(b, wo.envelope, Waived(wo))
      BY <1>1, <1>2, <2>7 DEF BlockIsFine, BlockIsStaged, CodeApproved, MemoryApproved,
                              BlockAuditsHold, Unaudited
  <2>9. Succeeds(b, wo.blocks[i], Waived(wo))
      BY <1>0, <1>1, <2>1, <2>6, <2>7, <2>8 DEF Succeeds
  <2>10. BlockIsCounted(b, wo.budget, past.quota)
    <3>1. /\ old.coded + wo.budget <= past.quota + old.failed + 1 /\ old.failed < wo.budget
          /\ old.curations < wo.budget
        BY <1>1, <1>4 , <1>2 DEF BlockIsCounted, AttemptsLeft
    <3>2. CASE old.status = "MEMORY_AUDIT"
      <4>1. old.curated + wo.budget <= past.quota + old.curations + 1 /\ curations = old.curations + 1
          BY <1>2, <2>2, <3>2 DEF BlockIsCounted, Unaudited
      <4>2. curated + wo.budget <= past.quota + curations + 1 /\ curations <= wo.budget
          BY <1>2, <2>0, <3>1, <4>1
      <4> QED BY <2>7, <3>1, <4>2 DEF BlockIsCounted
    <3>3. CASE old.status = "CODE_APPROVED"
      <4>1. old.curated = 0 /\ old.curations = 0 /\ curations = 0
          BY <1>2, <2>2, <3>3 DEF BlockIsStaged, Unaudited
      <4>2. curated + wo.budget <= past.quota + curations + 1 /\ curations <= wo.budget
          BY <1>2, <2>0, <4>1
      <4> QED BY <2>7, <3>1, <4>2 DEF BlockIsCounted
    <3> QED BY <1>1, <3>2, <3>3
  <2>11. ASSUME Store("begin_memory_curation", Put(i, b), Wrote(p))
         PROVE  RecordInv' /\ OnlyKnownRefusals'
    <3>1. p \in b.coders \cup b.curators
        BY <2>1, <2>7
    <3> QED BY <1>1, <2>9, <2>10, <2>11, <3>1, StoredWrite
  <2> HIDE DEF WriteUnlessGaps
  <2> QED BY <1>1, <2>4, <2>11, ProducerGapsAreGaps, IndependenceStep DEF AttentionSources, Raising
<1> QED BY <1>3, <1>4

LEMMA FinishMemoryCurationStep ==
    ASSUME RecordInv, NEW i \in DOMAIN wo.blocks, NEW change \in {"inside", "approved", "outside"},
           FinishMemoryCuration(i, change)
    PROVE  RecordInv' /\ OnlyKnownRefusals'
<1>0. PICK old : old = wo.blocks[i]
    OBVIOUS
<1>1. wo.status = "EXECUTING" /\ old.status = "MEMORY_CURATION"
    BY <1>0 DEF FinishMemoryCuration, In
<1>2. /\ old \in BlockRecord /\ BlockIsStaged(old) /\ CodeApproved(old)
      /\ BlockAuditsHold(old, wo.envelope, Waived(wo)) /\ BlockIsCounted(old, wo.budget, past.quota)
    BY <1>0, <1>1, BlockFacts
<1>3. PICK b : b = [old EXCEPT !.status = "MEMORY_AUDIT", !.memoryChange = change]
    OBVIOUS
<1>4. /\ b \in BlockRecord /\ b.spec = old.spec /\ b.status = "MEMORY_AUDIT" /\ b.coded = old.coded
      /\ b.coders = old.coders /\ b.curators = old.curators /\ b.curated = old.curated
      /\ b.codeAudit = old.codeAudit /\ b.risk = old.risk /\ b.tests = old.tests
      /\ b.memoryAudit = old.memoryAudit /\ b.memoryChange = change
      /\ b.failed = old.failed /\ b.curations = old.curations
    BY <1>2, <1>3 DEF BlockRecord, BlockStatus
<1>5. BlockIsFine(b) /\ BlockAuditsHold(b, wo.envelope, Waived(wo)) /\ BlockIsCounted(b, wo.budget, past.quota)
    BY <1>1, <1>2, <1>4 DEF BlockIsFine, BlockIsStaged, CodeApproved, MemoryApproved,
                            BlockAuditsHold, Unaudited, BlockIsCounted
<1>6. Succeeds(b, wo.blocks[i], Waived(wo))
    BY <1>0, <1>1, <1>4, <1>5 DEF Succeeds
<1>7. CASE change # "outside"
  <2>1. Store("finish_memory_curation", Put(i, b), past)
      BY <1>0, <1>3, <1>7 DEF FinishMemoryCuration, Write
  <2> QED BY <1>0, <1>1, <1>4, <1>5, <1>6, <2>1, StoredPut
<1>8. CASE change = "outside"
  <2>0. PICK new : new = Put(i, b)
      OBVIOUS
  <2>1. PICK d : d = Deviating(new, Len(wo.deviations) + 1, old.spec.id, TRUE)
      OBVIOUS
  <2>2. Store("finish_memory_curation", d, past)
      BY <1>0, <1>3, <1>8, <2>0, <2>1 DEF FinishMemoryCuration, Write
  <2>3. PutSound(i, b)
      BY <1>1, <1>5, <1>6, PutIsSound
  <2>4. /\ Sound(new) /\ Follows(wo, new) /\ new.status = "EXECUTING" /\ FinalAuditHolds(new)
        /\ new.deviations = wo.deviations /\ Counted(new, past) /\ Remembered(new, past)
        /\ new.closed = wo.closed
    <3>1. past \in PastRecord /\ past.writers \subseteq Writers(Put(i, b))
        BY <2>3 DEF PutSound, RecordInv, Remembered
    <3> QED BY <1>0, <1>4, <2>0, <2>3, <3>1 DEF PutSound
  <2>5. /\ old.spec.id \in BlockIds \cup {NoValue} /\ Len(wo.deviations) + 1 \in Nat
        /\ CanRaise(new) /\ Len(wo.deviations) \in Nat
    <3>1. old.spec \in BlockSpec
        BY <1>2 DEF BlockRecord
    <3>2. old.spec.id \in BlockIds
        BY <3>1 DEF BlockIds
    <3>3. CanRaise(new)
        BY <2>4 DEF CanRaise, AttentionSources
    <3>4. Len(wo.deviations) \in Nat
        BY WorkOrderFacts
    <3> QED BY <3>2, <3>3, <3>4
  <2>6. /\ Sound(d) /\ SameWork(new, d) /\ FinalAuditHolds(d)
        /\ d.status = new.status \/ (d.status = Attention /\ new.status \in AttentionSources)
        /\ Len(d.deviations) >= Len(new.deviations) /\ Len(new.deviations) \in Nat
        /\ d.closed = new.closed
    <3> HIDE DEF Deviating
    <3>1. DeviatesTo(new, d)
        BY <2>1, <2>4, <2>5, DeviatingIsSound
    <3> QED BY <2>4, <3>1 DEF DeviatesTo
  <2>7. Follows(wo, d)
    <3>1. d.deviations \in Seq(DeviationRecord)
        BY <2>6 DEF Sound, Shaped, WorkOrderRecord
    <3>2. Len(d.deviations) \in Nat
        BY <3>1
    <3> QED BY <2>4, <2>5, <2>6, <3>2, SameWorkFollows
  <2>8. Moves(wo, d) /\ wo.status \notin Terminal
      BY <1>1, <2>4, <2>6 DEF Moves, Terminal, Transition, AttentionSources, Attention
  <2>9. Counted(d, past) /\ Remembered(d, past)
      BY <2>4, <2>6, SameWorkIsCounted DEF Remembered
  <2> QED BY <2>2, <2>4, <2>6, <2>7, <2>8, <2>9, StoredDeviation
<1> QED BY <1>7, <1>8

LEMMA ApproveMemoryStep ==
    ASSUME RecordInv, NEW i \in DOMAIN wo.blocks, NEW fresh \in Sessions, ApproveMemory(i, fresh)
    PROVE  RecordInv' /\ OnlyKnownRefusals'
<1>0. PICK old : old = wo.blocks[i]
    OBVIOUS
<1>1. wo.status = "EXECUTING" /\ old.status = "MEMORY_AUDIT" /\ old.memoryChange # "outside"
    BY <1>0 DEF ApproveMemory, In
<1>2. /\ old \in BlockRecord /\ BlockIsStaged(old) /\ CodeApproved(old)
      /\ BlockAuditsHold(old, wo.envelope, Waived(wo)) /\ BlockIsCounted(old, wo.budget, past.quota)
    BY <1>0, <1>1, BlockFacts
<1>3. PICK audit : audit = [by |-> Bound(wo, "memory_auditor"), fresh |-> fresh]
    OBVIOUS
<1>4. PICK b : b = [old EXCEPT !.status = "BLOCK_CHECKPOINT", !.memoryAudit = audit]
    OBVIOUS
<1>5. PICK gaps : gaps = AuditGaps("memory_auditor", audit, old.curators, Required(wo.envelope, old.risk))
                     \ Waived(wo)
    OBVIOUS
<1>6. WriteUnlessGaps("approve_memory", gaps, Put(i, b), past)
    BY <1>0, <1>3, <1>4, <1>5 DEF ApproveMemory
<1>7. audit \in Audit
  <2>1. Bound(wo, "memory_auditor") \in Profile /\ fresh \in BOOLEAN
      BY BoundIsProfile, WorkOrderFacts, BoundAssumption DEF Role, Auditor
  <2> QED BY <1>3, <2>1 DEF Audit
<1>8. /\ b \in BlockRecord /\ b.spec = old.spec /\ b.status = "BLOCK_CHECKPOINT"
      /\ b.coded = old.coded /\ b.tests = old.tests
      /\ b.coders = old.coders /\ b.curators = old.curators /\ b.curated = old.curated
      /\ b.codeAudit = old.codeAudit /\ b.risk = old.risk
      /\ b.memoryAudit = audit /\ b.memoryChange = old.memoryChange
      /\ b.failed = old.failed /\ b.curations = old.curations
  <2>1. b \in BlockRecord
      BY <1>2, <1>4, <1>7 DEF BlockRecord, BlockStatus
  <2> QED BY <1>2, <1>4, <2>1 DEF BlockRecord
<1>9. audit # NoValue
    BY <1>7, RequestIsNoNone
<1>10. ASSUME gaps = {}, Store("approve_memory", Put(i, b), past)
       PROVE  RecordInv' /\ OnlyKnownRefusals'
  <2>1. old.memoryChange \in {"inside", "approved"} /\ old.spec.memory
      BY <1>1, <1>2 DEF BlockRecord, BlockIsStaged
  <2>2. BlockIsFine(b) /\ BlockIsCounted(b, wo.budget, past.quota)
      BY <1>1, <1>2, <1>8, <1>9, <2>1 DEF BlockIsFine, BlockIsStaged, CodeApproved, MemoryApproved,
                                          Unaudited, BlockIsCounted
  <2>3. BlockAuditsHold(b, wo.envelope, Waived(wo))
    <3>1. AuditGaps("memory_auditor", audit, b.curators, Required(wo.envelope, b.risk)) \subseteq Waived(wo)
        BY <1>5, <1>8, <1>10
    <3> QED BY <1>2, <1>8, <3>1 DEF BlockAuditsHold
  <2>4. Succeeds(b, wo.blocks[i], Waived(wo))
      BY <1>0, <1>1, <1>8, <2>2, <2>3 DEF Succeeds
  <2> QED BY <1>0, <1>1, <1>8, <1>10, <2>2, <2>4, StoredPut
<1>11. gaps \subseteq Gap
    BY <1>5, GapsAreGaps DEF Auditor
<1> HIDE DEF WriteUnlessGaps
<1> QED BY <1>1, <1>6, <1>10, <1>11, IndependenceStep DEF AttentionSources, Raising

LEMMA CheckpointSteps ==
    ASSUME RecordInv, NEW i \in DOMAIN wo.blocks,
           EnterBlockCheckpoint(i) \/ \E proves \in BOOLEAN : ProveBlockCheckpoint(i, proves)
    PROVE  RecordInv' /\ OnlyKnownRefusals'
<1>0. PICK old : old = wo.blocks[i]
    OBVIOUS
<1>1. wo.status = "EXECUTING"
    BY DEF EnterBlockCheckpoint, ProveBlockCheckpoint, In
<1>2. /\ old \in BlockRecord /\ BlockIsStaged(old) /\ CodeApproved(old) /\ MemoryApproved(old)
      /\ BlockAuditsHold(old, wo.envelope, Waived(wo)) /\ BlockIsCounted(old, wo.budget, past.quota)
      /\ wo.budget \in Nat \ {0} /\ past.quota \in Nat /\ wo.budget <= past.quota
      /\ old.failed \in Nat /\ old.coded \in Nat /\ old.curations \in Nat /\ old.curated \in Nat
    BY <1>0, <1>1, BlockFacts
<1>3. CASE EnterBlockCheckpoint(i)
  <2>1. old.status = "CODE_APPROVED" /\ ~old.spec.memory
      BY <1>0, <1>3 DEF EnterBlockCheckpoint, In
  <2>2. PICK b : b = [old EXCEPT !.status = "BLOCK_CHECKPOINT"]
      OBVIOUS
  <2>3. /\ b \in BlockRecord /\ b.spec = old.spec /\ b.status = "BLOCK_CHECKPOINT"
        /\ b.coded = old.coded /\ b.tests = old.tests
        /\ b.coders = old.coders /\ b.curators = old.curators /\ b.curated = old.curated
        /\ b.codeAudit = old.codeAudit /\ b.risk = old.risk
        /\ b.memoryAudit = old.memoryAudit /\ b.memoryChange = old.memoryChange
        /\ b.failed = old.failed /\ b.curations = old.curations
      BY <1>2, <2>2 DEF BlockRecord, BlockStatus
  <2>4. BlockIsFine(b) /\ BlockAuditsHold(b, wo.envelope, Waived(wo))
      BY <1>2, <2>1, <2>3 DEF BlockIsFine, BlockIsStaged, CodeApproved, MemoryApproved,
                              BlockAuditsHold, Unaudited
  <2>5. BlockIsCounted(b, wo.budget, past.quota)
    <3>1. /\ old.coded + wo.budget <= past.quota + old.failed + 1 /\ old.failed < wo.budget
          /\ old.curated = 0 /\ old.curations = 0
        BY <1>2, <2>1 DEF BlockIsCounted, BlockIsStaged, Unaudited
    <3>2. 0 + wo.budget <= past.quota + 0 + 1 /\ 0 <= wo.budget
        BY <1>2
    <3> QED BY <2>3, <3>1, <3>2 DEF BlockIsCounted
  <2>6. Succeeds(b, wo.blocks[i], Waived(wo))
      BY <1>0, <2>1, <2>3, <2>4 DEF Succeeds
  <2>7. Store("enter_block_checkpoint", Put(i, b), past)
      BY <1>0, <1>3, <2>2 DEF EnterBlockCheckpoint, Write
  <2> QED BY <1>0, <1>1, <2>3, <2>5, <2>6, <2>7, StoredPut
<1>4. ASSUME ProveBlockCheckpoint(i, TRUE)
      PROVE  RecordInv' /\ OnlyKnownRefusals'
  <2>1. old.status = "BLOCK_CHECKPOINT"
      BY <1>0, <1>4 DEF ProveBlockCheckpoint, In
  <2>2. PICK b : b = [old EXCEPT !.status = "BLOCK_DONE"]
      OBVIOUS
  <2>3. /\ b \in BlockRecord /\ b.spec = old.spec /\ b.status = "BLOCK_DONE"
        /\ b.coded = old.coded /\ b.tests = old.tests
        /\ b.coders = old.coders /\ b.curators = old.curators /\ b.curated = old.curated
        /\ b.codeAudit = old.codeAudit /\ b.risk = old.risk
        /\ b.memoryAudit = old.memoryAudit /\ b.memoryChange = old.memoryChange
        /\ b.failed = old.failed /\ b.curations = old.curations
      BY <1>2, <2>2 DEF BlockRecord, BlockStatus
  <2>4. BlockIsFine(b) /\ BlockAuditsHold(b, wo.envelope, Waived(wo))
      BY <1>2, <2>1, <2>3 DEF BlockIsFine, BlockIsStaged, CodeApproved, MemoryApproved,
                              BlockAuditsHold, Unaudited
  <2>5. BlockIsCounted(b, wo.budget, past.quota)
    <3>1. /\ old.coded + wo.budget <= past.quota + old.failed + 1 /\ old.failed < wo.budget
          /\ old.curated + wo.budget <= past.quota + old.curations + 1 /\ old.curations <= wo.budget
        BY <1>2, <2>1 DEF BlockIsCounted, Unaudited
    <3>2. old.coded <= past.quota /\ old.curated <= past.quota + 1
        BY <1>2, <3>1
    <3> QED BY <2>3, <3>2 DEF BlockIsCounted, Unaudited
  <2>6. Succeeds(b, wo.blocks[i], Waived(wo))
      BY <1>0, <2>1, <2>3, <2>4 DEF Succeeds
  <2>7. Store("prove_block_checkpoint", Put(i, b), past)
      BY <1>0, <1>4, <2>2 DEF ProveBlockCheckpoint, Write
  <2> QED BY <1>0, <1>1, <2>3, <2>5, <2>6, <2>7, StoredPut
<1>5. ASSUME ProveBlockCheckpoint(i, FALSE)
      PROVE  RecordInv' /\ OnlyKnownRefusals'
  <2>1. Store("prove_block_checkpoint", Raise(wo, {"BLOCK_CHECKPOINT_MISMATCH"}, {}), past)
      BY <1>5 DEF ProveBlockCheckpoint, Write
  <2>2. CanRaise(wo) /\ {"BLOCK_CHECKPOINT_MISMATCH"} \in SUBSET Code /\ {} \in SUBSET Gap
      BY <1>1 DEF CanRaise, AttentionSources, Code
  <2> QED BY <2>1, <2>2, MachineRaise, StoredRaise, WorkOrderFacts DEF Raising
<1> QED BY <1>3, <1>4, <1>5

LEMMA BlockStepStep ==
    ASSUME RecordInv, NEW i \in DOMAIN wo.blocks, BlockStep(i)
    PROVE  RecordInv' /\ OnlyKnownRefusals'
BY BeginAttemptStep, BeginMemoryCurationStep, RunSteps, FailAttemptStep, CheckpointSteps,
   ApproveCodeStep, ApproveMemoryStep, FinishMemoryCurationStep DEF BlockStep

-----------------------------------------------------------------------------
(*                        The approval of a plan                           *)

DoneAs(s) == {b \in BlocksOf(wo) : b.status = "BLOCK_DONE" /\ b.spec = s}

\* A block is the only one of its spec: the blocks are those of one plan.
LEMMA DoneIsUnique ==
    ASSUME RecordInv, NEW a \in BlocksOf(wo), NEW b \in BlocksOf(wo), a.spec = b.spec
    PROVE  a = b
<1>1. PICK i \in DOMAIN wo.blocks : a = wo.blocks[i]
    BY DEF BlocksOf
<1>2. PICK j \in DOMAIN wo.blocks : b = wo.blocks[j]
    BY DEF BlocksOf
<1>3. wo.blocks # <<>> /\ wo.approved \in Nat /\ wo.blocks \in Seq(BlockRecord)
    BY <1>1, WorkOrderFacts DEF WorkOrderRecord
<1>4. ApprovedPlan(wo) \in Plan
  <2>1. wo.approved \in 1..Len(wo.plans) /\ wo.plans \in Seq(Plan)
      BY <1>3, WorkOrderFacts DEF Founded
  <2> QED BY <2>1 DEF ApprovedPlan
<1>5. [k \in DOMAIN wo.blocks |-> wo.blocks[k].spec] = ApprovedPlan(wo).blocks
    BY <1>3, WorkOrderFacts DEF Founded
<1>6. PICK specs : specs = ApprovedPlan(wo).blocks
    OBVIOUS
<1>7. \A k, l \in DOMAIN specs : specs[k].id = specs[l].id => k = l
    BY <1>4, <1>6, PlanAssumption
<1>8. DOMAIN specs = DOMAIN wo.blocks /\ specs[i] = a.spec /\ specs[j] = b.spec
    BY <1>1, <1>2, <1>5, <1>6
<1>9. i = j
    BY <1>7, <1>8
<1> QED BY <1>1, <1>2, <1>9

LEMMA NewBlockFacts ==
    ASSUME NEW s \in BlockSpec
    PROVE  LET b == NewBlock(s) IN
           /\ b \in BlockRecord /\ b.spec = s /\ b.status = "PENDING" /\ BlockIsFine(b)
           /\ \A e, waived : BlockAuditsHold(b, e, waived)
           /\ \A budget, quota \in Nat : budget <= quota => BlockIsCounted(b, budget, quota)
<1>1. PICK b : b = NewBlock(s)
    OBVIOUS
<1>2. b \in BlockRecord
    BY <1>1 DEF NewBlock, BlockRecord, BlockStatus
<1>3. /\ b.spec = s /\ b.status = "PENDING" /\ b.failed = 0 /\ b.curations = 0 /\ b.coded = 0
      /\ b.curated = 0 /\ b.codeAudit = NoValue /\ b.memoryAudit = NoValue /\ b.memoryChange = "none"
    BY <1>1 DEF NewBlock
<1>4. BlockIsFine(b)
    BY <1>3 DEF BlockIsFine, CodeApproved, MemoryApproved, BlockIsStaged, Unaudited
<1>5. \A e, waived : BlockAuditsHold(b, e, waived)
    BY <1>3 DEF BlockAuditsHold
<1>6. \A budget, quota \in Nat : budget <= quota => BlockIsCounted(b, budget, quota)
    BY <1>3 DEF BlockIsCounted, Unaudited
<1> QED BY <1>1, <1>2, <1>3, <1>4, <1>5, <1>6

\* The order under its latest plan is sound and takes nothing back.
LEMMA ApprovedIsSound ==
    ASSUME RecordInv, ApprovePlan
    PROVE  LET new == Approved(wo)
               quota == IF wo.budget = NoValue THEN past.quota + new.budget ELSE past.quota
               remember == [past EXCEPT !.quota = quota] IN
           /\ Sound(new) /\ Follows(wo, new) /\ new.status = "PLAN_APPROVED"
           /\ new.deviations = wo.deviations /\ DeviationIdsDiffer(new)
           /\ Counted(new, remember) /\ Remembered(new, remember)
           /\ new.request = NoValue /\ new.closed = wo.closed
<1>0. PICK new : new = Approved(wo)
    OBVIOUS
<1>1. PICK plan : plan = Latest(wo)
    OBVIOUS
<1>2. wo.status = "PLAN_PROPOSED" /\ wo.plans # <<>>
    BY DEF ApprovePlan
<1>3. \A b \in BlocksOf(wo) : b.status = "BLOCK_DONE" => \E i \in DOMAIN plan.blocks : plan.blocks[i] = b.spec
    BY <1>1 DEF ApprovePlan
<1>4. /\ wo \in WorkOrderRecord /\ wo.request = NoValue /\ wo.deferredFrom = NoValue
      /\ Standing(wo) /\ wo.plans \in Seq(Plan) /\ Len(wo.plans) \in Nat
    BY <1>2, WorkOrderFacts DEF Attention
<1>5. plan \in Plan /\ Len(wo.plans) >= 1
  <2>1. Len(wo.plans) \in 1..Len(wo.plans)
      BY <1>2, <1>4
  <2> QED BY <1>1, <1>4, <2>1 DEF Latest
<1>6. plan.blocks \in Seq(BlockSpec) /\ Len(plan.blocks) >= 1 /\ plan.budget \in Budget
    BY <1>5, PlanAssumption
<1>7. PICK blocks : blocks = [i \in DOMAIN plan.blocks |->
                               IF DoneAs(plan.blocks[i]) = {} THEN NewBlock(plan.blocks[i])
                               ELSE CHOOSE b \in DoneAs(plan.blocks[i]) : TRUE]
    OBVIOUS
<1>8. PICK replaced : replaced = UNION {b.coders \cup b.curators :
                                          b \in {c \in BlocksOf(wo) : c.status # "BLOCK_DONE"}}
    OBVIOUS
<1>9. PICK budget : budget = IF wo.budget = NoValue THEN plan.budget ELSE wo.budget
    OBVIOUS
<1>10. PICK superseded : superseded = wo.superseded \cup replaced
    OBVIOUS
<1>11. PICK approved : approved = Len(wo.plans)
    OBVIOUS
<1>12. new = [wo EXCEPT !.status = "PLAN_APPROVED", !.approved = approved, !.budget = budget,
                        !.blocks = blocks, !.superseded = superseded]
    BY <1>0, <1>1, <1>4, <1>7, <1>8, <1>9, <1>10, <1>11
       DEF Approved, DoneAs, WorkOrderRecord
<1>13. \A b \in BlocksOf(wo) : b \in BlockRecord /\ BlockIsFine(b) /\ BlockAuditsHold(b, wo.envelope, Waived(wo))
    BY WorkOrderFacts
\* Each block is a finished one or a new one.
<1>14. ASSUME NEW i \in DOMAIN plan.blocks
       PROVE  /\ blocks[i].spec = plan.blocks[i]
              /\ \/ blocks[i] \in BlocksOf(wo) /\ blocks[i].status = "BLOCK_DONE"
                 \/ plan.blocks[i] \in BlockSpec /\ blocks[i] = NewBlock(plan.blocks[i])
  <2>1. plan.blocks[i] \in BlockSpec
      BY <1>6
  <2>2. CASE DoneAs(plan.blocks[i]) = {}
    <3>1. blocks[i] = NewBlock(plan.blocks[i])
        BY <1>7, <2>2
    <3> QED BY <2>1, <3>1, NewBlockFacts
  <2>3. CASE DoneAs(plan.blocks[i]) # {}
    <3>1. blocks[i] \in DoneAs(plan.blocks[i])
        BY <1>7, <2>3
    <3> QED BY <3>1 DEF DoneAs
  <2> QED BY <2>2, <2>3
<1>15. ASSUME NEW b \in BlocksOf(wo), b.status = "BLOCK_DONE"
       PROVE  \E i \in DOMAIN plan.blocks : blocks[i] = b
  <2>1. PICK i \in DOMAIN plan.blocks : plan.blocks[i] = b.spec
      BY <1>3, <1>15
  <2>2. DoneAs(plan.blocks[i]) # {}
      BY <1>15, <2>1 DEF DoneAs
  <2>3. blocks[i] \in DoneAs(plan.blocks[i])
      BY <1>7, <2>2
  <2>4. blocks[i] \in BlocksOf(wo) /\ blocks[i].spec = b.spec
      BY <2>1, <2>3 DEF DoneAs
  <2> QED BY <2>4, DoneIsUnique
<1>16. DOMAIN blocks = DOMAIN plan.blocks
    BY <1>7
<1>17. blocks \in Seq(BlockRecord) /\ blocks # <<>>
  <2>1. \A i \in DOMAIN plan.blocks : blocks[i] \in BlockRecord
      BY <1>13, <1>14, NewBlockFacts
  <2>2. DOMAIN plan.blocks = 1..Len(plan.blocks) /\ Len(plan.blocks) \in Nat
      BY <1>6
  <2>3. blocks = [i \in DOMAIN plan.blocks |-> blocks[i]]
      BY <1>7
  <2>4. blocks \in [1..Len(plan.blocks) -> BlockRecord]
      BY <2>1, <2>2, <2>3
  <2> QED BY <1>6, <2>2, <2>4
<1>18. superseded \subseteq Profile /\ wo.superseded \subseteq superseded
  <2>1. replaced \subseteq Profile
      BY <1>8, <1>13 DEF BlockRecord
  <2>2. wo.superseded \subseteq Profile
      BY <1>4 DEF WorkOrderRecord
  <2> QED BY <1>10, <2>1, <2>2
<1>19. budget \in Budget /\ budget \in Nat \ {0}
  <2>1. wo.budget \in Budget \cup {NoValue}
      BY <1>4 DEF WorkOrderRecord
  <2> QED BY <1>6, <1>9, <2>1, BoundAssumption
<1>20. approved \in Nat /\ approved >= wo.approved /\ wo.approved \in Nat /\ approved >= 1
  <2>1. wo.approved \in Nat /\ wo.approved <= Len(wo.plans)
      BY <1>4, WorkOrderFacts DEF WorkOrderRecord, Founded
  <2> QED BY <1>4, <1>5, <1>11, <2>1
<1>21. new \in WorkOrderRecord
  <2>1. PICK w1 : w1 = [wo EXCEPT !.status = "PLAN_APPROVED", !.approved = approved, !.budget = budget]
      OBVIOUS
  <2>2. w1 \in WorkOrderRecord
    <3>1. approved \in Nat /\ budget \in Budget
        BY <1>19, <1>20
    <3> QED BY <1>4, <2>1, <3>1 DEF WorkOrderRecord, Status
  <2>3. new = [w1 EXCEPT !.blocks = blocks, !.superseded = superseded]
      BY <1>12, <2>1
  <2> QED BY <1>17, <1>18, <2>2, <2>3 DEF WorkOrderRecord
<1>22. /\ new.status = "PLAN_APPROVED" /\ new.blocks = blocks /\ new.superseded = superseded
       /\ new.approved = approved /\ new.budget = budget /\ new.deviations = wo.deviations
       /\ new.request = NoValue /\ new.waivedGaps = wo.waivedGaps /\ new.plans = wo.plans
       /\ new.candidate = wo.candidate /\ new.finalAudit = wo.finalAudit
       /\ new.deferredFrom = NoValue /\ new.outcome = wo.outcome /\ new.baseline = wo.baseline
       /\ new.closed = wo.closed /\ new.envelope = wo.envelope
    BY <1>4, <1>12 DEF WorkOrderRecord
<1>23. Founded(new)
  <2>1. ApprovedPlan(new) = plan
      BY <1>1, <1>11, <1>22 DEF ApprovedPlan, Latest
  <2>2. [i \in DOMAIN blocks |-> blocks[i].spec] = plan.blocks
    <3>1. plan.blocks = [i \in DOMAIN plan.blocks |-> plan.blocks[i]]
        BY <1>6
    <3> QED BY <1>14, <1>16, <3>1
  <2> QED BY <1>4, <1>11, <1>20, <1>22, <2>1, <2>2 DEF Founded
<1>24. Standing(new) /\ Stage(new) = "PLAN_APPROVED"
    BY <1>2, <1>4, <1>22 DEF Standing, Stage, Attention
<1>25. Fits(new, Stage(new))
    BY <1>17, <1>22, <1>24 DEF Fits
<1>26. Waived(new) = Waived(wo)
    BY <1>4, <1>22 DEF Waived
<1>27. Sound(new)
  <2>1. ASSUME NEW b \in BlocksOf(new)
        PROVE  BlockIsFine(b) /\ BlockAuditsHold(b, new.envelope, Waived(new))
    <3>1. PICK i \in DOMAIN plan.blocks : b = blocks[i]
        BY <1>16, <1>22 DEF BlocksOf
    <3>2. new.envelope = wo.envelope
        BY <1>22
    <3> QED BY <1>13, <1>14, <1>26, <3>1, <3>2, NewBlockFacts
  <2> QED BY <1>21, <1>23, <1>24, <1>25, <2>1 DEF Sound, Shaped
<1>28. DoneIsKept(wo, new)
    BY <1>15, <1>16, <1>22 DEF DoneIsKept, BlocksOf
<1>29. Follows(wo, new)
  <2>1. Len(wo.deviations) \in Nat /\ Extends(wo.plans, wo.plans)
      BY WorkOrderFacts
  <2> QED BY <1>18, <1>20, <1>22, <1>28, <2>1 DEF Follows
<1>30. Writers(wo) \subseteq Writers(new)
  <2>1. ASSUME NEW p, NEW b \in BlocksOf(wo), p \in b.coders \cup b.curators
        PROVE  p \in Writers(new)
    <3>1. CASE b.status = "BLOCK_DONE"
      <4>1. b \in BlocksOf(new)
          BY <1>28, <3>1 DEF DoneIsKept
      <4> QED BY <2>1, <4>1 DEF Writers
    <3>2. CASE b.status # "BLOCK_DONE"
      <4>1. p \in replaced
          BY <1>8, <2>1, <3>2
      <4> QED BY <1>10, <1>22, <4>1 DEF Writers
    <3> QED BY <3>1, <3>2
  <2>2. wo.superseded \subseteq Writers(new)
      BY <1>18, <1>22 DEF Writers
  <2> QED BY <2>1, <2>2 DEF Writers
<1>31. PICK quota : quota = IF wo.budget = NoValue THEN past.quota + budget ELSE past.quota
    OBVIOUS
<1>32. PICK remember : remember = [past EXCEPT !.quota = quota]
    OBVIOUS
<1>33. past \in PastRecord /\ past.quota \in Nat /\ quota \in Nat
  <2>1. past \in PastRecord /\ past.quota \in Nat
      BY WorkOrderFacts DEF PastRecord
  <2> QED BY <1>19, <1>31, <2>1
<1>34. remember \in PastRecord /\ remember.quota = quota /\ remember.writers = past.writers
    BY <1>32, <1>33 DEF PastRecord
<1>35. Counted(new, remember)
  <2>1. budget <= quota
    <3>1. CASE wo.budget = NoValue
        BY <1>19, <1>31, <1>33, <3>1
    <3>2. CASE wo.budget # NoValue
      <4>1. wo.budget <= past.quota
          BY <3>2 DEF RecordInv, Counted
      <4> QED BY <1>9, <1>31, <3>2, <4>1
    <3> QED BY <3>1, <3>2
  <2>2. ASSUME NEW b \in BlocksOf(new)
        PROVE  BlockIsCounted(b, budget, quota)
    <3>1. PICK i \in DOMAIN plan.blocks : b = blocks[i]
        BY <1>16, <1>22 DEF BlocksOf
    <3>2. CASE b \in BlocksOf(wo)
      <4>1. wo.blocks # <<>>
          BY <3>2 DEF BlocksOf
      <4>2. wo.budget # NoValue /\ BlockIsCounted(b, wo.budget, past.quota)
          BY <3>2, <4>1 DEF RecordInv, Counted
      <4> QED BY <1>9, <1>31, <4>2
    <3>3. CASE b \notin BlocksOf(wo)
      <4>1. plan.blocks[i] \in BlockSpec /\ b = NewBlock(plan.blocks[i])
          BY <1>14, <3>1, <3>3
      <4> QED BY <1>19, <1>33, <2>1, <4>1, NewBlockFacts
    <3> QED BY <3>2, <3>3
  <2>3. budget # NoValue
      BY <1>19, RequestIsNoNone
  <2> QED BY <1>22, <1>34, <2>1, <2>2, <2>3 DEF Counted
<1>36. Remembered(new, remember)
    BY <1>30, <1>34 DEF RecordInv, Remembered
<1>37. DeviationIdsDiffer(new)
    BY <1>22 DEF RecordInv, DeviationIdsDiffer
<1>38. new.budget = budget
    BY <1>22
<1> QED BY <1>0, <1>22, <1>27, <1>29, <1>31, <1>32, <1>35, <1>36, <1>37, <1>38

LEMMA PlanGapsAreGaps ==
    ASSUME NEW w
    PROVE  PlanGaps(w) \subseteq Gap
<1>1. \A role \in Auditor : \A by, producers, required : FamilyGaps(role, by, producers, required) \subseteq Gap
    BY GapsAreGaps
<1> HIDE DEF FamilyGaps
<1> QED BY <1>1 DEF PlanGaps, Auditor

\* A plan is approved as it is, or its gaps are raised where no attention is to be had.
LEMMA ApprovePlanStep ==
    ASSUME RecordInv, ApprovePlan
    PROVE  RecordInv' /\ OnlyKnownRefusals'
<1>0. PICK new : new = Approved(wo)
    OBVIOUS
<1>1. PICK gaps : gaps = PlanGaps(new)
    OBVIOUS
<1>2. PICK quota : quota = IF wo.budget = NoValue THEN past.quota + new.budget ELSE past.quota
    OBVIOUS
<1>3. PICK remember : remember = [past EXCEPT !.quota = quota]
    OBVIOUS
<1>4. wo.status = "PLAN_PROPOSED"
    BY DEF ApprovePlan
<1>5. /\ gaps = {} /\ Store("approve_plan", new, remember)
      \/ Store("approve_plan", Raise(new, {"INDEPENDENCE_UNAVAILABLE"}, gaps), remember)
  <2> HIDE DEF Approved, PlanGaps, Store, Raise
  <2> QED BY <1>0, <1>1, <1>2, <1>3 DEF ApprovePlan, WriteAnd
<1>6. /\ Sound(new) /\ Follows(wo, new) /\ new.status = "PLAN_APPROVED"
      /\ new.deviations = wo.deviations /\ DeviationIdsDiffer(new)
      /\ Counted(new, remember) /\ Remembered(new, remember)
      /\ new.request = NoValue /\ new.closed = wo.closed
  <2> HIDE DEF Approved
  <2> QED BY <1>0, <1>2, <1>3, ApprovedIsSound
<1>7. wo.status \notin Terminal
    BY <1>4 DEF Terminal
<1>8. CASE Store("approve_plan", new, remember)
  <2>1. Moves(wo, new)
      BY <1>4, <1>6 DEF Moves, Transition
  <2>2. Broken(wo, new) \subseteq {"independence", "attention"} /\ Shaped(new)
      BY <1>6, <1>7, <2>1, BrokenIs DEF Sound
  <2>3. PICK others : others = Broken(wo, new) \ {"attention"}
      OBVIOUS
  <2>4. others = {} \/ others = {"independence"}
      BY <2>2, <2>3
  <2>5. <<"approve_plan", {"independence"}>> \in KnownRefusal
      BY DEF KnownRefusal
  <2>6. others = {} \/ <<"approve_plan", others>> \in KnownRefusal
      BY <2>4, <2>5
  <2>7. KeepsIds("approve_plan", new)
      BY <1>6 DEF KeepsIds
  <2> QED BY <1>6, <1>7, <1>8, <2>2, <2>3, <2>6, <2>7, Stored
<1>9. CASE Store("approve_plan", Raise(new, {"INDEPENDENCE_UNAVAILABLE"}, gaps), remember)
  <2>1. PICK r : r = Raise(new, {"INDEPENDENCE_UNAVAILABLE"}, gaps)
      OBVIOUS
  <2>2. CanRaise(new) /\ {"INDEPENDENCE_UNAVAILABLE"} \in SUBSET Code /\ gaps \in SUBSET Gap
      BY <1>1, <1>6, PlanGapsAreGaps DEF CanRaise, AttentionSources, Code
  <2>3. /\ Sound(r) /\ SameWork(new, r) /\ r.status = Attention /\ r.deviations = new.deviations
        /\ r.closed = new.closed
      BY <1>6, <2>1, <2>2, MachineRaise DEF RaisedTo
  <2>4. Follows(wo, r)
    <3>1. Len(wo.deviations) \in Nat
        BY WorkOrderFacts
    <3>2. /\ Len(new.deviations) \in Nat /\ Len(r.deviations) \in Nat
          /\ Len(r.deviations) >= Len(new.deviations)
        BY <1>6, <2>3, <3>1
    <3> QED BY <1>6, <2>3, <3>1, <3>2, SameWorkFollows
  <2>5. Counted(r, remember) /\ Remembered(r, remember) /\ DeviationIdsDiffer(r)
      BY <1>6, <2>3, SameWorkIsCounted DEF Remembered, DeviationIdsDiffer
  <2>6. ~Moves(wo, r)
      BY <1>4, <2>3 DEF Moves, Transition, AttentionSources, Attention
  <2>7. PICK others : others = Broken(wo, r) \ {"attention"}
      OBVIOUS
  <2>8. Shaped(r) /\ (others = {"transition"} \/ others = {"transition", "independence"})
    <3>1. Broken(wo, r) \subseteq {"transition", "independence", "attention"}
        BY <1>7, <2>3, <2>4, <2>5, BrokenIs DEF Sound
    <3>2. "transition" \in Broken(wo, r) /\ Shaped(r)
        BY <1>7, <2>3, <2>4, <2>6, BrokenIs DEF Sound
    <3> QED BY <2>7, <3>1, <3>2
  <2>9. /\ <<"approve_plan", {"transition"}>> \in KnownRefusal
        /\ <<"approve_plan", {"transition", "independence"}>> \in KnownRefusal
      BY DEF KnownRefusal
  <2>10. <<"approve_plan", others>> \in KnownRefusal
      BY <2>8, <2>9
  <2>11. KeepsIds("approve_plan", r)
      BY <1>6, <2>3 DEF KeepsIds, Raising
  <2>12. Store("approve_plan", r, remember)
      BY <1>9, <2>1
  <2> QED BY <1>7, <2>4, <2>5, <2>7, <2>8, <2>10, <2>11, <2>12, Stored
<1> QED BY <1>5, <1>8, <1>9

LEMMA ApproveNoPlanStep ==
    ASSUME RecordInv, ApproveNoPlan
    PROVE  RecordInv' /\ OnlyKnownRefusals'
<1>1. UNCHANGED <<wo, past>> /\ refusal' = [op |-> "approve_plan", rules |-> {"no_plan"}]
    BY DEF ApproveNoPlan
<1>2. RecordInv'
    BY <1>1 DEF RecordInv
<1>3. refusal'.rules \ {"attention"} = {"no_plan"} /\ "attention" \notin refusal'.rules
    BY <1>1
<1>4. <<refusal'.op, refusal'.rules \ {"attention"}>> = <<"approve_plan", {"no_plan"}>>
    BY <1>1, <1>3
<1> QED BY <1>2, <1>3, <1>4 DEF OnlyKnownRefusals, KnownRefusal

-----------------------------------------------------------------------------
(*                                The results                              *)

LEMMA InitInv == Init => IInv
<1> SUFFICES ASSUME Init PROVE IInv
    OBVIOUS
<1>1. wo = Draft /\ past = NoPast
    BY DEF Init
<1>2. /\ wo.status = "DRAFT" /\ wo.baseline = NoValue /\ wo.candidate = FALSE /\ wo.plans = <<>>
      /\ wo.approved = 0 /\ wo.envelope = 1 /\ wo.budget = NoValue /\ wo.grants = 0
      /\ wo.blocks = <<>> /\ wo.superseded = {} /\ wo.request = NoValue /\ wo.waivedGaps = {}
      /\ wo.deferredFrom = NoValue /\ wo.deviations = <<>> /\ wo.finalAudit = NoValue
      /\ wo.outcome = "none" /\ wo.attention = 0 /\ wo.closed = {}
    BY <1>1 DEF Draft
<1>3. BlocksOf(wo) = {} /\ Writers(wo) = {}
    BY <1>2 DEF BlocksOf, Writers
<1>4. wo \in WorkOrderRecord
    BY <1>1, ProfileAssumption DEF Draft, WorkOrderRecord, Status
<1>5. Founded(wo) /\ Standing(wo) /\ Fits(wo, Stage(wo))
    BY <1>2, <1>3 DEF Founded, Standing, Fits, Stage, Attention, NeedsBaseline, AttentionSources
<1>6. Sound(wo) /\ FinalAuditHolds(wo) /\ DeviationIdsDiffer(wo) /\ IdIsNew(wo, wo)
    BY <1>2, <1>3, <1>4, <1>5 DEF Sound, Shaped, FinalAuditHolds, DeviationIdsDiffer, IdIsNew
<1>7. Counted(wo, past) /\ Remembered(wo, past)
    BY <1>1, <1>2, <1>3 DEF Counted, Remembered, NoPast, PastRecord
<1>8. observed \in Nat /\ accepted \in Nat /\ OnlyKnownRefusals
    BY DEF Init, OnlyKnownRefusals, NoRefusal
<1> QED BY <1>6, <1>7, <1>8 DEF IInv, RecordInv

\* What the coordinator and the broker count stays a count.
LEMMA CountersStay ==
    ASSUME observed \in Nat, accepted \in Nat, [Next]_vars
    PROVE  observed' \in Nat /\ accepted' \in Nat
<1> USE DEF Write, WriteAnd, WriteUnlessDrift, WriteUnlessGaps
<1> HIDE DEF Store
<1>1. CASE AcceptedMoves \/ ObserveAccepted
    BY <1>1 DEF AcceptedMoves, ObserveAccepted
<1>2. ASSUME NEW i, BlockStep(i)
      PROVE  UNCHANGED <<accepted, observed>>
    BY <1>2 DEF BlockStep, BeginAttempt, BeginMemoryCuration, FinishRun, FailAttempt,
         EnterBlockCheckpoint, RecordTests, ApproveCode, ApproveMemory, FinishMemoryCuration,
         ProveBlockCheckpoint
<1>3. ASSUME Decide
      PROVE  UNCHANGED <<accepted, observed>>
    BY <1>3 DEF Decide, Resume, Replan, Defer, Abort, ChangeAgent, ChangeBudget
<1>4. ASSUME StartIntake \/ ProposePlan \/ ApprovePlan \/ ApproveNoPlan \/ RejectPlan
             \/ AttachCandidate \/ StartExecution \/ EnterFinalVerification
      PROVE  UNCHANGED <<accepted, observed>>
    BY <1>4 DEF StartIntake, ProposePlan, ApprovePlan, ApproveNoPlan, RejectPlan, AttachCandidate,
         StartExecution, EnterFinalVerification
<1>5. ASSUME (\E fresh \in Sessions, original \in BOOLEAN : RecordFinalAudit(fresh, original))
             \/ (\E promoted \in BOOLEAN : RecordKernelOutcome(promoted))
             \/ RaiseAttention \/ ResumeDeferred \/ RecordDeviation
      PROVE  UNCHANGED <<accepted, observed>>
    BY <1>5 DEF RecordFinalAudit, RecordKernelOutcome, RaiseAttention, ResumeDeferred, RecordDeviation
<1>6. CASE UNCHANGED vars
    BY <1>6 DEF vars
<1> QED BY <1>1, <1>2, <1>3, <1>4, <1>5, <1>6 DEF Next

LEMMA NextInv == IInv /\ [Next]_vars => IInv'
<1> SUFFICES ASSUME IInv, [Next]_vars PROVE IInv'
    OBVIOUS
<1>1. RecordInv /\ observed \in Nat /\ accepted \in Nat
    BY DEF IInv
<1>2. CASE UNCHANGED vars
    BY <1>2 DEF IInv, vars, RecordInv, OnlyKnownRefusals
<1>3. CASE AcceptedMoves \/ ObserveAccepted
  <2>1. UNCHANGED <<wo, past, refusal>>
      BY <1>3 DEF AcceptedMoves, ObserveAccepted
  <2>2. observed' \in Nat /\ accepted' \in Nat
      BY <1>1, <1>3 DEF AcceptedMoves, ObserveAccepted
  <2> QED BY <2>1, <2>2 DEF IInv, RecordInv, OnlyKnownRefusals
<1>4. ASSUME Next, ~(AcceptedMoves \/ ObserveAccepted)
      PROVE  RecordInv' /\ OnlyKnownRefusals'
    BY <1>1, <1>4, StartIntakeStep, ProposePlanStep, ApprovePlanStep, ApproveNoPlanStep, SmallSteps,
       AttachCandidateStep, RecordFinalAuditStep, KernelOutcomeStep, RaiseAttentionStep, DecideStep,
       ResumeDeferredStep, RecordDeviationStep, BlockStepStep DEF Next
<1> QED BY <1>1, <1>2, <1>3, <1>4, CountersStay DEF IInv

\* The record on file passes its own validators, every block has what its stage asks for,
\* every approving audit was judged independent, and attempts and deviations are counted, in
\* every reachable state.
THEOREM WorkOrderInv == Spec => []IInv
<1>1. Init => IInv
    BY InitInv
<1>2. IInv /\ [Next]_vars => IInv'
    BY NextInv
<1> QED BY <1>1, <1>2, PTL DEF Spec

-----------------------------------------------------------------------------
(*                   The properties that the runs check                    *)

\* For any plans, profiles and budgets: behind its guards an operation is refused only in
\* the ways named, by no other validator and no other rule of check_evolution.
THEOREM RefusalsAreKnown == Spec => []OnlyKnownRefusals
<1>1. IInv => OnlyKnownRefusals
    BY DEF IInv
<1> QED BY <1>1, WorkOrderInv, PTL

\* The final audit on record is independent of everyone who ever wrote for the order, those
\* a replan dropped included, but for what the user waived.
THEOREM FinalAuditIsIndependent == Spec => []FinalAuditIndependentOfAllWriters
<1>1. ASSUME IInv
      PROVE  FinalAuditIndependentOfAllWriters
  <2>1. FinalAuditHolds(wo) /\ past.writers \subseteq Writers(wo)
      BY <1>1 DEF IInv, RecordInv, Remembered
  <2>2. PICK required : required = PlanRequires(wo)
      OBVIOUS
  <2>3. FamilyGaps("final_verifier", wo.finalAudit.by, past.writers, required)
          \subseteq FamilyGaps("final_verifier", wo.finalAudit.by, Writers(wo), required)
      BY <2>1 DEF FamilyGaps
  <2>4. wo.finalAudit # NoValue =>
          FamilyGaps("final_verifier", wo.finalAudit.by, Writers(wo), required) \subseteq Waived(wo)
      BY <2>1, <2>2 DEF FinalAuditHolds, AuditGaps
  <2> QED BY <2>2, <2>3, <2>4 DEF FinalAuditIndependentOfAllWriters
<1> QED BY <1>1, WorkOrderInv, PTL

\* No block is coded more often than attempts were granted in all, or curated more than
\* once more.
THEOREM AttemptsAreGranted == Spec => []AttemptsWithinBudget
<1>1. ASSUME IInv, NEW b \in BlocksOf(wo)
      PROVE  b.coded <= past.quota /\ b.curated <= past.quota + 1
  <2>1. RecordInv
      BY <1>1 DEF IInv
  <2>2. wo.blocks # <<>>
      BY <1>1 DEF BlocksOf
  <2>3. wo.budget \in Nat \ {0} /\ past.quota \in Nat
      BY <2>1, <2>2, BudgetIsPositive
  <2>4. b \in BlockRecord /\ BlockIsStaged(b)
      BY <1>1, <2>1, WorkOrderFacts DEF BlockIsFine
  <2>5. BlockIsCounted(b, wo.budget, past.quota)
      BY <1>1, <2>1 DEF RecordInv, Counted
  <2>6. b.coded \in Nat /\ b.curated \in Nat /\ b.failed \in Nat /\ b.curations \in Nat
      BY <2>4 DEF BlockRecord
  <2>7. b.coded <= past.quota
      BY <2>3, <2>5, <2>6 DEF BlockIsCounted
  <2>8. CASE b.status \in Unaudited
    <3>1. b.curated = 0
        BY <2>4, <2>8 DEF BlockIsStaged
    <3> QED BY <2>3, <2>7, <3>1
  <2>9. CASE b.status = "BLOCK_DONE"
      BY <2>5, <2>9 DEF BlockIsCounted
  <2>10. CASE b.status \notin Unaudited \cup {"BLOCK_DONE"}
    <3>1. b.curated + wo.budget <= past.quota + b.curations + 1 /\ b.curations <= wo.budget
        BY <2>5, <2>10 DEF BlockIsCounted
    <3>2. b.curated <= past.quota + 1
        BY <2>3, <2>6, <3>1
    <3> QED BY <2>7, <3>2
  <2> QED BY <2>7, <2>8, <2>9, <2>10
<1>2. IInv => AttemptsWithinBudget
    BY <1>1 DEF AttemptsWithinBudget
<1> QED BY <1>2, WorkOrderInv, PTL

-----------------------------------------------------------------------------
(*                    What a step may do to the status                     *)

NoDrift ==
    /\ wo'.status \in {"EXECUTING", "FINAL_VERIFICATION"}
    /\ wo.status # wo'.status
    => observed = wo'.baseline
Settled ==
    /\ wo.status = Attention
    /\ wo'.status \in AttentionSources
    => past'.unanswered = {}

\* What is not answered since it was raised is still open in the request: it is settled by
\* nothing but an answer, and what came back was answered before only where it is excused.
Answers(w, p) ==
    w.request # NoValue =>
      /\ w.request.waived \cup w.request.warnings \subseteq p.excused
      /\ p.unanswered \subseteq OpenBlocking(w)
AskInv == Answers(wo, past)

Guarded == NoDrift /\ Settled /\ AskInv'

Remembers(p) == {"unanswered", "excused"} \subseteq DOMAIN p

LEMMA RaiseAnswers ==
    ASSUME NEW w, w.request \in Request, w.request # NoValue, "request" \in DOMAIN w, NEW p,
           Remembers(p), Answers(w, p), NEW id, NEW codes, NEW warnings, NEW gaps
    PROVE  Answers(RaiseAs(w, id, codes, warnings, gaps), Again(w, p, codes, warnings))
<1> PICK q : q = w.request
    OBVIOUS
<1> PICK r : r = RaiseAs(w, id, codes, warnings, gaps).request
    OBVIOUS
<1>1. /\ r.reasons = q.reasons \cup codes /\ r.resolved = q.resolved \ codes
      /\ r.warnings = q.warnings \cup (warnings \ q.reasons) /\ r.waived = q.waived
    BY DEF RaiseAs, Request
<1> PICK a : a = Again(w, p, codes, warnings)
    OBVIOUS
<1>2. /\ a.unanswered = p.unanswered \cup ((codes \ warnings) \ p.excused)
      /\ a.excused = p.excused \cup (warnings \ q.reasons)
    BY DEF Again, Remembers
<1>3. q.waived \cup q.warnings \subseteq p.excused
    BY DEF Answers
<1>4. p.unanswered \subseteq q.reasons \ (q.warnings \cup q.resolved \cup q.waived)
    BY DEF Answers, OpenBlocking
<1>5. r.waived \cup r.warnings \subseteq a.excused
    BY <1>1, <1>2, <1>3
<1>6. a.unanswered \subseteq r.reasons \ (r.warnings \cup r.resolved \cup r.waived)
    BY <1>1, <1>2, <1>3, <1>4
<1> QED BY <1>5, <1>6 DEF Answers, OpenBlocking

LEMMA AgainRemembers ==
    ASSUME NEW w, NEW p, Remembers(p), NEW codes, NEW warnings
    PROVE  Remembers(Again(w, p, codes, warnings))
BY DEF Again, Remembers

\* A request that is opened, closed or left open with its answers.
LEMMA StoredAnswers ==
    ASSUME AskInv, NEW op, NEW new, NEW remember, Store(op, new, remember), Remembers(remember),
           wo.request = NoValue \/ new.request = NoValue \/ Answers(new, remember)
    PROVE  AskInv'
<1>1. CASE UNCHANGED <<wo, past>>
    BY <1>1 DEF AskInv, Answers, OpenBlocking
<1>2. CASE wo' = new /\ past' = Asked(new, remember)
  <2> PICK p : p = Asked(new, remember)
      OBVIOUS
  <2>1. Answers(new, p)
    <3>1. CASE new.request = NoValue
        BY <3>1 DEF Answers
    <3>2. CASE new.request # NoValue /\ wo.request = NoValue
      <4>1. p.unanswered = OpenBlocking(new) /\ p.excused = new.request.warnings \cup new.request.waived
          BY <3>2 DEF Asked, Remembers
      <4> QED BY <4>1 DEF Answers
    <3>3. CASE new.request # NoValue /\ wo.request # NoValue
        BY <3>3 DEF Asked
    <3> QED BY <3>1, <3>2, <3>3
  <2> QED BY <1>2, <2>1 DEF AskInv, Answers, OpenBlocking
<1> QED BY <1>1, <1>2 DEF Store

\* Most steps enter neither work nor verification, and leave no attention.
LEMMA QuietStore ==
    ASSUME AskInv, NEW op, NEW new, NEW remember, Store(op, new, remember), Remembers(remember),
           wo.request = NoValue \/ new.request = NoValue \/ Answers(new, remember),
           new.status \in {"EXECUTING", "FINAL_VERIFICATION"} => new.status = wo.status,
           wo.status = Attention => new.status \notin AttentionSources
    PROVE  Guarded
<1>1. wo' = wo \/ wo' = new
    BY DEF Store
<1>2. Attention \notin AttentionSources
    BY DEF Attention, AttentionSources
<1>3. AskInv'
    BY StoredAnswers
<1> QED BY <1>1, <1>2, <1>3 DEF Guarded, NoDrift, Settled

LEMMA RaiseKeepsStatus ==
    ASSUME NEW w, w \in WorkOrderRecord, NEW id, NEW codes, NEW warnings, NEW gaps
    PROVE  /\ RaiseAs(w, id, codes, warnings, gaps).status \in {Attention, w.status}
           /\ Raise(w, codes, gaps).status \in {Attention, w.status}
           /\ w.request = NoValue => Raise(w, codes, gaps).status = Attention
BY DEF Raise, RaiseAs, WorkOrderRecord

\* An operation that rechecks the baseline may enter work or verification.
LEMMA GuardedStore ==
    ASSUME AskInv, NEW op, NEW before, NEW after, NEW remember,
           WriteUnlessDrift(op, before, after, remember), Remembers(remember),
           before \in WorkOrderRecord, before.request = NoValue \/ before.status = Attention,
           after.baseline = wo.baseline, after.request = NoValue,
           wo.request = NoValue \/ (before.request # NoValue /\ Answers(before, remember)),
           wo.status # Attention \/ remember.unanswered = {}
    PROVE  Guarded
<1>1. CASE observed = wo.baseline
  <2>1. Store(op, after, remember)
      BY <1>1 DEF WriteUnlessDrift, WriteAnd
  <2>2. wo' = wo \/ (wo' = after /\ past' = [remember EXCEPT !.excused = {}])
      BY <2>1 DEF Store, Asked
  <2>3. Attention \notin AttentionSources
      BY DEF Attention, AttentionSources
  <2>4. AskInv'
      BY <2>1, StoredAnswers
  <2>5. [remember EXCEPT !.excused = {}].unanswered = remember.unanswered
      BY DEF Remembers
  <2> QED BY <1>1, <2>2, <2>3, <2>4, <2>5 DEF Guarded, NoDrift, Settled
<1>2. CASE observed # wo.baseline
  <2> PICK r : r = Raise(before, {"BASELINE_DRIFT"}, {})
      OBVIOUS
  <2> PICK p : p = Again(before, remember, {"BASELINE_DRIFT"}, {})
      OBVIOUS
  <2>1. Store(op, r, p)
      BY <1>2 DEF WriteUnlessDrift, WriteAnd
  <2>2. r.status = Attention
      BY RaiseKeepsStatus
  <2>3. Attention \notin AttentionSources \cup {"EXECUTING", "FINAL_VERIFICATION"}
      BY DEF Attention, AttentionSources
  <2>4. Remembers(p)
      BY AgainRemembers
  <2>5. wo.request = NoValue \/ Answers(r, p)
    <3>1. ASSUME before.request # NoValue, Answers(before, remember)
          PROVE  Answers(r, p)
      <4>1. before.request \in Request /\ "request" \in DOMAIN before
          BY <3>1 DEF WorkOrderRecord
      <4> HIDE DEF RaiseAs, Again, Answers, Remembers
      <4> QED BY <3>1, <4>1, RaiseAnswers DEF Raise
    <3> QED BY <3>1
  <2> QED BY <2>1, <2>2, <2>3, <2>4, <2>5, QuietStore
<1> QED BY <1>1, <1>2

LEMMA QuietGaps ==
    ASSUME AskInv, wo \in WorkOrderRecord, past \in PastRecord, NEW op, NEW gaps, NEW new,
           NEW remember, WriteUnlessGaps(op, gaps, new, remember), Remembers(remember),
           new.status = wo.status, wo.status # Attention, wo.request = NoValue
    PROVE  Guarded
<1>1. Store(op, new, remember) \/ Store(op, Raise(wo, {"INDEPENDENCE_UNAVAILABLE"}, gaps), past)
    BY DEF WriteUnlessGaps, Write, WriteAnd
<1>2. Raise(wo, {"INDEPENDENCE_UNAVAILABLE"}, gaps).status \in {Attention, wo.status}
    BY RaiseKeepsStatus
<1>3. Attention \notin {"EXECUTING", "FINAL_VERIFICATION"}
    BY DEF Attention
<1>4. Remembers(past)
    BY DEF Remembers, PastRecord
<1> QED BY <1>1, <1>2, <1>3, <1>4, QuietStore

\* A decision's waivers answer what they waive.
LEMMA DecisionAnswers ==
    ASSUME RecordInv, AskInv, wo.status = Attention,
           NEW waived \in SUBSET (wo.request.reasons \ wo.request.waived), NEW ids,
           NEW w, w = Decided(waived, ids)
    PROVE  Answers(w, Heard(w)) /\ Remembers(Heard(w))
<1>1. /\ wo \in WorkOrderRecord /\ wo.request # NoValue /\ wo.request \in Request
      /\ past \in PastRecord
    BY WorkOrderFacts DEF Standing, WorkOrderRecord
<1> PICK q : q = wo.request
    OBVIOUS
<1> PICK r : r = w.request
    OBVIOUS
<1>2. /\ r.reasons = q.reasons /\ r.resolved = q.resolved
      /\ r.warnings = q.warnings /\ r.waived = q.waived \cup waived
    BY <1>1 DEF Decided, WorkOrderRecord, Request
<1> PICK h : h = Heard(w)
    OBVIOUS
<1>3. /\ h.unanswered = past.unanswered \ r.waived /\ h.excused = past.excused \cup r.waived
      /\ Remembers(h)
    BY <1>1 DEF Heard, PastRecord, Remembers
<1>4. /\ q.waived \cup q.warnings \subseteq past.excused
      /\ past.unanswered \subseteq q.reasons \ (q.warnings \cup q.resolved \cup q.waived)
    BY <1>1 DEF AskInv, Answers, OpenBlocking
<1>5. r.waived \cup r.warnings \subseteq h.excused
    BY <1>2, <1>3, <1>4
<1>6. h.unanswered \subseteq r.reasons \ (r.warnings \cup r.resolved \cup r.waived)
    BY <1>2, <1>3, <1>4
<1> QED BY <1>3, <1>5, <1>6 DEF Answers, OpenBlocking

LEMMA ResumeIsGuarded ==
    ASSUME RecordInv, AskInv, NEW w, DecidedOn(w), Answers(w, Heard(w)), Remembers(Heard(w)),
           Resume(w)
    PROVE  Guarded
<1>1. PICK after : after = Close(w, w.request.from)
    OBVIOUS
<1>2. PICK remember : remember = Heard(w)
    OBVIOUS
<1>3. w \in WorkOrderRecord /\ w.request # NoValue /\ w.request.from \in AttentionSources
      /\ w.status = Attention /\ w.baseline = wo.baseline
    BY DEF DecidedOn, Request, SameWork, Untouched
<1>4. after.status = w.request.from /\ after.baseline = wo.baseline /\ after.request = NoValue
    BY <1>1, <1>3, StatusFacts, WaivedOfClosed DEF SameWork, Untouched
<1>5. OpenBlocking(w) = {}
    BY DEF Resume
<1>6. remember.unanswered = {} /\ Answers(w, remember) /\ Remembers(remember)
    BY <1>2, <1>3, <1>5 DEF Answers
<1>7. CASE w.request.from \in NeedsBaseline
  <2>1. WriteUnlessDrift("resume", w, after, remember)
    <3> HIDE DEF WriteUnlessDrift, Close, OpenBlocking, Heard
    <3> QED BY <1>1, <1>2, <1>7 DEF Resume
  <2> QED BY <1>3, <1>4, <1>6, <2>1, GuardedStore
<1>8. CASE w.request.from \notin NeedsBaseline
  <2>1. Store("resume", after, remember)
      BY <1>1, <1>2, <1>8 DEF Resume, WriteAnd
  <2>2. wo' = wo \/ (wo' = after /\ past' = [remember EXCEPT !.excused = {}])
      BY <1>4, <2>1 DEF Store, Asked
  <2>3. AskInv'
      BY <1>4, <1>6, <2>1, StoredAnswers
  <2>4. [remember EXCEPT !.excused = {}].unanswered = {}
      BY <1>6 DEF Remembers
  <2> QED BY <1>4, <1>8, <2>2, <2>3, <2>4
          DEF Guarded, NoDrift, Settled, NeedsBaseline, AttentionSources, Attention
<1> QED BY <1>7, <1>8

\* An amendment answers what it resolves, and leaves the request open.
LEMMA ResolvedAnswers ==
    ASSUME NEW w, DecidedOn(w), Answers(w, Heard(w)), Remembers(Heard(w)), NEW codes,
           NEW new, new.request = Resolving(w, codes).request
    PROVE  Answers(new, Resolved(w, codes)) /\ Remembers(Resolved(w, codes))
<1> PICK q : q = w.request
    OBVIOUS
<1> PICK r : r = new.request
    OBVIOUS
<1>1. w.request \in Request /\ w.request # NoValue /\ w \in WorkOrderRecord
    BY DEF DecidedOn
<1>2. /\ r.reasons = q.reasons /\ r.waived = q.waived /\ r.warnings = q.warnings
      /\ r.resolved = q.resolved \cup (q.reasons \cap codes)
    BY <1>1 DEF Resolving, WorkOrderRecord, Request
<1> PICK h : h = Heard(w)
    OBVIOUS
<1> PICK p : p = Resolved(w, codes)
    OBVIOUS
<1>3. p = [h EXCEPT !.unanswered = @ \ codes]
    BY DEF Resolved
<1>4. p.unanswered = h.unanswered \ codes /\ p.excused = h.excused /\ Remembers(p)
    BY <1>3 DEF Remembers
<1>5. /\ q.waived \cup q.warnings \subseteq h.excused
      /\ h.unanswered \subseteq q.reasons \ (q.warnings \cup q.resolved \cup q.waived)
    BY <1>1 DEF Answers, OpenBlocking
<1>6. r.waived \cup r.warnings \subseteq p.excused
    BY <1>2, <1>4, <1>5
<1>7. p.unanswered \subseteq r.reasons \ (r.warnings \cup r.resolved \cup r.waived)
    BY <1>2, <1>4, <1>5
<1> QED BY <1>4, <1>6, <1>7 DEF Answers, OpenBlocking

LEMMA DecideIsGuarded ==
    ASSUME RecordInv, AskInv, Decide
    PROVE  Guarded
<1>1. wo.status = Attention
    BY DEF Decide
<1>2. PICK waived \in SUBSET (wo.request.reasons \ wo.request.waived),
           ids \in SUBSET {d.id : d \in {e \in Deviations : ~e.approved}} :
        LET w == Decided(waived, ids) IN
        \/ Resume(w) \/ Replan(w) \/ Defer(w) \/ Abort(w)
        \/ ChangeAgent(w) \/ ChangeBudget(w)
    BY DEF Decide
<1>3. PICK w : w = Decided(waived, ids)
    OBVIOUS
<1>4. DecidedOn(w)
    BY <1>1, <1>3, DecidedFacts
<1>5. w \in WorkOrderRecord /\ w.request # NoValue /\ w.status = Attention
    BY <1>4 DEF DecidedOn
<1>6. Answers(w, Heard(w)) /\ Remembers(Heard(w)) /\ Remembers(past)
  <2>1. Remembers(past)
      BY WorkOrderFacts DEF Remembers, PastRecord
  <2> QED BY <1>1, <1>3, <2>1, DecisionAnswers
<1>7. CASE Resume(w)
    BY <1>4, <1>7, <1>6, ResumeIsGuarded
<1>8. CASE Replan(w) \/ Abort(w)
  <2>1. \A target \in {"PLAN_PROPOSED", "ABORTED"} :
         Close(w, target).status = target /\ Close(w, target).request = NoValue
      BY <1>5, WaivedOfClosed DEF Status
  <2> HIDE DEF Close
  <2>2. ASSUME Replan(w)
        PROVE  Guarded
    <3>1. Store("replan", Close(w, "PLAN_PROPOSED"), [past EXCEPT !.unanswered = {}])
        BY <2>2 DEF Replan, WriteAnd
    <3>2. Remembers([past EXCEPT !.unanswered = {}])
        BY <1>6 DEF Remembers
    <3> QED BY <2>1, <3>1, <3>2, QuietStore DEF AttentionSources
  <2>3. ASSUME Abort(w)
        PROVE  Guarded
    <3>1. Store("abort", Close(w, "ABORTED"), past)
        BY <2>3 DEF Abort, Write
    <3> QED BY <1>6, <2>1, <3>1, QuietStore DEF AttentionSources
  <2> QED BY <1>8, <2>2, <2>3
<1>9. CASE Defer(w)
  <2>1. Store("defer", [Close(w, "DEFERRED") EXCEPT !.deferredFrom = w.request.from], Heard(w))
      BY <1>9 DEF Defer, WriteAnd
  <2>2. /\ Close(w, "DEFERRED").status = "DEFERRED" /\ Close(w, "DEFERRED") \in WorkOrderRecord
        /\ Close(w, "DEFERRED").request = NoValue
      BY <1>5, WaivedOfClosed DEF Status
  <2>3. /\ [Close(w, "DEFERRED") EXCEPT !.deferredFrom = w.request.from].status = "DEFERRED"
        /\ [Close(w, "DEFERRED") EXCEPT !.deferredFrom = w.request.from].request = NoValue
    <3> HIDE DEF Close
    <3> QED BY <2>2 DEF WorkOrderRecord
  <2> HIDE DEF Close, Heard
  <2> QED BY <1>6, <2>1, <2>3, QuietStore DEF AttentionSources
<1>10. CASE ChangeAgent(w) \/ ChangeBudget(w)
  <2>1. PICK op, codes, new, remember :
           /\ Store(op, new, remember) /\ new.status = Attention
           /\ new.request = Resolving(w, codes).request
           /\ remember.unanswered = Resolved(w, codes).unanswered
           /\ remember.excused = Resolved(w, codes).excused /\ Remembers(remember)
    <3>1. ASSUME ChangeAgent(w)
          PROVE  \E op, codes, new, remember :
                    /\ Store(op, new, remember) /\ new.status = Attention
                    /\ new.request = Resolving(w, codes).request
                    /\ remember.unanswered = Resolved(w, codes).unanswered
                    /\ remember.excused = Resolved(w, codes).excused /\ Remembers(remember)
      <4> PICK codes : codes = {"AGENT_UNAVAILABLE", "INDEPENDENCE_UNAVAILABLE"}
          OBVIOUS
      <4>1. PICK e \in DOMAIN Envelope :
               Store("change_agent", [Resolving(w, codes) EXCEPT !.envelope = e], Resolved(w, codes))
          BY <3>1 DEF ChangeAgent, WriteAnd
      <4> PICK new : new = [Resolving(w, codes) EXCEPT !.envelope = e]
          OBVIOUS
      <4>2. new.status = Attention /\ new.request = Resolving(w, codes).request
          BY <1>5 DEF WorkOrderRecord, Resolving
      <4>3. Remembers(Resolved(w, codes))
          BY <1>4, <1>6, ResolvedAnswers
      <4> HIDE DEF Store, Resolving, Resolved
      <4> QED BY <4>1, <4>2, <4>3
    <3>2. ASSUME ChangeBudget(w)
          PROVE  \E op, codes, new, remember :
                    /\ Store(op, new, remember) /\ new.status = Attention
                    /\ new.request = Resolving(w, codes).request
                    /\ remember.unanswered = Resolved(w, codes).unanswered
                    /\ remember.excused = Resolved(w, codes).excused /\ Remembers(remember)
      <4> PICK codes : codes = {"BUDGET_EXHAUSTED", "ATTEMPTS_EXHAUSTED"}
          OBVIOUS
      <4>1. PICK n \in Budget :
               Store("change_budget",
                     [Resolving(w, codes) EXCEPT !.budget = n, !.grants = @ + 1,
                                                 !.blocks = [i \in DOMAIN @ |-> Restarted(@[i])]],
                     [Resolved(w, codes) EXCEPT !.quota = @ + n])
          BY <3>2 DEF ChangeBudget, WriteAnd
      <4> PICK new : new = [Resolving(w, codes) EXCEPT !.budget = n, !.grants = @ + 1,
                                              !.blocks = [i \in DOMAIN @ |-> Restarted(@[i])]]
          OBVIOUS
      <4> PICK remember : remember = [Resolved(w, codes) EXCEPT !.quota = @ + n]
          OBVIOUS
      <4>2. new.status = Attention /\ new.request = Resolving(w, codes).request
          BY <1>5 DEF WorkOrderRecord, Resolving
      <4>3. Remembers(Resolved(w, codes))
          BY <1>4, <1>6, ResolvedAnswers
      <4>4. /\ remember.unanswered = Resolved(w, codes).unanswered
            /\ remember.excused = Resolved(w, codes).excused /\ Remembers(remember)
          BY <4>3 DEF Remembers
      <4> HIDE DEF Store, Resolving, Resolved
      <4> QED BY <4>1, <4>2, <4>4
    <3> QED BY <1>10, <3>1, <3>2
  <2>2. Answers(new, Resolved(w, codes))
      BY <1>4, <1>6, <2>1, ResolvedAnswers
  <2>3. Answers(new, remember)
      BY <2>1, <2>2 DEF Answers
  <2>4. Attention \notin AttentionSources \cup {"EXECUTING", "FINAL_VERIFICATION"}
      BY DEF Attention, AttentionSources
  <2> QED BY <2>1, <2>3, <2>4, QuietStore
<1> QED BY <1>2, <1>3, <1>7, <1>8, <1>9, <1>10

LEMMA ResumeDeferredIsGuarded ==
    ASSUME RecordInv, AskInv, ResumeDeferred
    PROVE  Guarded
<1>1. wo.status = "DEFERRED" /\ wo.request = NoValue /\ wo.deferredFrom \in AttentionSources
    BY WorkOrderFacts DEF ResumeDeferred, Standing, WorkOrderRecord, Attention
<1>2. PICK new : new = [wo EXCEPT !.status = wo.deferredFrom, !.deferredFrom = NoValue]
    OBVIOUS
<1>3. PICK from : from = wo.deferredFrom
    OBVIOUS
<1>4. new \in WorkOrderRecord /\ new.status = from /\ new.request = NoValue /\ new.baseline = wo.baseline
  <2>1. from \in Status /\ wo \in WorkOrderRecord /\ new = [wo EXCEPT !.status = from, !.deferredFrom = NoValue]
      BY <1>1, <1>2, <1>3, StatusFacts, WorkOrderFacts
  <2> QED BY <1>1, <2>1 DEF WorkOrderRecord
<1>5. Remembers(past)
    BY WorkOrderFacts DEF Remembers, PastRecord
<1>6. CASE from \in NeedsBaseline
  <2>1. WriteUnlessDrift("resume_deferred", new, new, past)
    <3> HIDE DEF WriteUnlessDrift
    <3> QED BY <1>2, <1>3, <1>6 DEF ResumeDeferred
  <2>2. wo.status # Attention
      BY <1>1 DEF Attention
  <2> QED BY <1>1, <1>4, <1>5, <2>1, <2>2, GuardedStore
<1>7. CASE from \notin NeedsBaseline
  <2>1. Store("resume_deferred", new, past)
    <3> HIDE DEF Store
    <3> QED BY <1>2, <1>3, <1>7 DEF ResumeDeferred, Write
  <2>2. new.status = "CONTEXT_INTAKE"
      BY <1>1, <1>3, <1>4, <1>7 DEF NeedsBaseline, AttentionSources
  <2>3. wo.status # Attention
      BY <1>1 DEF Attention
  <2> QED BY <1>1, <1>5, <2>1, <2>2, <2>3, QuietStore
<1> QED BY <1>6, <1>7

LEMMA PutKeepsStatus ==
    ASSUME wo \in WorkOrderRecord, NEW i, NEW b
    PROVE  /\ Put(i, b).status = wo.status /\ Put(i, b).request = wo.request
           /\ {"status", "request", "deviations"} \subseteq DOMAIN Put(i, b)
BY DEF Put, WorkOrderRecord

LEMMA RaisedIsAttention ==
    ASSUME NEW w, "status" \in DOMAIN w, w.request = NoValue, NEW codes, NEW gaps
    PROVE  Raise(w, codes, gaps).status = Attention
BY DEF Raise, RaiseAs

\* Work on a block ends at work, or in attention.
LEMMA BlockStepIsGuarded ==
    ASSUME RecordInv, AskInv, NEW i \in DOMAIN wo.blocks, BlockStep(i)
    PROVE  Guarded
<1>1. wo.status = "EXECUTING" /\ wo \in WorkOrderRecord /\ wo.status # Attention /\ wo.request = NoValue
  <2>1. wo.status = "EXECUTING"
      BY DEF BlockStep, BeginAttempt, BeginMemoryCuration, FinishRun, FailAttempt,
         EnterBlockCheckpoint, RecordTests, ApproveCode, ApproveMemory, FinishMemoryCuration,
         ProveBlockCheckpoint, In
  <2> QED BY <2>1, WorkOrderFacts DEF Attention
<1>0. past \in PastRecord /\ Remembers(past) /\ \A p : Remembers(Wrote(p))
    BY WorkOrderFacts DEF Remembers, PastRecord, Wrote
<1>2. ASSUME NEW op, NEW new, NEW remember, Store(op, new, remember), Remembers(remember),
             new.status \in {Attention, "EXECUTING"}
      PROVE  Guarded
  <2>1. Attention \notin {"EXECUTING", "FINAL_VERIFICATION"}
      BY DEF Attention
  <2> QED BY <1>1, <1>2, <2>1, QuietStore
<1>3. \A b : Put(i, b).status = "EXECUTING"
    BY <1>1, PutKeepsStatus
<1>4. ASSUME NEW b, NEW codes, NEW gaps
      PROVE  Raise(Put(i, b), codes, gaps).status = Attention /\ Raise(wo, codes, gaps).status = Attention
  <2>1. "status" \in DOMAIN Put(i, b) /\ Put(i, b).request = NoValue
      BY <1>1, PutKeepsStatus
  <2>2. "status" \in DOMAIN wo
      BY <1>1 DEF WorkOrderRecord
  <2> QED BY <1>1, <2>1, <2>2, RaisedIsAttention
<1>5. ASSUME NEW op, NEW gaps, NEW b, NEW remember, WriteUnlessGaps(op, gaps, Put(i, b), remember),
             Remembers(remember)
      PROVE  Guarded
    BY <1>0, <1>1, <1>3, <1>5, QuietGaps
<1> HIDE DEF Store, Put, WriteUnlessGaps, Guarded, Remembers, Wrote
<1>6. ASSUME NEW p \in Profile, BeginAttempt(i, p) \/ BeginMemoryCuration(i, p)
      PROVE  Guarded
  <2>1. CASE BeginAttempt(i, p)
      BY <1>0, <1>2, <1>4, <1>5, <2>1 DEF BeginAttempt, Write, Exhausted
  <2>2. CASE BeginMemoryCuration(i, p)
      BY <1>0, <1>2, <1>4, <1>5, <2>2 DEF BeginMemoryCuration, Write, Exhausted
  <2> QED BY <1>6, <2>1, <2>2
<1>7. ASSUME FinishRun(i) \/ EnterBlockCheckpoint(i)
      PROVE  Guarded
    BY <1>0, <1>2, <1>3, <1>7 DEF FinishRun, EnterBlockCheckpoint, Write
<1>8. ASSUME FailAttempt(i)
      PROVE  Guarded
    BY <1>0, <1>2, <1>3, <1>4, <1>8 DEF FailAttempt, Write, Exhausted
<1>9. ASSUME NEW result, RecordTests(i, result)
      PROVE  Guarded
    BY <1>0, <1>2, <1>3, <1>9 DEF RecordTests, Write
<1>10. ASSUME NEW fresh, ApproveCode(i, fresh) \/ ApproveMemory(i, fresh)
       PROVE  Guarded
    BY <1>0, <1>5, <1>10 DEF ApproveCode, ApproveMemory
<1>11. ASSUME NEW change, FinishMemoryCuration(i, change)
       PROVE  Guarded
  <2>1. PICK b : \/ Store("finish_memory_curation", Put(i, b), past)
                 \/ Store("finish_memory_curation",
                          Deviating(Put(i, b), Len(wo.deviations) + 1, wo.blocks[i].spec.id, TRUE), past)
    <3> HIDE DEF Deviating
    <3> QED BY <1>11 DEF FinishMemoryCuration, Write
  <2>2. Deviating(Put(i, b), Len(wo.deviations) + 1, wo.blocks[i].spec.id, TRUE).status = Attention
    <3>1. PICK w : w = [Put(i, b) EXCEPT !.deviations =
                           Append(@, [id |-> Len(wo.deviations) + 1, block |-> wo.blocks[i].spec.id,
                                      approved |-> FALSE])]
        OBVIOUS
    <3>2. "status" \in DOMAIN w /\ w.request = NoValue
        BY <1>1, <3>1, PutKeepsStatus
    <3> QED BY <3>1, <3>2, RaisedIsAttention DEF Deviating
  <2> HIDE DEF Deviating
  <2> QED BY <1>0, <1>2, <1>3, <2>1, <2>2
<1>12. ASSUME NEW proves, ProveBlockCheckpoint(i, proves)
       PROVE  Guarded
    BY <1>0, <1>2, <1>3, <1>4, <1>12 DEF ProveBlockCheckpoint, Write
<1> QED BY <1>6, <1>7, <1>8, <1>9, <1>10, <1>11, <1>12 DEF BlockStep

LEMMA StepsAreGuarded ==
    ASSUME IInv, AskInv, [Next]_vars
    PROVE  Guarded
<1>1. RecordInv /\ wo \in WorkOrderRecord
    BY WorkOrderFacts DEF IInv
<1>2. ASSUME UNCHANGED <<wo, past>>
      PROVE  Guarded
    BY <1>2 DEF Guarded, NoDrift, Settled, Attention, AttentionSources, AskInv, Answers, OpenBlocking
<1>3. wo.status \notin {Attention, "DEFERRED"} => wo.request = NoValue
    BY <1>1, WorkOrderFacts
<1>4. "status" \in DOMAIN wo
    BY <1>1 DEF WorkOrderRecord
<1>5. /\ past \in PastRecord /\ Remembers(past) /\ wo.request \in Request \cup {NoValue}
      /\ wo.status = Attention => wo.request # NoValue
    BY <1>1, WorkOrderFacts DEF Remembers, PastRecord, WorkOrderRecord, Standing
<1> HIDE DEF Guarded, Remembers
<1>6. CASE UNCHANGED vars \/ AcceptedMoves \/ ObserveAccepted \/ ApproveNoPlan
    BY <1>2, <1>6 DEF vars, AcceptedMoves, ObserveAccepted, ApproveNoPlan
<1>7. CASE StartIntake
  <2>1. Store("start_intake", [wo EXCEPT !.status = "CONTEXT_INTAKE", !.baseline = observed], past)
        /\ wo.status = "DRAFT" /\ wo.request = NoValue
      BY <1>3, <1>7 DEF StartIntake, Write, Attention
  <2>2. [wo EXCEPT !.status = "CONTEXT_INTAKE", !.baseline = observed].status = "CONTEXT_INTAKE"
      BY <1>1 DEF WorkOrderRecord
  <2> HIDE DEF Store
  <2> QED BY <1>5, <2>1, <2>2, QuietStore DEF Attention
<1>8. CASE ProposePlan
  <2>1. PICK pl \in Plan :
          /\ Store("propose_plan",
                   [wo EXCEPT !.status = "PLAN_PROPOSED", !.plans = Append(@, pl)], past)
          /\ wo.request = NoValue
      BY <1>3, <1>8 DEF ProposePlan, Write, Attention
  <2>2. [wo EXCEPT !.status = "PLAN_PROPOSED", !.plans = Append(@, pl)].status = "PLAN_PROPOSED"
      BY <1>1 DEF WorkOrderRecord
  <2> HIDE DEF Store
  <2> QED BY <1>5, <2>1, <2>2, QuietStore DEF AttentionSources
<1>9. CASE ApprovePlan
  <2>1. PICK new : new = Approved(wo)
      OBVIOUS
  <2>2. new.status = "PLAN_APPROVED" /\ new \in WorkOrderRecord
      BY <1>1, <1>9, <2>1, ApprovedIsSound DEF Sound, Shaped
  <2>3. PICK codes, gaps : Raise(new, codes, gaps) = Raise(new, {"INDEPENDENCE_UNAVAILABLE"}, PlanGaps(new))
      OBVIOUS
  <2>4. PICK quota : LET remember == [past EXCEPT !.quota = quota] IN
           Store("approve_plan", new, remember) \/ Store("approve_plan", Raise(new, codes, gaps), remember)
    <3> HIDE DEF Store, Raise, PlanGaps, Approved
    <3> QED BY <1>9, <2>1, <2>3 DEF ApprovePlan, WriteAnd
  <2>5. wo.status # Attention /\ Raise(new, codes, gaps).status \in {Attention, "PLAN_APPROVED"}
      BY <1>9, <2>2, RaiseKeepsStatus DEF ApprovePlan, Attention
  <2>6. Remembers([past EXCEPT !.quota = quota]) /\ wo.request = NoValue
      BY <1>3, <1>9, <1>5 DEF Remembers, ApprovePlan, Attention
  <2> HIDE DEF Store, Raise
  <2> QED BY <2>2, <2>4, <2>5, <2>6, QuietStore DEF Attention
<1>10. CASE RejectPlan
  <2>1. Store("reject_plan", [wo EXCEPT !.status = "ABORTED"], past) /\ wo.request = NoValue
      BY <1>3, <1>10 DEF RejectPlan, Write, Attention
  <2>2. [wo EXCEPT !.status = "ABORTED"].status = "ABORTED"
      BY <1>1 DEF WorkOrderRecord
  <2> HIDE DEF Store
  <2> QED BY <1>5, <2>1, <2>2, QuietStore DEF AttentionSources
<1>11. CASE AttachCandidate \/ StartExecution \/ EnterFinalVerification
  <2>1. wo.status # Attention /\ wo.request = NoValue
      BY <1>3, <1>11 DEF AttachCandidate, StartExecution, EnterFinalVerification, Attention
  <2>2. PICK op, after :
          /\ WriteUnlessDrift(op, wo, after, past)
          /\ after.baseline = wo.baseline /\ after.request = NoValue
    <3>1. /\ [wo EXCEPT !.candidate = TRUE].baseline = wo.baseline
          /\ [wo EXCEPT !.candidate = TRUE].request = NoValue
          /\ \A s : [wo EXCEPT !.status = s].baseline = wo.baseline
          /\ \A s : [wo EXCEPT !.status = s].request = NoValue
        BY <1>1, <2>1 DEF WorkOrderRecord
    <3> HIDE DEF WriteUnlessDrift
    <3>2. CASE AttachCandidate
        BY <3>1, <3>2 DEF AttachCandidate
    <3>3. CASE StartExecution
        BY <3>1, <3>3 DEF StartExecution
    <3>4. CASE EnterFinalVerification
      <4> PICK after : after = [wo EXCEPT !.status = "FINAL_VERIFICATION"]
          OBVIOUS
      <4>1. WriteUnlessDrift("enter_final_verification", wo, after, past)
          BY <3>4 DEF EnterFinalVerification
      <4> QED BY <3>1, <4>1
    <3> QED BY <1>11, <3>2, <3>3, <3>4
  <2> QED BY <1>1, <1>5, <2>1, <2>2, GuardedStore
<1>12. ASSUME NEW fresh, NEW original, RecordFinalAudit(fresh, original)
       PROVE  Guarded
  <2>1. PICK audit, gaps :
          WriteUnlessGaps("record_final_audit", gaps, [wo EXCEPT !.finalAudit = audit],
                          [past EXCEPT !.afterAudit = FALSE])
    <3> HIDE DEF WriteUnlessGaps
    <3> QED BY <1>12 DEF RecordFinalAudit
  <2>2. /\ [wo EXCEPT !.finalAudit = audit].status = wo.status /\ wo.status # Attention
        /\ wo.request = NoValue
      BY <1>1, <1>3, <1>12 DEF RecordFinalAudit, WorkOrderRecord, Attention
  <2>3. Remembers([past EXCEPT !.afterAudit = FALSE])
      BY <1>5 DEF Remembers
  <2> HIDE DEF WriteUnlessGaps
  <2> QED BY <1>1, <1>5, <2>1, <2>2, <2>3, QuietGaps
<1>13. ASSUME NEW promoted, RecordKernelOutcome(promoted)
       PROVE  Guarded
  <2>1. wo.status = "FINAL_VERIFICATION" /\ wo.status # Attention /\ wo.request = NoValue
      BY <1>3, <1>13 DEF RecordKernelOutcome, Attention
  <2>2. PICK r : r = Raise(wo, {"PROMOTION_REFUSED"}, {})
      OBVIOUS
  <2>3. r.status = Attention /\ "status" \in DOMAIN r
      BY <1>1, <1>4, <2>1, <2>2, RaisedIsAttention DEF Raise, RaiseAs, WorkOrderRecord
  <2>4. /\ [r EXCEPT !.outcome = "refused"].status = Attention
        /\ [wo EXCEPT !.status = "PROMOTED", !.outcome = "promoted"].status = "PROMOTED"
      BY <1>1, <2>3 DEF WorkOrderRecord
  <2>5. \/ Store("record_kernel_outcome", [wo EXCEPT !.status = "PROMOTED", !.outcome = "promoted"], past)
        \/ Store("record_kernel_outcome", [r EXCEPT !.outcome = "refused"], past)
    <3> HIDE DEF Store, Raise
    <3> QED BY <1>13, <2>2 DEF RecordKernelOutcome, Write
  <2>6. Attention \notin {"EXECUTING", "FINAL_VERIFICATION"}
      BY DEF Attention
  <2> HIDE DEF Store
  <2> QED BY <1>5, <2>1, <2>4, <2>5, <2>6, QuietStore
<1>14. CASE RaiseAttention
  <2>1. PICK id, codes, warnings :
          Store("raise_attention", RaiseAs(wo, id, codes, warnings, {}), Again(wo, past, codes, warnings))
    <3> HIDE DEF Store, RaiseAs, Again
    <3> QED BY <1>14 DEF RaiseAttention, WriteAnd
  <2>2. RaiseAs(wo, id, codes, warnings, {}).status \in {Attention, wo.status}
      BY <1>1, RaiseKeepsStatus
  <2>3. wo.request = NoValue
        \/ Answers(RaiseAs(wo, id, codes, warnings, {}), Again(wo, past, codes, warnings))
    <3>1. "request" \in DOMAIN wo
        BY <1>1 DEF WorkOrderRecord
    <3> HIDE DEF RaiseAs, Again, Answers
    <3> QED BY <1>5, <3>1, RaiseAnswers DEF AskInv
  <2>4. Remembers(Again(wo, past, codes, warnings))
      BY <1>5, AgainRemembers
  <2> HIDE DEF Store, RaiseAs, Again, Answers
  <2> QED BY <2>1, <2>2, <2>3, <2>4, QuietStore DEF Attention, AttentionSources
<1>15. CASE RecordDeviation
  <2>1. PICK id, material :
          Store("record_deviation", Deviating(wo, id, NoValue, material),
                IF material THEN Again(wo, past, {"MATERIAL_DEVIATION"}, {}) ELSE past)
    <3> HIDE DEF Store, Deviating, Again
    <3> QED BY <1>15 DEF RecordDeviation, WriteAnd
  <2> PICK w : w = [wo EXCEPT !.deviations =
                       Append(@, [id |-> id, block |-> NoValue, approved |-> FALSE])]
      OBVIOUS
  <2>2. /\ w.status = wo.status /\ w.request = wo.request
        /\ "status" \in DOMAIN w /\ "request" \in DOMAIN w
      BY <1>1 DEF WorkOrderRecord
  <2>3. Answers(w, past)
      BY <2>2 DEF AskInv, Answers, OpenBlocking
  <2> PICK new : new = Deviating(wo, id, NoValue, material)
      OBVIOUS
  <2> PICK p : p = IF material THEN Again(wo, past, {"MATERIAL_DEVIATION"}, {}) ELSE past
      OBVIOUS
  <2>4. CASE ~material
    <3>1. new = w /\ p = past
        BY <2>4 DEF Deviating
    <3> QED BY <1>5, <2>1, <2>2, <2>3, <3>1, QuietStore DEF Attention, AttentionSources
  <2>5. CASE material
    <3>1. new = RaiseAs(w, w.attention + 1, {"MATERIAL_DEVIATION"}, {}, {})
        BY <2>5 DEF Deviating, Raise
    <3>2. p = Again(w, past, {"MATERIAL_DEVIATION"}, {})
        BY <2>2, <2>5 DEF Again
    <3>3. new.status \in {Attention, wo.status}
        BY <2>2, <3>1 DEF RaiseAs
    <3>4. wo.request = NoValue \/ Answers(new, p)
      <4> HIDE DEF RaiseAs, Again, Answers
      <4> QED BY <1>5, <2>2, <2>3, <3>1, <3>2, RaiseAnswers
    <3>5. Remembers(p)
        BY <1>5, <3>2, AgainRemembers
    <3> HIDE DEF Store, Answers
    <3> QED BY <2>1, <3>3, <3>4, <3>5, QuietStore DEF Attention, AttentionSources
  <2> QED BY <2>4, <2>5
<1> QED BY <1>1, <1>6, <1>7, <1>8, <1>9, <1>10, <1>11, <1>12, <1>13, <1>14, <1>15, DecideIsGuarded,
        ResumeDeferredIsGuarded, BlockStepIsGuarded DEF Next

\* What a request was asked and not told since is still open in it.
LEMMA AskedInv == Spec => [](IInv /\ AskInv)
<1>1. Init => AskInv
  <2> SUFFICES ASSUME Init PROVE AskInv
      OBVIOUS
  <2>1. wo.request = NoValue
      BY DEF Init, Draft
  <2> QED BY <2>1 DEF AskInv, Answers
<1>2. IInv /\ AskInv /\ [Next]_vars => IInv' /\ AskInv'
    BY NextInv, StepsAreGuarded DEF Guarded
<1> QED BY <1>1, <1>2, InitInv, PTL DEF Spec

\* Work and final verification are entered only on the baseline that was last seen accepted,
\* whichever operation enters them.
THEOREM DriftIsNoticed == Spec => DriftIsNeverAbsorbed
<1>1. IInv /\ AskInv /\ [Next]_vars => NoDrift
    BY StepsAreGuarded DEF Guarded
<1>2. Spec => [][NoDrift]_vars
    BY <1>1, AskedInv, PTL DEF Spec
<1>3. NoDrift => ( /\ wo'.status \in {"EXECUTING", "FINAL_VERIFICATION"}
                   /\ wo.status # wo'.status
                   => observed = wo'.baseline )
    BY DEF NoDrift
<1> QED BY <1>2, <1>3, PTL DEF DriftIsNeverAbsorbed

\* For any course of raises, waivers and amendments: attention is left for the state it was
\* raised in only when every reason was answered after it was last raised as blocking, but
\* for one waived before in the request and one first raised as a warning.
THEOREM ResumeIsSettled == Spec => ResumeNeedsResolution
<1>1. IInv /\ AskInv /\ [Next]_vars => Settled
    BY StepsAreGuarded DEF Guarded
<1>2. Spec => [][Settled]_vars
    BY <1>1, AskedInv, PTL DEF Spec
<1>3. Settled => ( /\ wo.status = Attention
                   /\ wo'.status \in AttentionSources
                   => past'.unanswered = {} )
    BY DEF Settled
<1> QED BY <1>2, <1>3, PTL DEF ResumeNeedsResolution
=============================================================================
