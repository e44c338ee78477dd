------------------------- MODULE ConfirmFlowProofs ---------------------------
(***************************************************************************)
(* The destructive jobs of the console implement the promise of their      *)
(* guard (module Approval), and do what was approved, for any number of    *)
(* submissions, pages, restores on offer and changes of the facts.         *)
(***************************************************************************)
EXTENDS ConfirmFlow, FiniteSetTheorems, SequenceTheorems, TLAPS

\* The pages whose submission has passed the gate and has no child yet, and the
\* pages that have a child.
Passing == {submit[s].page : s \in {t \in Submits : submit[t].step \in {"audit", "spawn"}}}
Launched == {children[i].page : i \in DOMAIN children}

\* The types, and what the arithmetic of a prune's plan needs.
Shape ==
    /\ ConfirmTypeOK
    /\ facts.newest >= 1
    /\ Len(pages) <= MaxPages

\* A handler at work is about a page that was drawn.
Served ==
    /\ \A s \in Submits : submit[s].step \notin {"idle", "done"} => submit[s].page \in DOMAIN pages
    /\ Launched \subseteq DOMAIN pages

\* A page has its token, or one submission past the gate, or one child.
UsedOnce ==
    /\ tokens \cap (Passing \cup Launched) = {}
    /\ Passing \cap Launched = {}
    /\ \A s, t \in Submits :
          /\ submit[s].step \in {"audit", "spawn"} /\ submit[t].step \in {"audit", "spawn"}
          /\ submit[s].page = submit[t].page
          => s = t
    /\ \A i, j \in DOMAIN children : children[i].page = children[j].page => i = j

ConfirmInv == Shape /\ Served /\ UsedOnce

\* The steps of a handler, but for the two that move an approval on.
HandlerStep(s) ==
    \/ \E p \in DOMAIN pages, allow, name \in BOOLEAN : SubmitPage(s, p, allow, name)
    \/ DryRunFails(s) \/ PlanChanged(s) \/ PlanHolds(s) \/ GateRefuses(s)
    \/ AuditFails(s) \/ AuditGate(s) \/ DestructiveSpawnFails(s) \/ RecordFails(s)
    \/ StartRestoreJob(s) \/ StartPruneJob(s) \/ StartMigrateJob(s)

\* What all steps but these two do to the approvals: new pages come with their
\* tokens, tokens may go, and nothing passes the gate or gets a child.
Quiet ==
    /\ DOMAIN pages \subseteq DOMAIN pages'
    /\ tokens' \subseteq tokens \cup (DOMAIN pages' \ DOMAIN pages)
    /\ DOMAIN pages' \ DOMAIN pages \subseteq tokens'
    /\ DOMAIN children' = DOMAIN children
    /\ \A i \in DOMAIN children : children'[i].page = children[i].page
    /\ \A s \in Submits :
          /\ submit'[s].step \in {"audit", "spawn"} =>
                submit[s].step \in {"audit", "spawn"} /\ submit'[s].page = submit[s].page
          /\ submit'[s].step \notin {"idle", "done"} => submit'[s].page \in DOMAIN pages'

WorldStep == ChangeWorld \/ ConfirmTick \/ ConsoleRestart \/ \E f \in Forms : PlanPage(f)

ChildStep(i) == ChildRuns(i) \/ CollectChild(i)

-----------------------------------------------------------------------------
(* Types *)

\* A dry run of any form gives a plan.
LEMMA DryRunType ==
  ASSUME facts \in Worlds, facts.newest >= 1, NEW f \in Forms
  PROVE  DryRun(f) \in Plans
<1>1. CASE f \in RestoreForms
  BY <1>1, ConfirmAssumption DEF RestoreForms, DryRun, RestorePlan, Worlds, Plans
<1>2. CASE f \in PruneForms
  BY <1>2 DEF PruneForms, DryRun, PrunePlan, Worlds, Plans
<1>3. CASE f \in MigrateForms
  BY <1>3 DEF MigrateForms, DryRun, MigratePlan, Worlds, Plans
<1>. QED
  BY <1>1, <1>2, <1>3 DEF Forms

\* A guard answers yes or no.
LEMMA ProceedsType ==
  ASSUME NEW f \in Forms, NEW c \in DestructiveChildren, NEW plan \in Plans
  PROVE  Proceeds(f, Args(f, c.allow), plan) \in BOOLEAN
<1>. DEFINE args == Args(f, c.allow)
<1>1. CASE f \in RestoreForms
  <2>1. Proceeds(f, args, plan) = decide_guard(args, plan)
    BY <1>1 DEF RestoreForms, Proceeds
  <2>. QED
    BY <2>1 DEF decide_guard
<1>2. CASE f \in PruneForms
  <2>1. Proceeds(f, args, plan) = decide_approval(args, plan)
    BY <1>2 DEF PruneForms, Proceeds
  <2>2. args.force = TRUE
    BY <1>2 DEF PruneForms, Args, PruneArgs
  <2>. QED
    BY <2>1, <2>2 DEF decide_approval
<1>3. CASE f \in MigrateForms
  <2>1. Proceeds(f, args, plan) = migrate_guard(args, plan)
    BY <1>3 DEF MigrateForms, Proceeds
  <2>. QED
    BY <2>1 DEF migrate_guard
<1>. QED
  BY <1>1, <1>2, <1>3 DEF Forms

\* A page is drawn with a token of its own, or not at all.
LEMMA RenderPlanType ==
  ASSUME Shape, NEW f \in Forms, NEW plan \in Plans, NEW kept \in SUBSET tokens,
         RenderPlan(f, plan, kept)
  PROVE  /\ pages' \in Seq(DrawnPages)
         /\ Len(pages') <= MaxPages
         /\ DOMAIN pages \subseteq DOMAIN pages'
         /\ tokens' \subseteq DOMAIN pages'
         /\ tokens' = kept \cup (DOMAIN pages' \ DOMAIN pages)
<1>1. pages \in Seq(DrawnPages) /\ tokens \subseteq DOMAIN pages /\ Len(pages) <= MaxPages
  BY DEF Shape, ConfirmTypeOK
<1>2. CASE Len(pages) < MaxPages /\ pages' = Append(pages, [form |-> f, plan |-> plan, issued |-> clock, boot |-> boot])
           /\ tokens' = kept \cup {Len(pages) + 1}
  <2>1. [form |-> f, plan |-> plan, issued |-> clock, boot |-> boot] \in DrawnPages
    BY ConfirmAssumption DEF Shape, ConfirmTypeOK, DrawnPages
  <2>2. pages' \in Seq(DrawnPages) /\ Len(pages') = Len(pages) + 1
    BY <1>1, <1>2, <2>1
  <2>3. DOMAIN pages = 1 .. Len(pages) /\ DOMAIN pages' = 1 .. Len(pages) + 1 /\ Len(pages) \in Nat
    BY <1>1, <2>2
  <2>. QED
    BY <1>1, <1>2, <2>2, <2>3, ConfirmAssumption
<1>3. CASE pages' = pages /\ tokens' = kept
  BY <1>1, <1>3
<1>. QED
  BY <1>2, <1>3 DEF RenderPlan

-----------------------------------------------------------------------------
(* Quiet steps *)

\* The first state.
LEMMA InitConfirmInv == ConfirmInit => ConfirmInv
<1>. SUFFICES ASSUME ConfirmInit PROVE ConfirmInv
  OBVIOUS
<1>1. Shape
  <2>1. facts \in Worlds /\ facts.newest >= 1
    BY DEF ConfirmInit, Worlds
  <2>2. pages = <<>> /\ children = <<>> /\ clock = 0 /\ boot = 0 /\ tokens = {} /\ auditLines = {}
    BY DEF ConfirmInit
  <2>3. submit \in [Submits -> Handlers]
    BY DEF ConfirmInit, IdleSubmit, Handlers
  <2>. QED
    BY <2>1, <2>2, <2>3, ConfirmAssumption DEF Shape, ConfirmTypeOK
<1>2. Served /\ UsedOnce
  BY DEF ConfirmInit, IdleSubmit, Served, UsedOnce, Passing, Launched
<1>. QED
  BY <1>1, <1>2 DEF ConfirmInv

\* A quiet step keeps one use per page.
LEMMA QuietKeeps == Shape /\ Served /\ UsedOnce /\ Quiet => Served' /\ UsedOnce'
<1>. SUFFICES ASSUME Shape, Served, UsedOnce, Quiet PROVE Served' /\ UsedOnce'
  OBVIOUS
<1>1. Launched' = Launched
  BY DEF Quiet, Launched
<1>2. Passing' \subseteq Passing
  BY DEF Quiet, Passing
<1>3. Passing \subseteq DOMAIN pages /\ Launched \subseteq DOMAIN pages
  BY DEF Served, Passing
<1>4. Served'
  BY <1>1, <1>3 DEF Served, Quiet
<1>5. tokens' \cap (Passing' \cup Launched') = {} /\ Passing' \cap Launched' = {}
  BY <1>1, <1>2, <1>3 DEF Quiet, UsedOnce
<1>6. \A s, t \in Submits :
          /\ submit'[s].step \in {"audit", "spawn"} /\ submit'[t].step \in {"audit", "spawn"}
          /\ submit'[s].page = submit'[t].page
          => s = t
  BY DEF Quiet, UsedOnce
<1>7. \A i, j \in DOMAIN children' : children'[i].page = children'[j].page => i = j
  BY DEF Quiet, UsedOnce
<1>. QED
  BY <1>4, <1>5, <1>6, <1>7 DEF UsedOnce

\* Of a page with one use, the life is that use.
StatusIsUse ==
    \A p \in 1 .. MaxPages :
        StatusOf(p) = IF p \in Launched THEN "started"
                      ELSE IF p \in Passing THEN "passed"
                      ELSE IF p \in tokens THEN "open"
                      ELSE IF p \in DOMAIN pages THEN "void" ELSE "none"

\* With one use per page, at most one child is its own.
LEMMA StatusIs == ConfirmInv => StatusIsUse
<1>. SUFFICES ASSUME ConfirmInv, NEW p \in 1 .. MaxPages
              PROVE  StatusOf(p) = IF p \in Launched THEN "started"
                                   ELSE IF p \in Passing THEN "passed"
                                   ELSE IF p \in tokens THEN "open"
                                   ELSE IF p \in DOMAIN pages THEN "void" ELSE "none"
  BY DEF StatusIsUse
<1>. DEFINE Mine == {i \in DOMAIN children : children[i].page = p}
<1>1. CASE p \in Launched
  <2>1. PICK i \in DOMAIN children : children[i].page = p
    BY <1>1 DEF Launched
  <2>2. Mine = {i}
    BY <2>1 DEF ConfirmInv, UsedOnce
  <2>3. Cardinality(Mine) = 1
    BY <2>2, FS_Singleton
  <2>. QED
    BY <1>1, <2>3 DEF StatusOf
<1>2. CASE p \notin Launched
  <2>1. Mine = {}
    BY <1>2 DEF Launched
  <2>2. Cardinality(Mine) = 0
    BY <2>1, FS_EmptySet
  <2>3. p \in Passing <=> \E s \in Submits : submit[s].page = p /\ submit[s].step \in {"audit", "spawn"}
    BY DEF Passing
  <2>. QED
    BY <1>2, <2>2, <2>3 DEF StatusOf
<1>. QED
  BY <1>1, <1>2

\* The same after a step.
LEMMA StatusIsNext == ConfirmInv' => StatusIsUse'
BY StatusIs, PTL

\* A quiet step draws pages and loses approvals, which the promise allows.
LEMMA QuietMoves ==
  ASSUME ConfirmInv, ConfirmInv', Quiet
  PROVE  Promise!ApprovalNext
<1>. DEFINE given == {p \in 1 .. MaxPages : p \in DOMAIN pages' \ DOMAIN pages}
            lost == {p \in 1 .. MaxPages : StatusOf(p) \in {"open", "passed"} /\ StatusOf(p)' = "void"}
<1>1. /\ Launched' = Launched /\ Passing' \subseteq Passing
      /\ Launched \subseteq DOMAIN pages /\ Passing \subseteq DOMAIN pages /\ tokens \subseteq DOMAIN pages
      /\ tokens \cap Passing = {}
  <2>1. Launched' = Launched
    BY DEF Quiet, Launched
  <2>2. Passing' \subseteq Passing
    BY DEF Quiet, Passing
  <2>3. Launched \subseteq DOMAIN pages /\ Passing \subseteq DOMAIN pages
    BY DEF ConfirmInv, Served, Passing
  <2>4. tokens \subseteq DOMAIN pages /\ tokens \cap Passing = {}
    BY DEF ConfirmInv, Shape, ConfirmTypeOK, UsedOnce
  <2>. QED
    BY <2>1, <2>2, <2>3, <2>4
<1>2. StatusIsUse /\ StatusIsUse'
  BY StatusIs, StatusIsNext
<1>3. \A p \in given : StatusOf(p) = "none" /\ StatusOf(p)' = "open"
  BY <1>1, <1>2 DEF Quiet, StatusIsUse
<1>4. \A p \in 1 .. MaxPages : p \notin given /\ p \notin lost => StatusOf(p)' = StatusOf(p)
  BY <1>1, <1>2 DEF Quiet, StatusIsUse
<1>5. \A p \in 1 .. MaxPages : StatusOf(p)' = IF p \in given THEN "open"
                                              ELSE IF p \in lost THEN "void" ELSE StatusOf(p)
  BY <1>3, <1>4
<1>6. Promise!Move(given, lost)
  BY <1>3, <1>5 DEF Promise!Move
<1>. QED
  BY <1>6 DEF Promise!ApprovalNext

-----------------------------------------------------------------------------
(* The steps of the code *)

\* The facts, the clock, a restart and a new plan page.
LEMMA WorldQuiet ==
  ASSUME Shape, Served, WorldStep
  PROVE  Shape' /\ Quiet
<1>. USE DEF Shape, ConfirmTypeOK
<1>0. MaxConfirmTime \in Nat
  BY ConfirmAssumption
<1>1. CASE ChangeWorld
  <2>1. facts' \in Worlds /\ facts'.newest >= 1
    <3>1. /\ [facts EXCEPT !.newest = @ + 1] \in Worlds
          /\ [facts EXCEPT !.newest = @ + 1].newest >= 1
      BY DEF Worlds
    <3>2. /\ [facts EXCEPT !.spaces = @ + 1] \in Worlds
          /\ [facts EXCEPT !.spaces = @ + 1].newest >= 1
      BY DEF Worlds
    <3>3. /\ [facts EXCEPT !.occupied = ~@] \in Worlds
          /\ [facts EXCEPT !.occupied = ~@].newest >= 1
      BY DEF Worlds
    <3>4. /\ [facts EXCEPT !.leftovers = TRUE] \in Worlds
          /\ [facts EXCEPT !.leftovers = TRUE].newest >= 1
      BY DEF Worlds
    <3>5. \E w \in Worlds : w.newest >= 1 /\ facts' = [w EXCEPT !.version = @ + 1]
      BY <1>1, <3>1, <3>2, <3>3, <3>4 DEF ChangeWorld
    <3>. QED
      BY <3>5 DEF Worlds
  <2>2. UNCHANGED <<clock, pages, tokens, submit, children, auditLines, boot>>
    BY <1>1 DEF ChangeWorld
  <2>. QED
    BY <2>1, <2>2 DEF Quiet, Served
<1>2. CASE ConfirmTick
  <2>1. clock' \in 0 .. MaxConfirmTime
    BY <1>0, <1>2 DEF ConfirmTick
  <2>2. UNCHANGED <<facts, pages, tokens, submit, children, auditLines, boot>>
    BY <1>2 DEF ConfirmTick
  <2>. QED
    BY <2>1, <2>2 DEF Quiet, Served
<1>3. CASE ConsoleRestart
  <2>1. /\ submit' \in [Submits -> Handlers]
        /\ \A s \in Submits : submit'[s].step \in {"idle", "done"}
    BY <1>3 DEF ConsoleRestart, IdleSubmit, Handlers
  <2>2. tokens' = {} /\ boot' \in 0 .. 1 /\ UNCHANGED <<facts, clock, pages, children, auditLines>>
    BY <1>3 DEF ConsoleRestart
  <2>. QED
    BY <2>1, <2>2 DEF Quiet
<1>4. CASE \E f \in Forms : PlanPage(f)
  <2>1. PICK f \in Forms : PlanPage(f)
    BY <1>4
  <2>2. RenderPlan(f, DryRun(f), Swept) /\ Swept \subseteq tokens /\ DryRun(f) \in Plans
    BY <2>1, DryRunType DEF PlanPage, Swept
  <2>3. UNCHANGED <<facts, clock, submit, children, auditLines, boot>>
    BY <2>1 DEF PlanPage
  <2>. QED
    BY <2>2, <2>3, RenderPlanType DEF Quiet, Served
<1>. QED
  BY <1>1, <1>2, <1>3, <1>4 DEF WorldStep

\* What is noted of a child leaves its page.
LEMMA ChildEdit ==
  ASSUME children \in Seq(DestructiveChildren), NEW i \in DOMAIN children,
         NEW c \in DestructiveChildren, c.page = children[i].page,
         children' = [children EXCEPT ![i] = c]
  PROVE  /\ children' \in Seq(DestructiveChildren) /\ DOMAIN children' = DOMAIN children
         /\ \A j \in DOMAIN children : children'[j].page = children[j].page
<1>1. i \in 1 .. Len(children)
  OBVIOUS
<1>2. children' \in Seq(DestructiveChildren)
  BY <1>1, ExceptSeq
<1>. QED
  BY <1>2

\* A handler that ends leaves nothing of its submission.
LEMMA DoneQuiet ==
  ASSUME Shape, Served, NEW s \in Submits, Done(s), NEW kept \in SUBSET tokens,
         NEW f \in Forms, NEW plan \in Plans,
         \/ RenderPlan(f, plan, kept)
         \/ UNCHANGED <<pages, tokens>>,
         UNCHANGED <<facts, clock, boot>>, auditLines' = auditLines,
         \/ UNCHANGED children
         \/ \E i \in DOMAIN children : children' = [children EXCEPT ![i].awaited = FALSE]
  PROVE  Shape' /\ Quiet
<1>. USE DEF Shape, ConfirmTypeOK
<1>1. /\ submit' \in [Submits -> Handlers]
      /\ submit'[s].step = "done"
      /\ \A t \in Submits \ {s} : submit'[t] = submit[t]
  BY DEF Done, IdleSubmit, Handlers
<1>2. /\ pages' \in Seq(DrawnPages)
      /\ Len(pages') <= MaxPages
      /\ DOMAIN pages \subseteq DOMAIN pages'
      /\ tokens' \subseteq DOMAIN pages'
      /\ tokens' \subseteq tokens \cup (DOMAIN pages' \ DOMAIN pages)
      /\ DOMAIN pages' \ DOMAIN pages \subseteq tokens'
  <2>1. CASE RenderPlan(f, plan, kept)
    BY <2>1, RenderPlanType
  <2>2. CASE UNCHANGED <<pages, tokens>>
    BY <2>2
  <2>. QED
    BY <2>1, <2>2
<1>3. /\ children' \in Seq(DestructiveChildren) /\ DOMAIN children' = DOMAIN children
      /\ \A i \in DOMAIN children : children'[i].page = children[i].page
  <2>1. CASE UNCHANGED children
    BY <2>1
  <2>2. CASE \E i \in DOMAIN children : children' = [children EXCEPT ![i].awaited = FALSE]
    <3>1. PICK i \in DOMAIN children : children' = [children EXCEPT ![i].awaited = FALSE]
      BY <2>2
    <3>2. children[i] \in DestructiveChildren
      OBVIOUS
    <3>3. /\ [children[i] EXCEPT !.awaited = FALSE] \in DestructiveChildren
          /\ [children[i] EXCEPT !.awaited = FALSE].page = children[i].page
      BY <3>2 DEF DestructiveChildren
    <3>4. children' = [children EXCEPT ![i] = [children[i] EXCEPT !.awaited = FALSE]]
      BY <3>1
    <3>. QED
      BY <3>3, <3>4, ChildEdit
  <2>. QED
    BY <2>1, <2>2
<1>4. Shape'
  BY <1>1, <1>2, <1>3
<1>. QED
  BY <1>1, <1>2, <1>3, <1>4 DEF Quiet, Served

\* A handler between its page and the gate, or after its child was started.
LEMMA HandlerQuiet ==
  ASSUME Shape, Served, NEW s \in Submits, HandlerStep(s)
  PROVE  Shape' /\ Quiet
<1>. USE DEF Shape, ConfirmTypeOK
<1>1. CASE \E p \in DOMAIN pages, allow, name \in BOOLEAN : SubmitPage(s, p, allow, name)
  <2>1. PICK p \in DOMAIN pages, allow, name \in BOOLEAN : SubmitPage(s, p, allow, name)
    BY <1>1
  <2>2. p \in Nat
    OBVIOUS
  <2>3. submit' \in [Submits -> Handlers] /\ submit'[s].step = "recheck" /\ submit'[s].page = p
    BY <2>1, <2>2 DEF SubmitPage, Handlers
  <2>4. \A t \in Submits \ {s} : submit'[t] = submit[t]
    BY <2>1 DEF SubmitPage
  <2>5. UNCHANGED <<facts, clock, pages, tokens, children, auditLines, boot>>
    BY <2>1 DEF SubmitPage
  <2>. QED
    BY <2>3, <2>4, <2>5 DEF Quiet, Served
<1>2. CASE PlanHolds(s)
  <2>1. facts.version \in Nat
    BY DEF Worlds
  <2>2. submit' \in [Submits -> Handlers] /\ submit'[s].step = "gate" /\ submit'[s].page = submit[s].page
    BY <1>2, <2>1 DEF PlanHolds, Handlers
  <2>3. \A t \in Submits \ {s} : submit'[t] = submit[t]
    BY <1>2 DEF PlanHolds
  <2>4. submit[s].page \in DOMAIN pages /\ UNCHANGED <<facts, clock, pages, tokens, children, auditLines, boot>>
    BY <1>2 DEF PlanHolds, Served
  <2>. QED
    BY <2>2, <2>3, <2>4 DEF Quiet, Served
<1>3. CASE AuditGate(s)
  <2>1. submit' \in [Submits -> Handlers] /\ submit'[s].step = "spawn" /\ submit'[s].page = submit[s].page
    BY <1>3 DEF AuditGate, Step, Handlers
  <2>2. \A t \in Submits \ {s} : submit'[t] = submit[t]
    BY <1>3 DEF AuditGate, Step
  <2>3. /\ submit[s].step = "audit" /\ submit[s].page \in DOMAIN pages
        /\ auditLines' = auditLines \cup {submit[s].page}
        /\ UNCHANGED <<facts, clock, pages, tokens, children, boot>>
    BY <1>3 DEF AuditGate, Served
  <2>. QED
    BY <2>1, <2>2, <2>3 DEF Quiet, Served
<1>4. CASE PlanChanged(s) \/ GateRefuses(s) \/ AuditFails(s)
  <2>1. FormOf(s) \in Forms /\ pages[submit[s].page].plan \in Plans
    <3>1. submit[s].page \in DOMAIN pages
      BY <1>4 DEF PlanChanged, GateRefuses, AuditFails, Served
    <3>2. pages[submit[s].page] \in DrawnPages
      BY <3>1
    <3>. QED
      BY <3>2 DEF FormOf, DrawnPages
  <2>2. DryRun(FormOf(s)) \in Plans
    BY <2>1, DryRunType
  <2>3. Swept \subseteq tokens /\ TokenConsumed(s) \subseteq tokens
    BY DEF Swept, TokenConsumed
  <2>4. Done(s) /\ UNCHANGED <<facts, clock, children, auditLines, boot>>
    BY <1>4 DEF PlanChanged, GateRefuses, AuditFails
  <2>5. \/ RenderPlan(FormOf(s), DryRun(FormOf(s)), Swept)
        \/ RenderPlan(FormOf(s), pages[submit[s].page].plan, TokenConsumed(s))
        \/ RenderPlan(FormOf(s), pages[submit[s].page].plan, Swept)
    BY <1>4 DEF PlanChanged, GateRefuses, AuditFails
  <2>. QED
    BY <2>1, <2>2, <2>3, <2>4, <2>5, DoneQuiet
<1>5. CASE \/ DryRunFails(s) \/ DestructiveSpawnFails(s) \/ RecordFails(s)
           \/ StartRestoreJob(s) \/ StartPruneJob(s) \/ StartMigrateJob(s)
  <2>1. Done(s) /\ UNCHANGED <<facts, clock, pages, tokens, auditLines, boot>>
    BY <1>5 DEF DryRunFails, DestructiveSpawnFails, RecordFails, StartRestoreJob, StartPruneJob,
                StartMigrateJob, StartWaiter
  <2>2. \/ UNCHANGED children
        \/ \E i \in DOMAIN children : children' = [children EXCEPT ![i].awaited = FALSE]
    <3>1. CASE RecordFails(s)
      <4>1. children' = [children EXCEPT ![ChildOf(s)].awaited = FALSE]
        BY <3>1 DEF RecordFails
      <4>2. CASE ChildOf(s) \in DOMAIN children
        BY <4>1, <4>2
      <4>3. CASE ChildOf(s) \notin DOMAIN children
        BY <4>1, <4>3
      <4>. QED
        BY <4>2, <4>3
    <3>. QED
      BY <1>5, <3>1 DEF DryRunFails, DestructiveSpawnFails, StartRestoreJob, StartPruneJob,
                        StartMigrateJob, StartWaiter
  <2>3. PICK f \in Forms : TRUE
    BY DEF Forms, PruneForms
  <2>4. NoPlan \in Plans
    BY DEF NoPlan, Plans
  <2>. QED
    BY <2>1, <2>2, <2>3, <2>4, DoneQuiet
<1>. QED
  BY <1>1, <1>2, <1>3, <1>4, <1>5 DEF HandlerStep

\* A child that runs or is collected.
LEMMA ChildQuiet ==
  ASSUME Shape, Served, NEW i \in DOMAIN children, ChildStep(i)
  PROVE  Shape' /\ Quiet
<1>. USE DEF Shape, ConfirmTypeOK
<1>1. children[i] \in DestructiveChildren
  OBVIOUS
<1>2. UNCHANGED <<facts, clock, pages, tokens, submit, auditLines, boot>>
  BY DEF ChildStep, ChildRuns, CollectChild
<1>3. \E c \in DestructiveChildren :
         c.page = children[i].page /\ children' = [children EXCEPT ![i] = c]
  <2>1. CASE CollectChild(i)
    <3>1. children' = [children EXCEPT ![i] = [children[i] EXCEPT !.state = "collected"]]
      BY <2>1 DEF CollectChild
    <3>2. /\ [children[i] EXCEPT !.state = "collected"] \in DestructiveChildren
          /\ [children[i] EXCEPT !.state = "collected"].page = children[i].page
      BY <1>1 DEF DestructiveChildren
    <3>. QED
      BY <3>1, <3>2
  <2>2. CASE ChildRuns(i)
    <3>. DEFINE f == pages[children[i].page].form
                plan == DryRun(f)
                did == Proceeds(f, Args(f, children[i].allow), plan)
                c == [children[i] EXCEPT !.state = "exited", !.decided = facts.version,
                                         !.plan = plan, !.did = did]
    <3>1. children[i].page \in DOMAIN pages
      BY DEF Served, Launched
    <3>2. f \in Forms
      <4>1. pages[children[i].page] \in DrawnPages
        BY <3>1
      <4>. QED
        BY <4>1 DEF DrawnPages
    <3>3. plan \in Plans
      BY <3>2, DryRunType
    <3>4. did \in BOOLEAN
      BY <3>2, <3>3, <1>1, ProceedsType
    <3>5. facts.version \in Nat
      BY DEF Worlds
    <3>6. c \in DestructiveChildren /\ c.page = children[i].page
      <4>. HIDE DEF plan, did
      <4>. QED
        BY <1>1, <3>3, <3>4, <3>5 DEF DestructiveChildren
    <3>7. children' = [children EXCEPT ![i] = c]
      BY <2>2 DEF ChildRuns
    <3>. QED
      BY <3>6, <3>7
  <2>. QED
    BY <2>1, <2>2 DEF ChildStep
<1>4. /\ children' \in Seq(DestructiveChildren) /\ DOMAIN children' = DOMAIN children
      /\ \A j \in DOMAIN children : children'[j].page = children[j].page
  BY <1>3, ChildEdit
<1>. QED
  BY <1>2, <1>4 DEF Quiet, Served

-----------------------------------------------------------------------------
(* The two steps that use an approval *)

\* A token that passes the gate is taken out of the table.
LEMMA GateUses ==
  ASSUME ConfirmInv, NEW s \in Submits, GatePasses(s)
  PROVE  ConfirmInv'
<1>. DEFINE p == submit[s].page
<1>1. Shape'
  <2>1. clock \in Nat
    BY ConfirmAssumption DEF ConfirmInv, Shape, ConfirmTypeOK
  <2>2. submit' \in [Submits -> Handlers]
    BY <2>1 DEF ConfirmInv, Shape, ConfirmTypeOK, GatePasses, Handlers
  <2>3. tokens' \subseteq tokens /\ UNCHANGED <<facts, clock, pages, children, auditLines, boot>>
    BY DEF GatePasses, TokenConsumed, Swept
  <2>. QED
    BY <2>2, <2>3 DEF ConfirmInv, Shape, ConfirmTypeOK
<1>2. /\ p \in tokens /\ tokens' \subseteq tokens \ {p}
      /\ UNCHANGED <<pages, children>>
      /\ submit[s].step = "gate"
  BY DEF GatePasses, Confirmed, TokenConsumed, Swept
<1>3. /\ submit'[s].step = "audit" /\ submit'[s].page = p
      /\ \A t \in Submits \ {s} : submit'[t] = submit[t]
  BY DEF ConfirmInv, Shape, ConfirmTypeOK, GatePasses, Handlers
<1>4. Served'
  BY <1>2, <1>3 DEF ConfirmInv, Served, Launched
<1>5. Passing' = Passing \cup {p} /\ Launched' = Launched
  BY <1>2, <1>3 DEF Passing, Launched
<1>6. UsedOnce'
  <2>1. p \notin Passing /\ p \notin Launched
    BY <1>2 DEF ConfirmInv, UsedOnce
  <2>2. tokens' \cap (Passing' \cup Launched') = {} /\ Passing' \cap Launched' = {}
    BY <1>2, <1>5, <2>1 DEF ConfirmInv, UsedOnce
  <2>3. \A t \in Submits : submit[t].step \in {"audit", "spawn"} => submit[t].page # p
    BY <2>1 DEF Passing
  <2>4. \A t, u \in Submits :
          /\ submit'[t].step \in {"audit", "spawn"} /\ submit'[u].step \in {"audit", "spawn"}
          /\ submit'[t].page = submit'[u].page
          => t = u
    BY <1>3, <2>3 DEF ConfirmInv, UsedOnce
  <2>. QED
    BY <1>2, <2>2, <2>4 DEF ConfirmInv, UsedOnce
<1>. QED
  BY <1>1, <1>4, <1>6 DEF ConfirmInv

\* A submission past the gate gets its child, and leaves the gate behind.
LEMMA SpawnUses ==
  ASSUME ConfirmInv, NEW s \in Submits, SpawnDestructive(s)
  PROVE  /\ ConfirmInv'
         /\ Launched' = Launched \cup {submit[s].page}
         /\ Passing' = Passing \ {submit[s].page}
<1>. DEFINE p == submit[s].page
            c == [page |-> p, allow |-> submit[s].allow, state |-> "started",
                  awaited |-> TRUE, gatedAt |-> submit[s].gatedAt, checked |-> submit[s].version,
                  decided |-> 0, boot |-> boot, plan |-> NoPlan, did |-> FALSE]
<1>1. /\ submit \in [Submits -> Handlers] /\ children \in Seq(DestructiveChildren)
      /\ pages \in Seq(DrawnPages) /\ boot \in Nat
  BY DEF ConfirmInv, Shape, ConfirmTypeOK
<1>2. children' = Append(children, c) /\ submit[s].step = "spawn"
  BY DEF SpawnDestructive
<1>3. /\ submit' \in [Submits -> Handlers]
      /\ submit'[s].step = "record" /\ submit'[s].page = p
      /\ \A t \in Submits \ {s} : submit'[t] = submit[t]
  BY <1>1 DEF SpawnDestructive, Step, Handlers
<1>4. UNCHANGED <<facts, clock, pages, tokens, auditLines, boot>>
  BY DEF SpawnDestructive
<1>5. c \in DestructiveChildren /\ c.page = p
  <2>1. submit[s] \in Handlers /\ NoPlan \in Plans
    BY <1>1 DEF NoPlan, Plans
  <2>. QED
    BY <1>1, <2>1 DEF Handlers, DestructiveChildren
<1>6. /\ children' \in Seq(DestructiveChildren)
      /\ DOMAIN children' = DOMAIN children \cup {Len(children) + 1}
      /\ Len(children) + 1 \notin DOMAIN children
      /\ children'[Len(children) + 1] = c
      /\ \A i \in DOMAIN children : children'[i] = children[i]
  <2>. HIDE DEF c
  <2>. QED
    BY <1>1, <1>2, <1>5
<1>7. Shape'
  BY <1>3, <1>4, <1>6 DEF ConfirmInv, Shape, ConfirmTypeOK
<1>8. Launched' = Launched \cup {p}
  BY <1>5, <1>6 DEF Launched
<1>9. p \in Passing /\ p \notin Launched /\ p \notin tokens
  BY <1>2 DEF ConfirmInv, UsedOnce, Passing
<1>10. \A t \in Submits \ {s} : submit[t].step \in {"audit", "spawn"} => submit[t].page # p
  BY <1>2 DEF ConfirmInv, UsedOnce
<1>11. Passing' = Passing \ {p}
  BY <1>2, <1>3, <1>10 DEF Passing
<1>12. Served'
  BY <1>2, <1>3, <1>4, <1>8 DEF ConfirmInv, Served
<1>13. UsedOnce'
  <2>1. tokens' \cap (Passing' \cup Launched') = {} /\ Passing' \cap Launched' = {}
    BY <1>4, <1>8, <1>9, <1>11 DEF ConfirmInv, UsedOnce
  <2>2. \A t, u \in Submits :
          /\ submit'[t].step \in {"audit", "spawn"} /\ submit'[u].step \in {"audit", "spawn"}
          /\ submit'[t].page = submit'[u].page
          => t = u
    BY <1>3 DEF ConfirmInv, UsedOnce
  <2>3. \A i, j \in DOMAIN children' : children'[i].page = children'[j].page => i = j
    <3>1. \A i \in DOMAIN children : children'[i].page # p
      BY <1>6, <1>9 DEF Launched
    <3>. QED
      BY <1>5, <1>6, <3>1 DEF ConfirmInv, UsedOnce
  <2>. QED
    BY <2>1, <2>2, <2>3 DEF UsedOnce
<1>. QED
  BY <1>7, <1>8, <1>11, <1>12, <1>13 DEF ConfirmInv

\* Passing the gate is the abstract step of the same name; the sweep on the way
\* loses the tokens that are too old.
LEMMA GateMoves ==
  ASSUME ConfirmInv, ConfirmInv', NEW s \in Submits, GatePasses(s)
  PROVE  Promise!ApprovalNext
<1>. DEFINE p == submit[s].page
            lost == {q \in 1 .. MaxPages : q \in tokens \ Swept}
<1>1. /\ p \in Swept /\ Swept \subseteq tokens /\ tokens' = Swept \ {p} /\ pages' = pages
      /\ submit[s].step = "gate"
  BY DEF GatePasses, Confirmed, TokenConsumed, Swept
<1>2. Launched' = Launched /\ Passing' = Passing \cup {p}
  <2>1. /\ submit'[s].step = "audit" /\ submit'[s].page = p
        /\ \A t \in Submits \ {s} : submit'[t] = submit[t]
        /\ children' = children
    BY DEF ConfirmInv, Shape, ConfirmTypeOK, GatePasses, Handlers
  <2>. QED
    BY <1>1, <2>1 DEF Passing, Launched
<1>3. /\ tokens \subseteq DOMAIN pages /\ tokens \cap (Passing \cup Launched) = {}
  BY DEF ConfirmInv, Shape, ConfirmTypeOK, UsedOnce
<1>4. StatusIsUse /\ StatusIsUse'
  BY StatusIs, StatusIsNext
<1>5. p \in 1 .. MaxPages
  BY <1>1, <1>3, ConfirmAssumption DEF ConfirmInv, Shape, ConfirmTypeOK
<1>6. /\ StatusOf(p) = "open"
      /\ \A q \in lost : StatusOf(q) = "open"
      /\ \A q \in 1 .. MaxPages : StatusOf(q)' = IF q = p THEN "passed"
                                                 ELSE IF q \in lost THEN "void" ELSE StatusOf(q)
  BY <1>1, <1>2, <1>3, <1>4, <1>5 DEF StatusIsUse
<1>7. Promise!Pass(p, lost)
  BY <1>5, <1>6 DEF Promise!Pass
<1>. QED
  BY <1>5, <1>7 DEF Promise!ApprovalNext

\* Starting the child is the abstract start.
LEMMA SpawnMoves ==
  ASSUME ConfirmInv, ConfirmInv', NEW s \in Submits, SpawnDestructive(s)
  PROVE  Promise!ApprovalNext
<1>. DEFINE p == submit[s].page
<1>1. /\ Launched' = Launched \cup {p} /\ Passing' = Passing \ {p} /\ tokens' = tokens /\ pages' = pages
  BY SpawnUses DEF SpawnDestructive
<1>2. p \in Passing /\ p \notin Launched /\ p \in DOMAIN pages
  BY DEF ConfirmInv, Served, UsedOnce, Passing, SpawnDestructive
<1>3. StatusIsUse /\ StatusIsUse'
  BY StatusIs, StatusIsNext
<1>4. p \in 1 .. MaxPages
  BY <1>2, ConfirmAssumption DEF ConfirmInv, Shape, ConfirmTypeOK
<1>5. /\ StatusOf(p) = "passed"
      /\ \A q \in 1 .. MaxPages : StatusOf(q)' = IF q = p THEN "started" ELSE StatusOf(q)
  BY <1>1, <1>2, <1>3, <1>4 DEF StatusIsUse
<1>6. Promise!Start(p)
  BY <1>4, <1>5 DEF Promise!Start
<1>. QED
  BY <1>4, <1>6 DEF Promise!ApprovalNext

-----------------------------------------------------------------------------
(* The promise is kept *)

\* Every step keeps one use per page.
LEMMA ConfirmInvStep == ConfirmInv /\ [ConfirmNext]_confirmVars => ConfirmInv'
<1>. SUFFICES ASSUME ConfirmInv, [ConfirmNext]_confirmVars PROVE ConfirmInv'
  OBVIOUS
<1>1. ASSUME NEW s \in Submits, GatePasses(s) PROVE ConfirmInv'
  BY <1>1, GateUses
<1>2. ASSUME NEW s \in Submits, SpawnDestructive(s) PROVE ConfirmInv'
  BY <1>2, SpawnUses
<1>3. ASSUME Shape' /\ Quiet PROVE ConfirmInv'
  BY <1>3, QuietKeeps DEF ConfirmInv
<1>4. CASE UNCHANGED confirmVars
  <2>1. Shape'
    BY <1>4 DEF confirmVars, ConfirmInv, Shape, ConfirmTypeOK
  <2>2. Quiet
    BY <1>4 DEF confirmVars, ConfirmInv, Quiet, Served
  <2>. QED
    BY <1>3, <2>1, <2>2
<1>. QED
  BY <1>1, <1>2, <1>3, <1>4, WorldQuiet, HandlerQuiet, ChildQuiet
     DEF ConfirmInv, ConfirmNext, WorldStep, HandlerStep, ChildStep

\* Every step is one the promise allows.
LEMMA PromiseStep ==
  ConfirmInv /\ ConfirmInv' /\ [ConfirmNext]_confirmVars
    => [Promise!ApprovalNext]_[p \in 1 .. MaxPages |-> StatusOf(p)]
<1>. SUFFICES ASSUME ConfirmInv, ConfirmInv', [ConfirmNext]_confirmVars
              PROVE  [Promise!ApprovalNext]_[p \in 1 .. MaxPages |-> StatusOf(p)]
  OBVIOUS
<1>1. ASSUME NEW s \in Submits, GatePasses(s) \/ SpawnDestructive(s) PROVE Promise!ApprovalNext
  BY <1>1, GateMoves, SpawnMoves
<1>2. ASSUME Quiet PROVE Promise!ApprovalNext
  BY <1>2, QuietMoves
<1>3. CASE UNCHANGED confirmVars
  BY <1>3 DEF confirmVars, StatusOf
<1>. QED
  BY <1>1, <1>2, <1>3, WorldQuiet, HandlerQuiet, ChildQuiet
     DEF ConfirmInv, ConfirmNext, WorldStep, HandlerStep, ChildStep

\* A page has its token, one submission past the gate or one child, and never two
\* of them (check_and_consume takes the token out of the table before anything
\* else happens).
THEOREM ConfirmInvariance == ConfirmSpec => []ConfirmInv
BY InitConfirmInv, ConfirmInvStep, PTL DEF ConfirmSpec

\* The console implements the promise of the guard: an approval passes the gate at
\* most once, starts at most one child after that, and never comes back
\* (the head of web/guard.rs).
THEOREM ApprovalImplemented == ConfirmSpec => ImplementsApproval
<1>1. ConfirmInit => Promise!ApprovalInit
  <2>. SUFFICES ASSUME ConfirmInit PROVE Promise!ApprovalInit
    OBVIOUS
  <2>1. ConfirmInv /\ Launched = {} /\ Passing = {} /\ tokens = {} /\ DOMAIN pages = {}
    BY InitConfirmInv DEF ConfirmInit, Launched, Passing, IdleSubmit
  <2>. QED
    BY <2>1, StatusIs DEF StatusIsUse, Promise!ApprovalInit
<1>. QED
  BY <1>1, ConfirmInvariance, PromiseStep, PTL
     DEF ConfirmSpec, ImplementsApproval, Promise!ApprovalSpec

-----------------------------------------------------------------------------
(* What was approved is what is done *)

\* What the dry run of each form prints now.
DryRuns == [f \in Forms |-> DryRun(f)]

\* A plan compared at one version of the facts is that of a dry run for as long as
\* that version lasts.
Holds(version, page, now, runs) ==
    /\ version <= now
    /\ version = now => runs[page.form] = page.plan

\* A submission allows to overwrite only what its page announced, and past the
\* comparison its plan holds.
ApprovedSubmit(h, page, now, runs) ==
    /\ h.step \notin {"idle", "done"} => (h.allow => page.plan.conflicts)
    /\ h.step \in {"gate", "audit", "spawn"} => Holds(h.version, page, now, runs)

\* So does its child, until it makes a plan of its own; what it does then is what
\* RunsAsApproved says.
ApprovedChild(c, page, now, runs) ==
    /\ c.allow => page.plan.conflicts
    /\ c.state = "started" => ~ c.did /\ Holds(c.checked, page, now, runs)
    /\ c.did => /\ c.decided = c.checked => c.plan = page.plan
                /\ page.form.verb # "prune" /\ c.plan.conflicts => c.allow

Approved ==
    /\ \A s \in Submits : submit[s].step \notin {"idle", "done"} =>
           ApprovedSubmit(submit[s], pages[submit[s].page], facts.version, DryRuns)
    /\ \A i \in DOMAIN children :
           ApprovedChild(children[i], pages[children[i].page], facts.version, DryRuns)

\* A page is never drawn anew.
LEMMA PagesKept ==
  ASSUME ConfirmInv, [ConfirmNext]_confirmVars
  PROVE  \A p \in DOMAIN pages : p \in DOMAIN pages' /\ pages'[p] = pages[p]
<1>1. pages \in Seq(DrawnPages)
  BY DEF ConfirmInv, Shape, ConfirmTypeOK
<1>2. ASSUME NEW f, NEW plan, NEW kept, RenderPlan(f, plan, kept)
      PROVE  \A p \in DOMAIN pages : p \in DOMAIN pages' /\ pages'[p] = pages[p]
  <2>. DEFINE page == [form |-> f, plan |-> plan, issued |-> clock, boot |-> boot]
  <2>1. pages' = Append(pages, page) \/ pages' = pages
    BY <1>2 DEF RenderPlan
  <2>. HIDE DEF page
  <2>. QED
    BY <1>1, <2>1
<1>3. CASE pages' = pages
  BY <1>3
<1>4. \/ pages' = pages
      \/ \E f, plan, kept : RenderPlan(f, plan, kept)
  <2>1. CASE \E s \in Submits : PlanChanged(s) \/ GateRefuses(s) \/ AuditFails(s)
    BY <2>1 DEF PlanChanged, GateRefuses, AuditFails
  <2>2. CASE \E f \in Forms : PlanPage(f)
    BY <2>2 DEF PlanPage
  <2>3. CASE \/ ChangeWorld \/ ConfirmTick \/ ConsoleRestart
             \/ \E i \in DOMAIN children : ChildRuns(i) \/ CollectChild(i)
             \/ UNCHANGED confirmVars
    BY <2>3 DEF ChangeWorld, ConfirmTick, ConsoleRestart, ChildRuns, CollectChild, confirmVars
  <2>4. ASSUME NEW s \in Submits,
               \/ \E p \in DOMAIN pages, allow, name \in BOOLEAN : SubmitPage(s, p, allow, name)
               \/ DryRunFails(s) \/ PlanHolds(s) \/ GatePasses(s) \/ AuditGate(s)
        PROVE  pages' = pages
    BY <2>4 DEF SubmitPage, DryRunFails, PlanHolds, GatePasses, AuditGate
  <2>5. ASSUME NEW s \in Submits, DestructiveSpawnFails(s) \/ SpawnDestructive(s) \/ RecordFails(s)
        PROVE  pages' = pages
    <3>1. CASE DestructiveSpawnFails(s)
      BY <3>1 DEF DestructiveSpawnFails
    <3>2. CASE SpawnDestructive(s)
      BY <3>2 DEF SpawnDestructive
    <3>3. CASE RecordFails(s)
      BY <3>3 DEF RecordFails
    <3>. QED
      BY <2>5, <3>1, <3>2, <3>3
  <2>6. ASSUME NEW s \in Submits, StartRestoreJob(s) \/ StartPruneJob(s) \/ StartMigrateJob(s)
        PROVE  pages' = pages
    BY <2>6 DEF StartRestoreJob, StartPruneJob, StartMigrateJob, StartWaiter
  <2>. QED
    BY <2>1, <2>2, <2>3, <2>4, <2>5, <2>6 DEF ConfirmNext
<1>. QED
  BY <1>2, <1>3, <1>4

\* What a child does with the checkbox: a restore overwrites data only with it,
\* and a migration never does.
LEMMA ProceedsAllowed ==
  ASSUME NEW f \in Forms, NEW allow \in BOOLEAN, NEW plan \in Plans,
         f.verb # "prune", plan.conflicts, Proceeds(f, Args(f, allow), plan)
  PROVE  allow
<1>. DEFINE args == Args(f, allow)
<1>0. Proceeds(f, args, plan)
  OBVIOUS
<1>1. CASE f \in RestoreForms
  <2>1. Proceeds(f, args, plan) = decide_guard(args, plan)
    BY <1>1 DEF RestoreForms, Proceeds
  <2>2. args = RestoreArgs(allow)
    BY <1>1 DEF RestoreForms, Args
  <2>3. args.force = allow
    BY <2>2 DEF RestoreArgs
  <2>. HIDE DEF args
  <2>. QED
    BY <1>0, <2>1, <2>3 DEF decide_guard
<1>2. CASE f \in PruneForms
  BY <1>2 DEF PruneForms
<1>3. CASE f \in MigrateForms
  <2>1. Proceeds(f, args, plan) = migrate_guard(args, plan)
    BY <1>3 DEF MigrateForms, Proceeds
  <2>2. args = MigrateArgs(allow)
    BY <1>3 DEF MigrateForms, Args
  <2>3. args.force = FALSE
    BY <2>2 DEF MigrateArgs
  <2>. HIDE DEF args
  <2>. QED
    BY <1>0, <2>1, <2>3 DEF migrate_guard
<1>. QED
  BY <1>1, <1>2, <1>3 DEF Forms

\* Every step keeps what was approved.
LEMMA ApprovedStep ==
  ASSUME ConfirmInv, Approved, [ConfirmNext]_confirmVars
  PROVE  Approved'
<1>t. /\ submit \in [Submits -> Handlers] /\ facts.version \in Nat /\ facts \in Worlds
      /\ \A i \in DOMAIN children : children[i] \in DestructiveChildren
      /\ \A p \in DOMAIN pages : pages[p] \in DrawnPages
  BY DEF ConfirmInv, Shape, ConfirmTypeOK, Worlds
<1>p. \A p \in DOMAIN pages : pages'[p] = pages[p]
  BY PagesKept
<1>s. /\ \A s \in Submits : submit[s].step \notin {"idle", "done"} => submit[s].page \in DOMAIN pages
      /\ \A i \in DOMAIN children : children[i].page \in DOMAIN pages
  BY DEF ConfirmInv, Served, Launched
<1>r. facts' = facts => facts'.version = facts.version /\ DryRuns' = DryRuns
  BY DEF DryRuns, DryRun, RestorePlan, PrunePlan, MigratePlan
<1>d. ASSUME NEW s \in Submits, Done(s)
      PROVE  \A t \in Submits : submit'[t].step = "done" \/ submit'[t] = submit[t]
  BY <1>d, <1>t DEF Done, IdleSubmit
\* The facts, the children and the handlers at work stay.
<1>q. ASSUME facts' = facts, children' = children,
             \A s \in Submits : submit'[s].step \in {"idle", "done"} \/ submit'[s] = submit[s]
      PROVE  Approved'
  BY <1>q, <1>p, <1>s, <1>r DEF Approved
\* The facts and the children stay, one handler moves.
<1>h. ASSUME facts' = facts, children' = children, NEW s \in Submits,
             \A t \in Submits \ {s} : submit'[t] = submit[t],
             submit'[s].page \in DOMAIN pages,
             ApprovedSubmit(submit'[s], pages[submit'[s].page], facts.version, DryRuns)
      PROVE  Approved'
  BY <1>h, <1>p, <1>s, <1>r DEF Approved
<1>1. CASE ChangeWorld
  <2>1. /\ facts'.version = facts.version + 1
        /\ UNCHANGED <<pages, submit, children>>
    <3>1. \A w \in {[facts EXCEPT !.newest = @ + 1], [facts EXCEPT !.spaces = @ + 1],
                    [facts EXCEPT !.occupied = ~@], [facts EXCEPT !.leftovers = TRUE]} :
             w.version = facts.version /\ [w EXCEPT !.version = @ + 1].version = facts.version + 1
      BY <1>t DEF Worlds
    <3>. QED
      BY <1>1, <3>1 DEF ChangeWorld
  <2>2. ASSUME NEW v \in Nat, NEW page, NEW runs, NEW newer, Holds(v, page, facts.version, runs)
        PROVE  Holds(v, page, facts.version + 1, newer)
    BY <1>t, <2>2 DEF Holds
  <2>3. \A s \in Submits : submit[s].version \in Nat
    BY <1>t DEF Handlers
  <2>4. \A i \in DOMAIN children : children[i].checked \in Nat
    BY <1>t DEF DestructiveChildren
  <2>5. ASSUME NEW s \in Submits, submit[s].step \notin {"idle", "done"}
        PROVE  ApprovedSubmit(submit[s], pages[submit[s].page], facts.version + 1, DryRuns')
    BY <2>2, <2>3, <2>5 DEF Approved, ApprovedSubmit
  <2>6. ASSUME NEW i \in DOMAIN children
        PROVE  ApprovedChild(children[i], pages[children[i].page], facts.version + 1, DryRuns')
    BY <2>2, <2>4, <2>6 DEF Approved, ApprovedChild
  <2>. QED
    BY <2>1, <2>5, <2>6 DEF Approved
<1>2. CASE ConfirmTick \/ (\E f \in Forms : PlanPage(f)) \/ UNCHANGED confirmVars
  BY <1>2, <1>q DEF ConfirmTick, PlanPage, confirmVars
<1>3. CASE ConsoleRestart
  <2>1. \A s \in Submits : submit'[s].step \in {"idle", "done"}
    BY <1>3 DEF ConsoleRestart, IdleSubmit
  <2>. QED
    BY <1>3, <1>q, <2>1 DEF ConsoleRestart
<1>4. ASSUME NEW s \in Submits,
             \E p \in DOMAIN pages, allow, name \in BOOLEAN : SubmitPage(s, p, allow, name)
      PROVE  Approved'
  <2>1. PICK p \in DOMAIN pages, allow, name \in BOOLEAN : SubmitPage(s, p, allow, name)
    BY <1>4
  <2>2. /\ submit'[s].step = "recheck" /\ submit'[s].page = p /\ submit'[s].allow = allow
        /\ \A t \in Submits \ {s} : submit'[t] = submit[t]
        /\ allow => pages[p].plan.conflicts
        /\ facts' = facts /\ children' = children
    BY <1>t, <2>1 DEF SubmitPage
  <2>. QED
    BY <1>h, <2>2 DEF ApprovedSubmit
<1>5. ASSUME NEW s \in Submits,
             \/ DryRunFails(s) \/ PlanChanged(s) \/ GateRefuses(s) \/ AuditFails(s)
             \/ DestructiveSpawnFails(s)
             \/ StartRestoreJob(s) \/ StartPruneJob(s) \/ StartMigrateJob(s)
      PROVE  Approved'
  <2>1. Done(s) /\ facts' = facts /\ children' = children
    BY <1>5 DEF DryRunFails, PlanChanged, GateRefuses, AuditFails, DestructiveSpawnFails,
                StartRestoreJob, StartPruneJob, StartMigrateJob, StartWaiter
  <2>. QED
    BY <1>d, <1>q, <2>1
<1>6. ASSUME NEW s \in Submits, PlanHolds(s)
      PROVE  Approved'
  <2>1. /\ submit[s].step = "recheck" /\ facts' = facts /\ children' = children
        /\ submit' = [submit EXCEPT ![s].step = "gate", ![s].version = facts.version]
        /\ DryRun(FormOf(s)) = pages[submit[s].page].plan
    BY <1>6 DEF PlanHolds, FingerprintMatches
  <2>2. /\ submit'[s].step = "gate" /\ submit'[s].version = facts.version
        /\ submit'[s].page = submit[s].page /\ submit'[s].allow = submit[s].allow
        /\ \A t \in Submits \ {s} : submit'[t] = submit[t]
    BY <1>t, <2>1 DEF Handlers
  <2>3. DryRuns[pages[submit[s].page].form] = pages[submit[s].page].plan
    <3>1. pages[submit[s].page].form \in Forms
      BY <1>t, <1>s, <2>1 DEF DrawnPages
    <3>. QED
      BY <2>1, <3>1 DEF DryRuns, FormOf
  <2>4. submit[s].allow => pages[submit[s].page].plan.conflicts
    BY <2>1 DEF Approved, ApprovedSubmit
  <2>. QED
    BY <1>h, <1>s, <1>t, <2>1, <2>2, <2>3, <2>4 DEF ApprovedSubmit, Holds
<1>7. ASSUME NEW s \in Submits, GatePasses(s) \/ AuditGate(s)
      PROVE  Approved'
  <2>1. /\ submit[s].step \in {"gate", "audit"} /\ facts' = facts /\ children' = children
        /\ \/ submit' = [submit EXCEPT ![s].step = "audit", ![s].gatedAt = clock]
           \/ submit' = [submit EXCEPT ![s].step = "spawn"]
    BY <1>7 DEF GatePasses, AuditGate, Step
  <2>2. /\ submit'[s].step \in {"audit", "spawn"} /\ submit'[s].version = submit[s].version
        /\ submit'[s].page = submit[s].page /\ submit'[s].allow = submit[s].allow
        /\ \A t \in Submits \ {s} : submit'[t] = submit[t]
    BY <1>t, <2>1 DEF Handlers
  <2>. QED
    BY <1>h, <1>s, <2>1, <2>2 DEF Approved, ApprovedSubmit
<1>8. ASSUME NEW s \in Submits, SpawnDestructive(s)
      PROVE  Approved'
  <2>. DEFINE c == [page |-> submit[s].page, allow |-> submit[s].allow, state |-> "started",
                    awaited |-> TRUE, gatedAt |-> submit[s].gatedAt, checked |-> submit[s].version,
                    decided |-> 0, boot |-> boot, plan |-> NoPlan, did |-> FALSE]
  <2>1. /\ submit[s].step = "spawn" /\ facts' = facts /\ pages' = pages
        /\ children' = Append(children, c)
        /\ submit' = [submit EXCEPT ![s].step = "record"]
    BY <1>8 DEF SpawnDestructive, Step
  <2>2. /\ submit'[s].step = "record"
        /\ submit'[s].page = submit[s].page /\ submit'[s].allow = submit[s].allow
        /\ \A t \in Submits \ {s} : submit'[t] = submit[t]
    BY <1>t, <2>1 DEF Handlers
  <2>3. ApprovedChild(c, pages[c.page], facts.version, DryRuns) /\ c.page = submit[s].page
    BY <2>1 DEF Approved, ApprovedSubmit, ApprovedChild
  <2>. HIDE DEF c
  <2>4. \A i \in DOMAIN children' :
           children'[i] = c \/ (i \in DOMAIN children /\ children'[i] = children[i])
    <3>1. children \in Seq(DestructiveChildren)
      BY DEF ConfirmInv, Shape, ConfirmTypeOK
    <3>. QED
      BY <2>1, <3>1
  <2>5. ApprovedSubmit(submit'[s], pages[submit'[s].page], facts.version, DryRuns)
    BY <2>1, <2>2 DEF Approved, ApprovedSubmit
  <2>. QED
    BY <1>r, <2>1, <2>2, <2>3, <2>4, <2>5 DEF Approved
<1>9. ASSUME NEW s \in Submits, RecordFails(s)
      PROVE  Approved'
  <2>1. /\ Done(s) /\ facts' = facts /\ pages' = pages
        /\ children' = [children EXCEPT ![ChildOf(s)].awaited = FALSE]
    BY <1>9 DEF RecordFails
  <2>2. ASSUME NEW i \in DOMAIN children
        PROVE  /\ children'[i].page = children[i].page /\ children'[i].allow = children[i].allow
               /\ children'[i].state = children[i].state /\ children'[i].did = children[i].did
               /\ children'[i].checked = children[i].checked
               /\ children'[i].decided = children[i].decided
               /\ children'[i].plan = children[i].plan
    BY <1>t, <2>1 DEF DestructiveChildren
  <2>3. DOMAIN children' = DOMAIN children
    BY <2>1
  <2>4. \A i \in DOMAIN children :
           ApprovedChild(children'[i], pages[children[i].page], facts.version, DryRuns)
    BY <2>2 DEF Approved, ApprovedChild
  <2>. QED
    BY <1>d, <1>r, <2>1, <2>2, <2>3, <2>4 DEF Approved
<1>10. ASSUME NEW i \in DOMAIN children, ChildRuns(i)
       PROVE  Approved'
  <2>. DEFINE f == pages[children[i].page].form
              plan == DryRun(f)
              did == Proceeds(f, Args(f, children[i].allow), plan)
  <2>1. /\ children[i].state = "started" /\ UNCHANGED <<facts, pages, submit>>
        /\ children' = [children EXCEPT ![i] =
              [children[i] EXCEPT !.state = "exited", !.decided = facts.version,
                                  !.plan = plan, !.did = did]]
    BY <1>10 DEF ChildRuns
  <2>2. f \in Forms /\ plan \in Plans /\ plan = DryRuns[f]
    <3>1. f \in Forms
      BY <1>s, <1>t DEF DrawnPages
    <3>2. facts.newest >= 1
      BY DEF ConfirmInv, Shape
    <3>. QED
      BY <1>t, <3>1, <3>2, DryRunType DEF DryRuns
  <2>3. children[i].allow \in BOOLEAN /\ children[i].checked \in Nat
    BY <1>t DEF DestructiveChildren
  <2>4. f.verb # "prune" /\ plan.conflicts /\ did => children[i].allow
    BY <2>2, <2>3, ProceedsAllowed
  <2>. HIDE DEF plan, did
  <2>5. /\ children'[i].page = children[i].page /\ children'[i].allow = children[i].allow
        /\ children'[i].state = "exited" /\ children'[i].did = did
        /\ children'[i].checked = children[i].checked
        /\ children'[i].decided = facts.version /\ children'[i].plan = plan
        /\ DOMAIN children' = DOMAIN children
        /\ \A j \in DOMAIN children \ {i} : children'[j] = children[j]
    BY <1>t, <2>1 DEF DestructiveChildren
  <2>6. Holds(children[i].checked, pages[children[i].page], facts.version, DryRuns)
        /\ (children[i].allow => pages[children[i].page].plan.conflicts)
    BY <2>1 DEF Approved, ApprovedChild
  <2>7. ApprovedChild(children'[i], pages[children[i].page], facts.version, DryRuns)
    BY <2>2, <2>4, <2>5, <2>6 DEF ApprovedChild, Holds
  <2>. QED
    BY <1>r, <2>1, <2>5, <2>7 DEF Approved
<1>11. ASSUME NEW i \in DOMAIN children, CollectChild(i)
       PROVE  Approved'
  <2>1. /\ children[i].state = "exited" /\ UNCHANGED <<facts, pages, submit>>
        /\ children' = [children EXCEPT ![i].state = "collected"]
    BY <1>11 DEF CollectChild
  <2>2. /\ children'[i].page = children[i].page /\ children'[i].allow = children[i].allow
        /\ children'[i].state = "collected" /\ children'[i].did = children[i].did
        /\ children'[i].checked = children[i].checked
        /\ children'[i].decided = children[i].decided /\ children'[i].plan = children[i].plan
        /\ DOMAIN children' = DOMAIN children
        /\ \A j \in DOMAIN children \ {i} : children'[j] = children[j]
    BY <1>t, <2>1 DEF DestructiveChildren
  <2>3. ApprovedChild(children'[i], pages[children[i].page], facts.version, DryRuns)
    BY <2>2 DEF Approved, ApprovedChild
  <2>. QED
    BY <1>r, <2>1, <2>2, <2>3 DEF Approved
<1>. QED
  BY <1>1, <1>2, <1>3, <1>4, <1>5, <1>6, <1>7, <1>8, <1>9, <1>10, <1>11 DEF ConfirmNext

\* What a child does is what its page showed, unless the facts have changed since
\* the plans were compared, and it overwrites data only where the operator allowed
\* it on a page that announced it (run_restore, run_migrate and run_prune compare
\* the fingerprint before the gate; decide_guard and migrate_guard ask again).
THEOREM DoneAsApproved == ConfirmSpec => []RunsAsApproved
<1>1. ConfirmInit => Approved
  <2>. SUFFICES ASSUME ConfirmInit PROVE Approved
    OBVIOUS
  <2>1. (\A s \in Submits : submit[s].step = "idle") /\ DOMAIN children = {}
    BY DEF ConfirmInit, IdleSubmit
  <2>. QED
    BY <2>1 DEF Approved
<1>2. Approved => RunsAsApproved
  BY DEF Approved, ApprovedChild, RunsAsApproved
<1>. QED
  BY <1>1, <1>2, ApprovedStep, ConfirmInvariance, PTL DEF ConfirmSpec

=============================================================================
