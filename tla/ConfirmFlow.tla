---------------------------- MODULE ConfirmFlow ------------------------------
(***************************************************************************)
(* The destructive jobs of the console: restore, prune and migrate         *)
(* (src/web/routes/restore.rs, prune.rs, migrate.rs) behind the            *)
(* confirmation guard (src/web/guard.rs) and the audit log                 *)
(* (src/web/audit.rs).                                                     *)
(*                                                                         *)
(* A plan page is drawn from a dry run and carries a token and the         *)
(* fingerprint of the plan.  A submission of the page runs the dry run     *)
(* again, compares the fingerprints, consumes the token, writes the audit  *)
(* line and starts the child, each an await apart; the child then makes a  *)
(* plan of its own.  The destination and the target may change between any *)
(* two of these steps, a page may be submitted twice at once, time passes, *)
(* and the console may be restarted.                                       *)
(***************************************************************************)
EXTENDS Integers, Sequences, FiniteSets

CONSTANTS
    Submits,            \* the submissions the handlers serve
    RestoreIds,         \* the ids a restore form may name; 0: the newest backup
    ConfirmTtl,         \* CONFIRM_TTL, in ticks
    MaxConfirmTime,     \* bound: ticks
    MaxPages,           \* bound: plan pages drawn
    MaxVersion          \* bound: changes of the facts

ASSUME ConfirmAssumption ==
    /\ RestoreIds \subseteq Nat /\ ConfirmTtl \in Nat /\ MaxConfirmTime \in Nat
    /\ MaxPages \in Nat \ {0} /\ MaxVersion \in Nat

VARIABLES
    facts,      \* what the dry runs and the children look at
    clock,      \* Instant::now
    pages,      \* every plan page drawn, with the request and the plan it shows
    tokens,     \* DestructiveGuard.pending: the tokens not consumed yet
    submit,     \* the handlers of POST .../apply
    children,   \* the destructive children started, in order
    auditLines, \* the pages an audit line "gated" was written for
    boot        \* restarts of the console

confirmVars == <<facts, clock, pages, tokens, submit, children, auditLines, boot>>

\* The requests the forms accept: a restore of a given id or of the newest
\* backup, a prune with its overrides, a migration to another profile.
RestoreForms == {[verb |-> "restore", id |-> i] : i \in RestoreIds}
PruneForms == {[verb |-> "prune", id |-> 0]}
MigrateForms == {[verb |-> "migrate", id |-> 0]}
Forms == RestoreForms \cup PruneForms \cup MigrateForms

Plans == [what : Nat, conflicts : BOOLEAN]
Worlds == [newest : Nat, spaces : Nat, occupied : BOOLEAN, leftovers : BOOLEAN,
           version : Nat]

\* What a dry run prints, as far as the fingerprint of each page tells plans
\* apart: the backup restored and whether the target holds data; the chains
\* deleted and whether leftovers are among them; the namespaces copied and
\* whether the target holds some of them.
RestorePlan(f) == [what |-> IF f.id = 0 THEN facts.newest ELSE f.id,
                   conflicts |-> facts.occupied]
PrunePlan == [what |-> facts.newest - 1, conflicts |-> facts.leftovers]
MigratePlan == [what |-> facts.spaces, conflicts |-> facts.occupied]

DryRun(f) == CASE f.verb = "restore" -> RestorePlan(f)
               [] f.verb = "prune"   -> PrunePlan
               [] f.verb = "migrate" -> MigratePlan

\* The arguments of the child.  The checkbox of a prune page is not used: its
\* child always gets --force.
RestoreArgs(allow) == [force |-> allow, drop |-> FALSE]
PruneArgs(allow) == [force |-> TRUE, drop |-> FALSE]
MigrateArgs(allow) == [force |-> FALSE, drop |-> allow]

Args(f, allow) == CASE f.verb = "restore" -> RestoreArgs(allow)
                    [] f.verb = "prune"   -> PruneArgs(allow)
                    [] f.verb = "migrate" -> MigrateArgs(allow)

\* The guards of the children, none of which has a terminal: decide_guard,
\* decide_approval and migrate_guard.
decide_guard(args, plan) == args.force \/ ~plan.conflicts
decide_approval(args, plan) == args.force
migrate_guard(args, plan) == ~plan.conflicts \/ (args.drop /\ args.force)

Proceeds(f, args, plan) ==
    CASE f.verb = "restore" -> decide_guard(args, plan)
      [] f.verb = "prune"   -> decide_approval(args, plan)
      [] f.verb = "migrate" -> migrate_guard(args, plan)

NoPlan == [what |-> 0, conflicts |-> FALSE]
IdleSubmit == [step |-> "idle", page |-> 0, allow |-> FALSE, name |-> FALSE,
               version |-> 0, gatedAt |-> 0]

DestructiveChildren == [page : Nat, allow : BOOLEAN, state : {"started", "exited", "collected"},
             awaited : BOOLEAN, gatedAt : Nat, checked : Nat, decided : Nat, boot : Nat,
             plan : Plans, did : BOOLEAN]

DrawnPages == [form : Forms, plan : Plans, issued : Nat, boot : Nat]

Handlers == [step : {"idle", "recheck", "gate", "audit", "spawn", "record", "done"},
             page : Nat, allow : BOOLEAN, name : BOOLEAN, version : Nat, gatedAt : Nat]

ConfirmTypeOK ==
    /\ facts \in Worlds /\ clock \in 0 .. MaxConfirmTime /\ boot \in 0 .. 1
    /\ pages \in Seq(DrawnPages)
    /\ tokens \subseteq DOMAIN pages /\ auditLines \subseteq DOMAIN pages
    /\ submit \in [Submits -> Handlers]
    /\ children \in Seq(DestructiveChildren)

ConfirmInit ==
    /\ \E busy \in BOOLEAN :
          facts = [newest |-> 2, spaces |-> 1, occupied |-> busy, leftovers |-> busy, version |-> 0]
    /\ clock = 0 /\ pages = <<>> /\ tokens = {} /\ children = <<>>
    /\ auditLines = {} /\ boot = 0
    /\ submit = [s \in Submits |-> IdleSubmit]

-----------------------------------------------------------------------------
(* The facts outside the console *)

\* A backup arrives, a namespace appears, the target is filled or emptied, or
\* a backup that failed leaves something behind.
ChangeWorld ==
    /\ facts.version < MaxVersion
    /\ \E w \in {[facts EXCEPT !.newest = @ + 1], [facts EXCEPT !.spaces = @ + 1],
                 [facts EXCEPT !.occupied = ~@], [facts EXCEPT !.leftovers = TRUE]} :
          /\ w # facts
          /\ facts' = [w EXCEPT !.version = @ + 1]
    /\ UNCHANGED <<clock, pages, tokens, submit, children, auditLines, boot>>

ConfirmTick ==
    /\ clock < MaxConfirmTime
    /\ clock' = clock + 1
    /\ UNCHANGED <<facts, pages, tokens, submit, children, auditLines, boot>>

\* The console is restarted: tokens, handlers and waiters are gone, the pages
\* in the browsers and the children are not.
ConsoleRestart ==
    /\ boot = 0 /\ boot' = 1
    /\ tokens' = {}
    /\ submit' = [s \in Submits |-> IF submit[s].step = "idle" THEN IdleSubmit
                                     ELSE [IdleSubmit EXCEPT !.step = "done"]]
    /\ UNCHANGED <<facts, clock, pages, children, auditLines>>

-----------------------------------------------------------------------------
(* The pages and their tokens *)

is_expired(p) == clock - pages[p].issued > ConfirmTtl

\* sweep_expired, at every issue and at every submission.
Swept == {p \in tokens : ~is_expired(p)}

\* A prune page with nothing to delete is drawn without a form.
Offers(f, plan) == f.verb = "prune" => plan.what > 0 \/ plan.conflicts

\* render_plan and render_confirm: a page with a token of its own.
RenderPlan(f, plan, kept) ==
    IF Offers(f, plan) /\ Len(pages) < MaxPages
    THEN /\ pages' = Append(pages, [form |-> f, plan |-> plan, issued |-> clock, boot |-> boot])
         /\ tokens' = kept \cup {Len(pages) + 1}
    ELSE /\ pages' = pages
         /\ tokens' = kept

\* POST .../plan.
PlanPage(f) ==
    /\ Len(pages) < MaxPages
    /\ RenderPlan(f, DryRun(f), Swept)
    /\ UNCHANGED <<facts, clock, submit, children, auditLines, boot>>

-----------------------------------------------------------------------------
(* POST .../apply *)

\* The form of a page is sent, with the name typed right or wrong and the
\* checkbox, where the page has one, set or not.
SubmitPage(s, p, allow, name) ==
    /\ submit[s].step = "idle"
    /\ allow => pages[p].plan.conflicts
    /\ submit' = [submit EXCEPT ![s] = [step |-> "recheck", page |-> p, allow |-> allow,
                                        name |-> name, version |-> 0, gatedAt |-> 0]]
    /\ UNCHANGED <<facts, clock, pages, tokens, children, auditLines, boot>>

Done(s) == submit' = [submit EXCEPT ![s] = [IdleSubmit EXCEPT !.step = "done"]]
Step(s, next) == submit' = [submit EXCEPT ![s].step = next]
FormOf(s) == pages[submit[s].page].form

\* Bug: the plan is not compared.
AnyPlan(s) == TRUE

\* The fingerprint in the form equals the one of a new dry run.
FingerprintMatches(s) == DryRun(FormOf(s)) = pages[submit[s].page].plan

\* The dry run fails or runs into its time limit: nothing else happens.
DryRunFails(s) ==
    /\ submit[s].step = "recheck" /\ Done(s)
    /\ UNCHANGED <<facts, clock, pages, tokens, children, auditLines, boot>>

\* The plan has changed: a new page is drawn and the old token stays.
PlanChanged(s) ==
    /\ submit[s].step = "recheck" /\ ~FingerprintMatches(s)
    /\ RenderPlan(FormOf(s), DryRun(FormOf(s)), Swept)
    /\ Done(s)
    /\ UNCHANGED <<facts, clock, children, auditLines, boot>>

PlanHolds(s) ==
    /\ submit[s].step = "recheck" /\ FingerprintMatches(s)
    /\ submit' = [submit EXCEPT ![s].step = "gate", ![s].version = facts.version]
    /\ UNCHANGED <<facts, clock, pages, tokens, children, auditLines, boot>>

\* Bug: the token stays in the table.
TokenKept(s) == Swept

\* check_and_consume takes the token out of the table, whatever comes next.
TokenConsumed(s) == Swept \ {submit[s].page}

Confirmed(s) == submit[s].page \in Swept /\ submit[s].name

\* The guard refuses: an unknown, used or expired token, or a wrong name.
GateRefuses(s) ==
    /\ submit[s].step = "gate" /\ ~Confirmed(s)
    /\ RenderPlan(FormOf(s), pages[submit[s].page].plan, TokenConsumed(s))
    /\ Done(s)
    /\ UNCHANGED <<facts, clock, children, auditLines, boot>>

GatePasses(s) ==
    /\ submit[s].step = "gate" /\ Confirmed(s)
    /\ tokens' = TokenConsumed(s)
    /\ submit' = [submit EXCEPT ![s].step = "audit", ![s].gatedAt = clock]
    /\ UNCHANGED <<facts, clock, pages, children, auditLines, boot>>

\* AuditLog::gate: no line, no receipt, no child.
AuditFails(s) ==
    /\ submit[s].step = "audit"
    /\ RenderPlan(FormOf(s), pages[submit[s].page].plan, Swept)
    /\ Done(s)
    /\ UNCHANGED <<facts, clock, children, auditLines, boot>>

AuditGate(s) ==
    /\ submit[s].step = "audit"
    /\ auditLines' = auditLines \cup {submit[s].page}
    /\ Step(s, "spawn")
    /\ UNCHANGED <<facts, clock, pages, tokens, children, boot>>

\* spawn_destructive fails: the gate line is all that is left.
DestructiveSpawnFails(s) ==
    /\ submit[s].step = "spawn" /\ Done(s)
    /\ UNCHANGED <<facts, clock, pages, tokens, children, auditLines, boot>>

SpawnDestructive(s) ==
    /\ submit[s].step = "spawn"
    /\ children' = Append(children,
          [page |-> submit[s].page, allow |-> submit[s].allow, state |-> "started",
           awaited |-> TRUE, gatedAt |-> submit[s].gatedAt, checked |-> submit[s].version,
           decided |-> 0, boot |-> boot, plan |-> NoPlan, did |-> FALSE])
    /\ Step(s, "record")
    /\ UNCHANGED <<facts, clock, pages, tokens, auditLines, boot>>

ChildOf(s) == CHOOSE i \in DOMAIN children : children[i].page = submit[s].page

\* JobStore::start fails.  The handlers of the three routes return its error
\* and drop the handle of the child, which goes on by itself.
RecordFails(s) ==
    /\ submit[s].step = "record"
    /\ children' = [children EXCEPT ![ChildOf(s)].awaited = FALSE]
    /\ Done(s)
    /\ UNCHANGED <<facts, clock, pages, tokens, auditLines, boot>>

\* The job is recorded and a task of its own waits for the child.
StartWaiter(s, verb) ==
    /\ submit[s].step = "record" /\ FormOf(s).verb = verb
    /\ Done(s)
    /\ UNCHANGED <<facts, clock, pages, tokens, children, auditLines, boot>>

StartRestoreJob(s) == StartWaiter(s, "restore")
StartPruneJob(s) == StartWaiter(s, "prune")
StartMigrateJob(s) == StartWaiter(s, "migrate")

-----------------------------------------------------------------------------
(* The children *)

\* The child makes its own plan from what it finds, asks its own guard and
\* does what the plan says, or refuses.
ChildRuns(i) ==
    LET c == children[i]
        f == pages[c.page].form
    IN /\ c.state = "started"
       /\ children' = [children EXCEPT
             ![i].state = "exited", ![i].decided = facts.version,
             ![i].plan = DryRun(f), ![i].did = Proceeds(f, Args(f, c.allow), DryRun(f))]
       /\ UNCHANGED <<facts, clock, pages, tokens, submit, auditLines, boot>>

\* The waiter stores the output and the outcome, invalidates the probes of the
\* profiles touched and writes the second audit line.
CollectChild(i) ==
    /\ children[i].state = "exited" /\ children[i].awaited /\ children[i].boot = boot
    /\ \A s \in Submits : submit[s].step # "record" \/ submit[s].page # children[i].page
    /\ children' = [children EXCEPT ![i].state = "collected"]
    /\ UNCHANGED <<facts, clock, pages, tokens, submit, auditLines, boot>>

ConfirmNext ==
    \/ ChangeWorld \/ ConfirmTick \/ ConsoleRestart
    \/ \E f \in Forms : PlanPage(f)
    \/ \E s \in Submits :
          \/ \E p \in DOMAIN pages, allow, name \in BOOLEAN : SubmitPage(s, p, allow, name)
          \/ DryRunFails(s) \/ PlanChanged(s) \/ PlanHolds(s)
          \/ GateRefuses(s) \/ GatePasses(s)
          \/ AuditFails(s) \/ AuditGate(s)
          \/ DestructiveSpawnFails(s) \/ SpawnDestructive(s)
          \/ RecordFails(s) \/ StartRestoreJob(s) \/ StartPruneJob(s) \/ StartMigrateJob(s)
    \/ \E i \in DOMAIN children : ChildRuns(i) \/ CollectChild(i)

ConfirmSpec == ConfirmInit /\ [][ConfirmNext]_confirmVars

-----------------------------------------------------------------------------
(* Properties *)

\* What a child does is what its page showed, unless the facts have changed
\* since the second dry run, and a child writes over data only where the
\* operator allowed it on a page that said so.
RunsAsApproved ==
    \A i \in DOMAIN children :
       LET c == children[i]
           p == pages[c.page]
       IN c.did => /\ c.decided = c.checked => c.plan = p.plan
                   /\ p.form.verb # "prune" /\ c.plan.conflicts => c.allow /\ p.plan.conflicts

\* src/web/routes/prune.rs:766 says that the checkbox decides whether
\* leftovers are deleted; every prune child deletes them.
LeftoversNeedConsent ==
    \A i \in DOMAIN children :
       LET c == children[i]
       IN pages[c.page].form.verb = "prune" /\ c.did /\ c.plan.conflicts => c.allow

\* The life of the approval of a page, as src/web/guard.rs promises it.
StatusOf(p) ==
    LET started == Cardinality({i \in DOMAIN children : children[i].page = p})
    IN CASE started > 1 -> "twice"
         [] started = 1 -> "started"
         [] started = 0 /\ \E s \in Submits : submit[s].page = p /\ submit[s].step \in {"audit", "spawn"}
              -> "passed"
         [] OTHER -> IF p \in tokens THEN "open"
                     ELSE IF p \in DOMAIN pages THEN "void" ELSE "none"

Promise == INSTANCE Approval WITH Approvals <- 1 .. MaxPages,
                                  status <- [p \in 1 .. MaxPages |-> StatusOf(p)]

\* Pages, tokens, submissions and children together implement the promise of
\* the guard (module Approval): an approval is given once, passes the gate at
\* most once, starts at most one child after that, and never comes back once
\* it was used, refused, too old or forgotten.
ImplementsApproval == Promise!ApprovalSpec
=============================================================================
