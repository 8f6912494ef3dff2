--------------------------- MODULE Installer_proofs ---------------------------
(***************************************************************************)
(* What the executor guarantees for every configuration, whatever the      *)
(* machine does: failures bear their phase, nothing is done after a fatal  *)
(* one (both for every plan there could be), and --until stops after the   *)
(* phase it names, but for CONFIGURE, where it stops inside.               *)
(* Then what a run leaves on the machine, for every layout: where files    *)
(* go, what a reported success means, and that each operation finds what   *)
(* it needs.  Of agnova's steps the lemmas about this use only what Acts   *)
(* says, and so hold of any executor of such a plan (RsRun_proofs).        *)
(***************************************************************************)
EXTENDS InstallerProps, InstallPlan_proofs, TLAPS

\* Where the executor stands in the plan: inside an entry, the orchestrator's
\* phase is that entry's; the phases left behind are completed; an error is
\* recorded exactly when the run has failed, in the entry it stands in.
Done == IF status = "halted" THEN i ELSE i - 1
PhasesOf(n) == [j \in 1 .. n |-> plan[j].phase]

Position ==
    /\ i \in Nat \ {0} /\ k \in Nat
    /\ status \in {"running", "failed", "halted", "complete"}
    /\ status = "running" /\ k # 0 => phase = entry.phase

Record ==
    /\ completed = PhasesOf(Done)
    /\ IF status = "failed"
       THEN errors = <<errors[1]>> /\ errors[1].phase = entry.phase
       ELSE errors = <<>>

Walk == Position /\ Record

-----------------------------------------------------------------------------
\* Completing one more phase: what execute_all's vec_push makes of the list.
LEMMA OneMorePhase ==
    ASSUME NEW n \in Nat, NEW p, p = plan[n + 1].phase
    PROVE  Append(PhasesOf(n), p) = PhasesOf(n + 1)
<1> DEFINE All == {plan[j].phase : j \in Nat}
           s == PhasesOf(n)
<1>1. s \in Seq(All) /\ Len(s) = n
    BY DEF PhasesOf
<1>2. Append(s, p) = [j \in 1 .. n + 1 |-> IF j = n + 1 THEN p ELSE s[j]]
    BY <1>1
<1>3. \A j \in 1 .. n + 1 : (IF j = n + 1 THEN p ELSE s[j]) = plan[j].phase
    BY DEF PhasesOf
<1> QED
    BY <1>2, <1>3 DEF PhasesOf

LEMMA WalkInit == Init => Walk
<1> SUFFICES ASSUME Init PROVE Walk
    OBVIOUS
<1>1. Position
    BY DEF Init, Position
<1>2. Done = 0 /\ PhasesOf(0) = <<>>
    BY DEF Init, Done, PhasesOf
<1> QED
    BY <1>1, <1>2 DEF Init, Walk, Record

\* The walk does not depend on what happens to the machine.
LEMMA WalkStep == Walk /\ [Next]_vars => Walk'
<1> SUFFICES ASSUME Walk, [Next]_vars PROVE Walk'
    OBVIOUS
<1> USE DEF Walk
<1>1. CASE Enter
    <2>1. Position'
        BY <1>1 DEF Enter, Position, PhaseEntered, entry, given
    <2>2. Record'
        BY <1>1 DEF Enter, Record, Done, PhasesOf, entry, given
    <2> QED
        BY <2>1, <2>2
<1>2. ASSUME Running, Succeed PROVE Walk'
    <2>1. Position'
        BY <1>2 DEF Running, Succeed, Position, entry, given, inst
    <2>2. Record'
        BY <1>2 DEF Running, Succeed, Record, Done, PhasesOf, entry, given, inst
    <2> QED
        BY <2>1, <2>2
<1>3. ASSUME Running, Fail PROVE Walk'
    <2>1. CASE ~Fatal
        BY <1>2, <1>3, <2>1 DEF Fail
    <2>2. CASE Fatal
        <3> DEFINE err == [phase |-> phase, recoverable |-> Recoverable(phase)]
        <3>1. /\ errors' = Append(errors, err) /\ status' = "failed" /\ k' = k + 1
              /\ UNCHANGED <<cfg, plan, phase, completed, i>>
            BY <1>3, <2>2 DEF Fail, Stops, given
        <3>2. status = "running" /\ k # 0
            BY <1>3, <2>2 DEF Running, Position
        <3>3. errors' = <<err>>
            BY <3>1, <3>2 DEF Record
        <3>4. Position'
            BY <3>1 DEF Position, entry
        <3>5. Record'
            BY <3>1, <3>2, <3>3 DEF Record, Position, Done, PhasesOf, entry
        <3> QED
            BY <3>4, <3>5
    <2> QED
        BY <2>1, <2>2
<1>4. CASE Leave
    <2>1. /\ status = "running" /\ phase = plan[i].phase /\ i - 1 \in Nat
          /\ completed = PhasesOf(i - 1) /\ errors = <<>>
        BY <1>4 DEF Leave, Position, Record, Done, entry
    <2>2. completed' = PhasesOf(i)
        <3>1. i - 1 + 1 = i
            BY DEF Position
        <3>2. Append(PhasesOf(i - 1), phase) = PhasesOf(i - 1 + 1)
            BY <2>1, <3>1, OneMorePhase
        <3> QED
            BY <1>4, <2>1, <3>1, <3>2 DEF Leave
    <2>3. UNCHANGED <<cfg, plan, phase, errors>>
        BY <1>4 DEF Leave, given
    <2>4. CASE Reached
        BY <1>4, <2>1, <2>2, <2>3, <2>4 DEF Leave, Position, Record, Done, PhasesOf, entry
    <2>5. CASE ~Reached
        BY <1>4, <2>1, <2>2, <2>3, <2>5 DEF Leave, Position, Record, Done, PhasesOf, entry
    <2> QED
        BY <2>4, <2>5
<1>5. CASE Finish
    BY <1>5 DEF Finish, Position, Record, Done, PhasesOf, entry, given
<1>6. CASE Exited \/ UNCHANGED vars
    BY <1>6 DEF Exited, vars, given, inst, Position, Record, Done, PhasesOf, entry
<1> QED
    BY <1>1, <1>2, <1>3, <1>4, <1>5, <1>6 DEF Next, OpSucceeds, OpFailsLate, OpFails

LEMMA Walking == Spec => []Walk
    BY WalkInit, WalkStep, PTL DEF Spec

-----------------------------------------------------------------------------
\* A failure is the run's one error and bears the phase of the entry it
\* happened in (agnova_set_phase comes before execute_phase); the phases
\* before it, and no others, are completed.
THEOREM Attributed == Spec => []FailureAttributed
<1>1. Walk => FailureAttributed
    BY DEF Walk, Position, Record, Done, PhasesOf, FailureAttributed
<1> QED
    BY <1>1, Walking, PTL

\* Once execute_phase has recorded a fatal failure, the run touches neither
\* the disk nor the mounts any more.
THEOREM Still == Spec => NothingAfterFailure
<1>1. Walk /\ [Next]_vars => [errors # <<>> => UNCHANGED machine]_vars
    <2> SUFFICES ASSUME Walk, [Next]_vars, errors # <<>> PROVE UNCHANGED machine
        OBVIOUS
    <2>1. status = "failed"
        BY DEF Walk, Record
    <2> QED
        BY <2>1 DEF Next, Enter, OpSucceeds, OpFailsLate, OpFails, Running, Leave,
                    Finish, Exited, vars
<1> QED
    BY <1>1, Walking, PTL DEF Spec, NothingAfterFailure

-----------------------------------------------------------------------------
(* --until.  The entries left behind are of other phases, and what is ahead *)
(* is of another than the one just done unless that was CONFIGURE.         *)
Once(p) ==
    \A j, m \in DOMAIN p : p[j].phase = p[m].phase => j = m \/ p[j].phase = CONFIGURE
Listed == Len(plan) \in Nat /\ DOMAIN plan = 1 .. Len(plan) /\ Once(plan)

NotAskedYet ==
    /\ \A j \in 1 .. i - 1 : plan[j].phase # cfg.until
    /\ status = "halted" => i <= Len(plan) /\ plan[i].phase = cfg.until
    /\ status = "complete" => i > Len(plan)

\* Both kinds of plan are lists of entries, with or without the account's, and
\* have each phase but CONFIGURE once.
LEMMA PlanListed ==
    ASSUME NEW c
    PROVE  /\ Len(Plan(c)) \in Nat /\ DOMAIN Plan(c) = 1 .. Len(Plan(c))
           /\ Once(Plan(c))
<1>1. CASE c.backend = "shell"
    <2>0. Plan(c) = full_execution_plan(c)
        BY <1>1 DEF Plan
    <2>1. PICK p : p = full_execution_plan(c)
        OBVIOUS
    <2>2. PICK n \in {12, 13} : ShellEntries(p, c, n)
        BY <2>1, ShellListed
    <2>3. /\ p[1].phase = 1 /\ p[2].phase = 2 /\ p[3].phase = 3 /\ p[4].phase = 4
          /\ p[5].phase = 5 /\ p[6].phase = 6 /\ p[7].phase = 8
          /\ n = 13 => p[8].phase = 9
          /\ p[n - 4].phase = CONFIGURE /\ p[n - 3].phase = CONFIGURE
          /\ p[n - 2].phase = 10 /\ p[n - 1].phase = 11 /\ p[n].phase = 12
        BY <2>2 DEF ShellEntries, Phase, PARTITION, ENCRYPTION, FORMAT, MOUNT, BASE, PACKAGES,
                    BOOTLOADER, USER, SECURITY, FIRST_BOOT, CLEANUP
    <2>4. DOMAIN p = 1 .. n /\ Len(p) = n
        BY <2>2 DEF ShellEntries
    <2>5. Once(p)
        BY <2>3, <2>4, SMTT(60) DEF Once, CONFIGURE
    <2> QED
        BY <2>0, <2>1, <2>4, <2>5
<1>2. CASE c.backend # "shell"
    <2>1. PICK p : p = Plan(c)
        OBVIOUS
    <2>2. DOMAIN p = 1 .. 8 /\ Len(p) = 8
        BY <1>2, <2>1 DEF Plan, plan_native_disk_ops
    <2>3. /\ p[1].phase = 1 /\ p[2].phase = 3 /\ p[3].phase = 5
          /\ p[4].phase = CONFIGURE /\ p[5].phase = CONFIGURE
          /\ p[6].phase = 10 /\ p[7].phase = 11 /\ p[8].phase = 8
        BY <1>2, <2>1 DEF Plan, plan_native_disk_ops, Phase, PARTITION, FORMAT, BASE,
                          BOOTLOADER, SECURITY, FIRST_BOOT
    <2>4. Once(p)
        BY <2>2, <2>3, SMTT(60) DEF Once, CONFIGURE
    <2> QED
        BY <2>1, <2>2, <2>4
<1> QED
    BY <1>1, <1>2

LEMMA ListedAlways == Spec => []Listed
<1>1. Init => Listed
    BY PlanListed DEF Init, Listed
<1>2. Listed /\ [Next]_vars => Listed'
    <2> SUFFICES ASSUME Listed, [Next]_vars PROVE Listed'
        OBVIOUS
    <2>1. plan' = plan
        BY DEF Next, Enter, OpSucceeds, OpFailsLate, OpFails, Succeed, Fail, Leave,
               Finish, Exited, vars, given
    <2> QED
        BY <2>1 DEF Listed
<1> QED
    BY <1>1, <1>2, PTL DEF Spec

LEMMA NotAskedYetStep == Walk /\ Listed /\ NotAskedYet /\ [Next]_vars => NotAskedYet'
<1> SUFFICES ASSUME Walk, Listed, NotAskedYet, [Next]_vars PROVE NotAskedYet'
    OBVIOUS
<1>1. ASSUME UNCHANGED <<cfg, plan, i>>,
             status' = status \/ status' \in {"running", "failed"}
      PROVE  NotAskedYet'
    BY <1>1 DEF NotAskedYet
<1>2. CASE Enter
    BY <1>1, <1>2 DEF Enter, given
<1>3. CASE OpSucceeds
    BY <1>1, <1>3 DEF OpSucceeds, Succeed, given
<1>4. CASE OpFailsLate \/ OpFails
    BY <1>1, <1>4 DEF OpFailsLate, OpFails, Fail, Stops, Succeed, given
<1>5. CASE Leave
    <2>1. /\ UNCHANGED <<cfg, plan>> /\ status = "running" /\ i <= Len(plan)
          /\ phase = plan[i].phase
          /\ IF phase = cfg.until THEN status' = "halted" /\ i' = i
             ELSE i' = i + 1 /\ status' = status
        BY <1>5 DEF Leave, Reached, given, Walk, Position, entry
    <2>2. CASE phase = cfg.until
        BY <2>1, <2>2 DEF NotAskedYet
    <2>3. CASE phase # cfg.until
        <3>1. \A j \in 1 .. i : plan[j].phase # cfg.until
            BY <2>1, <2>3 DEF NotAskedYet, Walk, Position
        <3> QED
            BY <2>1, <2>3, <3>1 DEF NotAskedYet, Walk, Position
    <2> QED
        BY <2>2, <2>3
<1>6. CASE Finish
    BY <1>6 DEF Finish, NotAskedYet, given
<1>7. CASE Exited \/ UNCHANGED vars
    BY <1>1, <1>7 DEF Exited, vars, given
<1> QED
    BY <1>2, <1>3, <1>4, <1>5, <1>6, <1>7 DEF Next

\* Whatever the configuration, a run told to stop after a phase of its plan
\* halts there and not before, and with the whole phase done unless the phase
\* is CONFIGURE: execute_all compares after every entry, the phase is the
\* entry's by then, and no plan has a second entry of any other phase.
THEOREM HaltsWhereAsked == Spec => []HaltedWhereAsked
<1>1. Init => NotAskedYet
    BY DEF Init, NotAskedYet
<1>2. Walk /\ Listed /\ NotAskedYet => HaltedWhereAsked
    <2> SUFFICES ASSUME Walk, Listed, NotAskedYet PROVE HaltedWhereAsked
        OBVIOUS
    <2>1. ASSUME status = "halted"
          PROVE  i \in Asked /\ (cfg.until # CONFIGURE => WholePhase)
        <3>1. i \in Asked
            BY <2>1 DEF Listed, NotAskedYet, Walk, Position, Asked
        <3>2. ASSUME cfg.until # CONFIGURE, NEW j \in Asked PROVE j <= i
            BY <3>1, <3>2 DEF Listed, Once, Asked, Walk, Position
        <3> QED
            BY <3>1, <3>2 DEF WholePhase
    <2>2. ASSUME status = "complete" PROVE Asked = {}
        BY <2>2 DEF Listed, NotAskedYet, Walk, Position, Asked
    <2> QED
        BY <2>1, <2>2 DEF HaltedWhereAsked
<1> QED
    BY <1>1, <1>2, NotAskedYetStep, ListedAlways, Walking, PTL DEF Spec
-----------------------------------------------------------------------------
(* What is given: a layout and a plan for it, either in the shell's way or *)
(* in the native one.  Of the plan only this is used, so that what follows *)
(* holds of every executor that works through such a plan.                 *)
L == Len(parts)
N == Len(plan)
Layout ==
    /\ L \in Nat /\ OfLayout(parts, L) /\ DOMAIN parts = 1 .. L
    /\ N \in Nat \ {0} /\ DOMAIN plan = 1 .. N
ShellRun == cfg.backend = "shell" /\ ShellPlan(plan, cfg, L, N) /\ Turns(plan, cfg, N)
NativeRun ==
    /\ cfg.backend = "native" /\ NativePlan(plan) /\ parts = agnova_default_disk_layout
    /\ \A m \in 1 .. 8 : Never(plan[m].ops, "copy")
Given == Layout /\ (ShellRun \/ NativeRun)

LEMMA LaidOut ==
    ASSUME NEW c \in Configs
    PROVE  \E l \in Nat : Len(c.parts) = l /\ OfLayout(c.parts, l) /\ DOMAIN c.parts = 1 .. l
<1> DEFINE Part == [fs : {"ext4", "btrfs", "xfs", "vfat", "swap"}, mp : Seq(STRING), flags : Nat]
<1>1. c.parts \in Seq(Part)
    BY ConfigTypes
<1>0. PICK ps : ps = c.parts
    OBVIOUS
<1>2. PICK l \in Nat : l = Len(ps)
    BY <1>0, <1>1
<1>3. DOMAIN ps = 1 .. l /\ \A j \in 1 .. l : ps[j] \in Part
    <2> HIDE DEF Part
    <2> QED
        BY <1>0, <1>1, <1>2
<1>4. ASSUME NEW j \in 1 .. l
      PROVE  ps[j].flags \in Nat /\ IsPath(ps[j].mp) /\ Slashes(ps[j]) \in Nat
    <2>1. ps[j].flags \in Nat /\ ps[j].mp \in Seq(STRING)
        BY <1>3
    <2>2. Len(ps[j].mp) \in Nat
        BY <2>1
    <2> QED
        BY <2>1, <2>2 DEF IsPath, Slashes
<1> QED
    BY <1>0, <1>2, <1>3, <1>4 DEF OfLayout, OfParts

LEMMA GivenInit == Init => Given
<1> SUFFICES ASSUME Init PROVE Given
    OBVIOUS
<1>1. cfg \in Configs /\ plan = Plan(cfg)
    BY DEF Init
<1>2. L \in Nat /\ OfLayout(parts, L) /\ DOMAIN parts = 1 .. L
    BY <1>1, LaidOut DEF L, parts
<1>3. CASE cfg.backend = "shell"
    <2>1. plan = full_execution_plan(cfg)
        BY <1>1, <1>3 DEF Plan
    <2>2. PICK n \in {12, 13} : ShellPlan(plan, cfg, L, n)
        BY <1>2, <2>1, ShellPlanned DEF parts
    <2>3. n = N /\ DOMAIN plan = 1 .. n
        BY <2>2 DEF ShellPlan, N
    <2>4. Turns(plan, cfg, N)
        BY <1>2, <2>1, ShellTurns DEF N, parts
    <2> QED
        BY <1>2, <1>3, <2>2, <2>3, <2>4 DEF Given, Layout, ShellRun
<1>4. CASE cfg.backend # "shell"
    <2>1. plan = plan_native_disk_ops(cfg)
        BY <1>1, <1>4 DEF Plan
    <2>2. NativePlan(plan)
        BY <2>1, NativePlanned
    <2>3. N = 8 /\ DOMAIN plan = 1 .. N
        BY <2>2 DEF NativePlan, N
    <2>4. cfg.backend = "native" /\ parts = agnova_default_disk_layout
        BY <1>1, <1>4, ConfigTypes DEF parts
    <2>5. \A m \in 1 .. 8 : Never(plan[m].ops, "copy")
        BY <2>1, NativeTurns
    <2> QED
        BY <1>2, <2>2, <2>3, <2>4, <2>5 DEF Given, Layout, NativeRun
<1> QED
    BY <1>3, <1>4

LEMMA GivenKept == Given /\ UNCHANGED given => Given'
BY DEF Given, given, Layout, ShellRun, NativeRun, L, N, parts

\* What an operation of the plan is.
KindsIn(m) == IF cfg.backend = "shell" THEN KindsAt(m, N) ELSE NativeKindsAt(m)
LEMMA Operations ==
    ASSUME Given, NEW m \in 1 .. N
    PROVE  /\ Len(plan[m].ops) \in Nat /\ DOMAIN plan[m].ops = 1 .. Len(plan[m].ops)
           /\ plan[m].phase \in PARTITION .. CLEANUP
           /\ \A q \in 1 .. Len(plan[m].ops) :
                  Kind(plan[m].ops[q]) \in KindsIn(m) /\ Fits(plan[m].ops[q], L)
<1>1. Uses(plan[m].ops, L, KindsIn(m)) /\ plan[m].phase \in PARTITION .. CLEANUP
    <2>1. CASE ShellRun
        <3>1. OfKinds(plan, L, N)
            BY <2>1 DEF ShellRun, ShellPlan
        <3> QED
            BY <2>1, <3>1 DEF ShellRun, OfKinds, KindsIn
    <2>2. CASE NativeRun
        <3>1. NativeOfKinds(plan) /\ N = 8 /\ cfg.backend = "native"
            BY <2>2 DEF NativeRun, NativePlan, N
        <3>2. L = 2
            BY <2>2 DEF NativeRun, agnova_default_disk_layout, L
        <3> QED
            BY <3>1, <3>2 DEF NativeOfKinds, KindsIn
    <2> QED
        BY <2>1, <2>2 DEF Given
<1>2. PICK S : /\ plan[m].ops \in Seq(S)
               /\ \A x \in S : Kind(x) \in KindsIn(m) /\ Fits(x, L)
    BY <1>1 DEF Uses
<1>3. PICK ops : ops = plan[m].ops
    OBVIOUS
<1>4. Len(ops) \in Nat /\ DOMAIN ops = 1 .. Len(ops) /\ \A q \in 1 .. Len(ops) : ops[q] \in S
    BY <1>2, <1>3
<1> QED
    BY <1>1, <1>2, <1>3, <1>4
-----------------------------------------------------------------------------
(* The types.                                                              *)
OpsIn(m) == IF m > N THEN 0 ELSE Len(plan[m].ops) + 1
Place == i \in 1 .. N + 1 /\ k \in 0 .. OpsIn(i)
Machine ==
    /\ table \subseteq 1 .. L /\ swaps \subseteq 1 .. L
    /\ holds \in [0 .. L -> {"blank", "luks", "fs", "swap"}]
    /\ mapped \in BOOLEAN /\ mounted \in Seq(1 .. L)
    /\ \A f \in files : f[3] \in 0 .. L
Typed == Given /\ Place /\ Machine

\* What is only so of agnova's own runs: the plan and what is recorded.
Journal ==
    /\ cfg \in Configs /\ plan = Plan(cfg)
    /\ status \in {"running", "failed", "halted", "complete"}
    /\ phase \in VALIDATE .. COMPLETE /\ (k # 0 => phase \in PARTITION .. CLEANUP)
    /\ completed \in Seq(PARTITION .. CLEANUP)
    /\ errors \in Seq([phase : PARTITION .. CLEANUP, recoverable : BOOLEAN])

\* A run begins before the first entry, on a blank machine.
Blank ==
    /\ i = 1 /\ k = 0
    /\ table = {} /\ holds = [p \in 0 .. L |-> "blank"] /\ mapped = FALSE
    /\ mounted = <<>> /\ swaps = {} /\ files = {}

LEMMA BeginsBlank == Init => Blank
BY DEF Init, Blank, L

LEMMA BlankTyped ==
    ASSUME Given, Blank
    PROVE  Typed
<1>1. Place
    <2>1. N \in Nat /\ Len(plan[1].ops) \in Nat /\ N # 0
        BY Operations DEF Given, Layout
    <2>2. 0 \in 0 .. OpsIn(1)
        BY <2>1 DEF OpsIn
    <2> QED
        BY <2>1, <2>2 DEF Blank, Place
<1>2. Machine
    <2>1. holds = [p \in 0 .. L |-> "blank"]
        BY DEF Blank
    <2>2. holds \in [0 .. L -> {"blank", "luks", "fs", "swap"}]
        BY <2>1
    <2>3. <<>> \in Seq(1 .. L)
        OBVIOUS
    <2> QED
        BY <2>2, <2>3 DEF Blank, Machine
<1> QED
    BY <1>1, <1>2 DEF Typed

LEMMA TypedInit == Init => Typed /\ Journal
<1>1. Init => Journal
    BY DEF Init, Journal, VALIDATE, COMPLETE
<1> QED
    BY <1>1, GivenInit, BeginsBlank, BlankTyped

\* The steps of a run.  A running executor does an operation, or skips one
\* that may fail; it breaks off over one, with or without having done it; it
\* comes to another entry and leaves the machine as it is; or it is over.
Worked == Possible /\ Effect
OpDone ==
    /\ Running /\ UNCHANGED <<given, i, status>> /\ k' = k + 1
    /\ Worked \/ (UNCHANGED machine /\ ~op.fatal)
OpBroke ==
    Running /\ UNCHANGED given /\ (Worked \/ UNCHANGED machine) /\ status' # "running"

\* What has run.
At(m, q) == m \in 1 .. N /\ q \in 1 .. Len(plan[m].ops)
OpAt(m, q) == plan[m].ops[q]
Ran(m, q) == At(m, q) /\ (m < i \/ (m = i /\ q < k))
Idle ==
    /\ UNCHANGED <<given, machine, status>>
    /\ \A m, q : Ran(m, q)' <=> Ran(m, q)
    /\ UNCHANGED <<i, k>> \/ (k' \in {0, 1} /\ (i' = i \/ i' = i + 1))
Stopped == UNCHANGED <<given, machine>> /\ status' # "running"
Acts == OpDone \/ OpBroke \/ Idle \/ Stopped

\* What agnova records of a step of its own.
Recording ==
    /\ Running /\ UNCHANGED <<given, phase, completed, i>> /\ k' = k + 1
    /\ Worked \/ UNCHANGED machine
    /\ \/ UNCHANGED <<status, errors>> /\ (~op.fatal \/ Worked)
       \/ /\ status' = "failed"
          /\ errors' = Append(errors, [phase |-> phase, recoverable |-> Recoverable(phase)])

LEMMA OpSteps ==
    ASSUME OpSucceeds \/ OpFailsLate \/ OpFails
    PROVE  Recording /\ (OpDone \/ OpBroke)
<1>0. ASSUME Running, Worked \/ UNCHANGED machine, Succeed, ~op.fatal \/ Worked
      PROVE  Recording
    BY <1>0 DEF Recording, Succeed, inst, given
<1>1. ASSUME Running, Worked \/ UNCHANGED machine, Fail
      PROVE  Recording
    <2>1. CASE Fatal
        BY <1>1, <2>1 DEF Recording, Fail, Stops, given
    <2>2. CASE ~Fatal
        BY <1>0, <1>1, <2>2 DEF Fail, Fatal
    <2> QED
        BY <2>1, <2>2
<1>2. ASSUME OpSucceeds PROVE Recording
    BY <1>0, <1>2 DEF OpSucceeds, Worked
<1>3. ASSUME OpFailsLate \/ OpFails PROVE Recording
    BY <1>1, <1>3 DEF OpFailsLate, OpFails, Worked
<1>4. Recording
    BY <1>2, <1>3
<1> QED
    BY <1>4 DEF Recording, OpDone, OpBroke

\* The operation a running executor is at.
LEMMA Here ==
    ASSUME Given, Place, Running
    PROVE  /\ i \in 1 .. N /\ k \in 1 .. Len(entry.ops) /\ k + 1 \in 0 .. OpsIn(i)
           /\ Len(entry.ops) \in Nat /\ status = "running"
           /\ Kind(op) \in KindsIn(i) /\ Fits(op, L)
<1>1. i \in 1 .. N /\ N \in Nat
    BY DEF Place, Running, N, Given, Layout
<1>2. Len(plan[i].ops) \in Nat /\ k \in 1 .. Len(plan[i].ops) /\ k + 1 \in 0 .. OpsIn(i)
    <2>1. Len(plan[i].ops) \in Nat
        BY <1>1, Operations
    <2> QED
        BY <1>1, <2>1 DEF Place, Running, entry, OpsIn
<1>3. Kind(plan[i].ops[k]) \in KindsIn(i) /\ Fits(plan[i].ops[k], L)
    BY <1>1, <1>2, Operations
<1> QED
    BY <1>1, <1>2, <1>3 DEF entry, op, Running, Place

LEMMA ListAt ==
    ASSUME NEW S, NEW w \in Seq(S)
    PROVE  \E n \in Nat : n = Len(w) /\ DOMAIN w = 1 .. n /\ \A m \in 1 .. n : w[m] \in S
OBVIOUS

LEMMA VolumeTypes ==
    ASSUME Given, Machine, NEW at
    PROVE  Volume(at) \in 0 .. L
<1>1. CASE cfg.backend = "shell"
    <2>1. PICK n \in Nat : DOMAIN mounted = 1 .. n /\ \A m \in 1 .. n : mounted[m] \in 1 .. L
        BY ListAt DEF Machine
    <2>2. PICK M : M = MountedAbove(at)
        OBVIOUS
    <2>3. M \subseteq 1 .. n /\ M \in SUBSET (0 .. n)
        BY <2>1, <2>2 DEF MountedAbove
    <2>4. M # {} => Max(M) \in 1 .. n
        BY <2>3, MaxIs
    <2>5. L \in Nat /\ Volume(at) = IF M = {} THEN 0 ELSE mounted[Max(M)]
        BY <1>1, <2>2 DEF Volume, Given, Layout
    <2> QED
        BY <2>1, <2>4, <2>5
<1>2. CASE cfg.backend # "shell"
    <2>1. L = 2
        BY <1>2 DEF Given, ShellRun, NativeRun, agnova_default_disk_layout, L
    <2> QED
        BY <1>2, <2>1 DEF Volume, Meant
<1> QED
    BY <1>1, <1>2

\* Unmounting takes every mount of the partition off the list, and no other.
LEMMA TakenOff ==
    ASSUME NEW w \in Seq(1 .. L), NEW x
    PROVE  /\ Without(w, x) \in Seq(1 .. L)
           /\ \A y : InList(Without(w, x), y) <=> InList(w, y) /\ y # x
<1> DEFINE S == 1 .. L
<1>1. PICK n \in Nat : n = Len(w) /\ DOMAIN w = 1 .. n /\ \A m \in 1 .. n : w[m] \in S
    BY ListAt
<1> DEFINE s == [m \in 1 .. n |-> If(w[m] # x, <<w[m]>>)]
<1>2. Without(w, x) = FlattenSeq(s)
    BY <1>1 DEF Without, ForEach
<1> HIDE DEF S
<1>3. ASSUME NEW m \in 1 .. n
      PROVE  s[m] \in Seq(S) /\ \A y : InList(s[m], y) <=> y = w[m] /\ y # x
    <2>0. PICK z, e : z = s[m] /\ e = w[m] /\ z = If(e # x, <<e>>) /\ e \in S
        BY <1>1
    <2> HIDE DEF s
    <2>1. CASE e = x
        <3>1. z = <<>> /\ z \in Seq(S)
            BY <2>0, <2>1 DEF If
        <3>2. \A y : ~InList(z, y)
            BY <3>1, InNone
        <3> QED
            BY <2>0, <2>1, <3>1, <3>2
    <2>2. CASE e # x
        <3>1. z = <<e>>
            BY <2>0, <2>2 DEF If
        <3>2. z \in Seq(S)
            BY <2>0, <3>1, ListOfOne
        <3>3. \A y : InList(z, y) <=> y = e
            BY <3>1, InOne
        <3> QED
            BY <2>0, <2>2, <3>2, <3>3
    <2> QED
        BY <2>1, <2>2
<1>4. Spelled(s, n) /\ s \in [1 .. n -> Seq(S)]
    BY <1>3 DEF Spelled
<1> HIDE DEF s
<1>5. s \in Seq(Seq(S))
    BY <1>4
<1>6. FlattenSeq(s) \in Seq(S)
    <2>1. <<>> \in Seq(S)
        OBVIOUS
    <2> QED
        BY <1>5, <2>1, FlattenAppend
<1>7. \A m \in 1 .. n : IsList(s[m])
    BY <1>3 DEF IsList
<1>8. ASSUME NEW y PROVE InList(FlattenSeq(s), y) <=> InList(w, y) /\ y # x
    <2>1. InList(FlattenSeq(s), y) <=> \E m \in 1 .. n : InList(s[m], y)
        BY <1>4, <1>7, InFlattened
    <2>2. InList(w, y) <=> \E m \in 1 .. n : w[m] = y
        BY <1>1 DEF InList
    <2> QED
        BY <1>3, <2>1, <2>2
<1> QED
    BY <1>2, <1>6, <1>8 DEF S
-----------------------------------------------------------------------------
\* What an operation does to the machine keeps the types.
LEMMA EffectTypes ==
    ASSUME Given, At(i, k), Machine, UNCHANGED given, Effect
    PROVE  Machine'
<1>0. L' = L
    BY DEF L, given, parts
<1>1. /\ Kind(op) \in KindsIn(i) /\ Fits(op, L) /\ i \in 1 .. N
    BY Operations DEF At, op, entry
<1>2. op.do \in PerPartition => op.on \in 1 .. L
    BY <1>1 DEF Fits
<1>3. CASE Partitions
    <2>1. table' \subseteq 1 .. L
        <3>1. CASE op.do = "mklabel"
            BY <1>3, <3>1 DEF Partitions
        <3>2. CASE op.do = "gpt"
            <4>1. cfg.backend # "shell"
                <5>1. \A n : Kind(op) \notin KindsAt(i, n)
                    <6>1. /\ Kind(op) \notin OnDisk /\ Kind(op) \notin Encrypting
                          /\ Kind(op) \notin Formatting /\ Kind(op) \notin Mounting
                          /\ Kind(op) \notin WritingFstab /\ Kind(op) \notin Cleaning
                        BY <3>2, KindsSay
                    <6> QED
                        BY <6>1 DEF KindsAt
                <5> QED
                    BY <1>1, <5>1 DEF KindsIn
            <4>2. L = 2
                BY <4>1 DEF Given, ShellRun, NativeRun, agnova_default_disk_layout, L
            <4>3. table' = {1, 2}
                BY <1>3, <3>2 DEF Partitions
            <4> QED
                BY <4>2, <4>3
        <3>3. CASE op.do = "mkpart"
            BY <1>2, <1>3, <3>3 DEF Partitions, Machine, PerPartition
        <3> QED
            BY <1>3, <3>1, <3>2, <3>3 DEF Partitions
    <2> QED
        BY <1>0, <1>3, <2>1 DEF Partitions, Machine
<1>4. CASE Contents
    <2>1. op.on \in 1 .. L /\ L \in Nat
        BY <1>2, <1>4 DEF Contents, PerPartition, Given, Layout
    <2>2. op.on \in 0 .. L
        BY <2>1
    <2>3. holds' \in [0 .. L -> {"blank", "luks", "fs", "swap"}]
        BY <1>0, <1>4, <2>2 DEF Contents, Machine
    <2> QED
        BY <1>0, <1>4, <2>3 DEF Contents, Machine
<1>5. CASE Mounts
    <2>1. op.on \in 1 .. L
        BY <1>2, <1>5 DEF Mounts, PerPartition
    <2>2. CASE op.do = "mount"
        <3>1. mounted' = Append(mounted, op.on)
            BY <1>5, <2>2 DEF Mounts
        <3>2. mounted' \in Seq(1 .. L)
            BY <2>1, <3>1 DEF Machine
        <3> QED
            BY <1>0, <1>5, <3>2 DEF Mounts, Machine
    <2>3. CASE op.do # "mount"
        <3>1. mounted' = Without(mounted, op.on)
            BY <1>5, <2>3 DEF Mounts
        <3>2. mounted' \in Seq(1 .. L)
            BY <3>1, TakenOff DEF Machine
        <3> QED
            BY <1>0, <1>5, <3>2 DEF Mounts, Machine
    <2> QED
        BY <2>2, <2>3
<1>6. CASE Holders
    <2>1. swaps' \subseteq 1 .. L
        BY <1>2, <1>6 DEF Holders, Machine, PerPartition
    <2>2. mapped' \in BOOLEAN
        BY <1>6 DEF Holders
    <2> QED
        BY <1>0, <1>6, <2>1, <2>2 DEF Holders, Machine
<1>7. CASE Puts
    <2>1. Volume(op.at) \in 0 .. L
        BY VolumeTypes
    <2>2. files' = files \cup {<<op.what, op.at, Volume(op.at)>>}
        BY <1>7 DEF Puts
    <2>3. \A f \in files' : f[3] \in 0 .. L
        BY <2>1, <2>2 DEF Machine
    <2> QED
        BY <1>0, <1>7, <2>3 DEF Puts, Machine
<1>8. CASE Neither
    BY <1>0, <1>8 DEF Neither, machine, Machine
<1> QED
    BY <1>3, <1>4, <1>5, <1>6, <1>7, <1>8 DEF Effect
-----------------------------------------------------------------------------
LEMMA OpKeepsTypes ==
    ASSUME Typed, Journal, Recording
    PROVE  Typed' /\ Journal'
<1>1. Given'
    BY GivenKept DEF Typed, Recording
<1>2. /\ i \in 1 .. N /\ k \in 1 .. Len(entry.ops) /\ k + 1 \in 0 .. OpsIn(i)
    BY Here DEF Typed, Recording
<1>3. /\ UNCHANGED <<cfg, plan, phase, completed, i>> /\ k' = k + 1
      /\ N' = N /\ OpsIn(i)' = OpsIn(i)
    BY DEF Recording, given, N, OpsIn
<1>4. Place'
    BY <1>2, <1>3 DEF Typed, Place
<1>5. Journal'
    <2>0. k # 0 /\ phase \in PARTITION .. CLEANUP
        BY <1>2 DEF Journal
    <2>1. CASE errors' = errors
        <3>1. status' = status \/ status' = "failed"
            BY DEF Recording
        <3> QED
            BY <1>3, <2>0, <2>1, <3>1 DEF Journal
    <2>2. CASE errors' # errors
        <3>1. Recoverable(phase) \in BOOLEAN
            BY DEF Recoverable
        <3>2. PICK e : e = [phase |-> phase, recoverable |-> Recoverable(phase)]
            OBVIOUS
        <3>3. e \in [phase : PARTITION .. CLEANUP, recoverable : BOOLEAN]
            BY <2>0, <3>1, <3>2
        <3>4. errors' = Append(errors, e) /\ status' = "failed"
            BY <2>2, <3>2 DEF Recording
        <3> QED
            BY <1>3, <2>0, <3>3, <3>4 DEF Journal
    <2> QED
        BY <2>1, <2>2
<1>6. Machine'
    <2>1. CASE Worked
        <3>1. At(i, k)
            BY <1>2 DEF At, entry
        <3> QED
            BY <1>3, <2>1, <3>1, EffectTypes DEF Typed, Worked, given
    <2>2. CASE ~Worked
        BY <1>3, <2>2 DEF Typed, Recording, machine, Machine, L, parts
    <2> QED
        BY <2>1, <2>2
<1> QED
    BY <1>1, <1>4, <1>5, <1>6 DEF Typed

LEMMA MachineKept == Machine /\ UNCHANGED <<given, machine>> => Machine'
BY DEF Machine, given, machine, L, parts

LEMMA TypedStep == Typed /\ Journal /\ [Next]_vars => Typed' /\ Journal'
<1> SUFFICES ASSUME Typed, Journal, [Next]_vars PROVE Typed' /\ Journal'
    OBVIOUS
<1>1. CASE Enter
    <2>1. UNCHANGED <<given, machine, completed, errors, i, status>> /\ k' = 1 /\ phase' = entry.phase
        BY <1>1 DEF Enter, PhaseEntered
    <2>2. Given' /\ Machine' /\ N' = N /\ plan' = plan
        BY <2>1, GivenKept, MachineKept DEF Typed, given, N
    <2>3. Place'
        <3>1. i \in 1 .. N
            BY <1>1 DEF Enter, Typed, Place, Given, Layout, N
        <3>2. Len(plan[i].ops) \in Nat /\ plan[i].phase \in PARTITION .. CLEANUP
            BY <3>1, Operations DEF Typed
        <3>3. 1 \in 0 .. OpsIn(i)
            BY <3>1, <3>2 DEF OpsIn, Typed, Given, Layout
        <3>4. OpsIn(i)' = OpsIn(i)
            BY <2>1, <2>2 DEF OpsIn
        <3> QED
            BY <2>1, <2>2, <3>3, <3>4 DEF Place, Typed
    <2>4. Journal'
        <3>1. i \in 1 .. N
            BY <1>1 DEF Enter, Typed, Place, Given, Layout, N
        <3>2. plan[i].phase \in PARTITION .. CLEANUP
            BY <3>1, Operations DEF Typed
        <3>3. plan[i].phase \in VALIDATE .. COMPLETE
            BY <3>2 DEF VALIDATE, COMPLETE, PARTITION, CLEANUP
        <3> QED
            BY <2>1, <3>2, <3>3 DEF Journal, entry, given
    <2> QED
        BY <2>2, <2>3, <2>4 DEF Typed
<1>2. CASE OpSucceeds \/ OpFailsLate \/ OpFails
    <2>1. Recording
        BY <1>2, OpSteps
    <2> QED
        BY <2>1, OpKeepsTypes
<1>3. CASE Leave
    <2>1. UNCHANGED <<given, machine, phase, errors>> /\ completed' = Append(completed, phase)
        BY <1>3 DEF Leave
    <2>2. Given' /\ Machine' /\ N' = N /\ plan' = plan
        BY <2>1, GivenKept, MachineKept DEF Typed, given, N
    <2>3. i \in 1 .. N /\ N \in Nat /\ phase \in PARTITION .. CLEANUP
        BY <1>3 DEF Leave, Typed, Place, Given, Layout, N, Journal
    <2>4. Place'
        <3>1. CASE Reached
            <4>1. UNCHANGED <<i, k>> /\ status' = "halted"
                BY <1>3, <3>1 DEF Leave
            <4> QED
                BY <2>1, <2>2, <4>1 DEF Place, Typed, OpsIn
        <3>2. CASE ~Reached
            <4>1. i' = i + 1 /\ k' = 0 /\ status' = status
                BY <1>3, <3>2 DEF Leave
            <4>2. OpsIn(i + 1) \in Nat
                <5>1. CASE i + 1 > N
                    BY <5>1 DEF OpsIn
                <5>2. CASE i + 1 \in 1 .. N
                    <6>1. Len(plan[i + 1].ops) \in Nat
                        BY <5>2, Operations DEF Typed
                    <6> QED
                        BY <5>2, <6>1 DEF OpsIn
                <5> QED
                    BY <2>3, <5>1, <5>2
            <4>3. OpsIn(i)' = OpsIn(i + 1)
                BY <2>2, <4>1 DEF OpsIn
            <4> QED
                BY <2>1, <2>2, <2>3, <4>1, <4>2, <4>3 DEF Place, Typed
        <3> QED
            BY <3>1, <3>2
    <2>5. Journal'
        <3>1. status' = status \/ status' = "halted"
            BY <1>3 DEF Leave
        <3> QED
            BY <2>1, <2>3, <3>1 DEF Journal, given
    <2> QED
        BY <2>2, <2>4, <2>5 DEF Typed
<1>4. CASE Finish
    <2>1. UNCHANGED <<given, machine, completed, errors, i, k>> /\ phase' = COMPLETE
          /\ status' = "complete" /\ i > N
        BY <1>4 DEF Finish, N
    <2>2. Given' /\ Machine' /\ N' = N /\ plan' = plan
        BY <2>1, GivenKept, MachineKept DEF Typed, given, N
    <2>3. Place'
        <3>1. k = 0 /\ OpsIn(i) = 0
            BY <2>1 DEF Typed, Place, OpsIn
        <3> QED
            BY <2>1, <2>2, <3>1 DEF Place, Typed, OpsIn
    <2>4. Journal'
        <3>1. k' = 0
            BY <2>1 DEF Typed, Place, OpsIn
        <3> QED
            BY <2>1, <3>1 DEF Journal, given, VALIDATE, COMPLETE
    <2> QED
        BY <2>2, <2>3, <2>4 DEF Typed
<1>5. CASE Exited \/ UNCHANGED vars
    <2>1. UNCHANGED vars
        BY <1>5 DEF Exited
    <2>2. UNCHANGED <<given, machine>>
        BY <2>1 DEF vars
    <2>3. Given' /\ Machine'
        BY <2>2, GivenKept, MachineKept DEF Typed
    <2> QED
        BY <2>1, <2>3 DEF vars, given, inst, Typed, Place, Journal, N, OpsIn
<1> QED
    BY <1>1, <1>2, <1>3, <1>4, <1>5 DEF Next

LEMMA TypedAlways == Spec => [](Typed /\ Journal)
    BY TypedInit, TypedStep, PTL DEF Spec

\* The variables hold what the code can put there, for every layout: the
\* executor stays inside the plan, and what is recorded is of its phases and
\* of the layout's partitions.
THEOREM RunTypes == Spec => []TypeOK
<1>1. Typed /\ Journal => TypeOK
    BY DEF Typed, Given, Layout, Place, Journal, Machine, TypeOK, L, N, OpsIn, entry
<1> QED
    BY <1>1, TypedAlways, PTL
-----------------------------------------------------------------------------
(* What a running executor has behind it.                                  *)
LEMMA RanOne ==
    ASSUME Typed, OpDone, NEW m, NEW q
    PROVE  Ran(m, q)' <=> Ran(m, q) \/ (m = i /\ q = k)
<1>1. /\ i \in 1 .. N /\ k \in 1 .. Len(plan[i].ops)
    BY Here DEF Typed, OpDone, entry
<1>2. UNCHANGED <<cfg, plan, i>> /\ k' = k + 1 /\ N' = N
    BY DEF OpDone, given, N
<1>3. i \in Int /\ k \in Int /\ (At(m, q) => m \in Int /\ q \in Int)
    BY <1>1 DEF At
<1>4. At(m, q)' <=> At(m, q)
    BY <1>2 DEF At
<1>5. m = i /\ q = k => At(m, q)
    BY <1>1 DEF At
<1> QED
    BY <1>2, <1>3, <1>4, <1>5 DEF Ran

\* Going to an entry, or on to the next one behind the last operation.
LEMMA RanSame ==
    ASSUME Typed, UNCHANGED given, k' \in {0, 1},
           (i' = i /\ k = 0) \/ (i' = i + 1 /\ k > Len(plan[i].ops)), NEW m, NEW q
    PROVE  Ran(m, q)' <=> Ran(m, q)
<1>1. plan' = plan /\ N' = N
    BY DEF given, N
<1>2. At(m, q)' <=> At(m, q)
    BY <1>1 DEF At
<1>3. i \in Int /\ k \in Int
    BY DEF Typed, Place
<1>4. CASE i' = i /\ k = 0
    BY <1>2, <1>3, <1>4 DEF Ran, At
<1>5. CASE i' = i + 1 /\ k > Len(plan[i].ops)
    BY <1>2, <1>3, <1>5 DEF Ran, At
<1> QED
    BY <1>4, <1>5

LEMMA RunActs == Typed /\ [Next]_vars => Acts
<1> SUFFICES ASSUME Typed, [Next]_vars PROVE Acts
    OBVIOUS
<1>1. CASE OpSucceeds \/ OpFailsLate \/ OpFails
    BY <1>1, OpSteps DEF Acts
<1>2. CASE Enter \/ (Leave /\ ~Reached)
    <2>2. UNCHANGED <<given, machine, status>> /\ k' \in {0, 1} /\ (i' = i \/ i' = i + 1)
        BY <1>2 DEF Enter, Leave
    <2>3. (i' = i /\ k = 0) \/ (i' = i + 1 /\ k > Len(plan[i].ops))
        BY <1>2 DEF Enter, Leave, entry
    <2>1. \A m, q : Ran(m, q)' <=> Ran(m, q)
        BY <2>2, <2>3, RanSame
    <2> QED
        BY <2>1, <2>2 DEF Idle, Acts
<1>3. CASE (Leave /\ Reached) \/ Finish
    <2>1. UNCHANGED <<given, machine>> /\ status' # "running"
        BY <1>3 DEF Leave, Finish
    <2> QED
        BY <2>1 DEF Acts, Stopped
<1>4. CASE Exited \/ UNCHANGED vars
    <2>1. UNCHANGED vars
        BY <1>4 DEF Exited
    <2>2. UNCHANGED <<given, plan, machine, i, k, status>>
        BY <2>1 DEF vars, given
    <2>3. \A m, q : Ran(m, q)' <=> Ran(m, q)
        BY <2>2 DEF Ran, At, N
    <2> QED
        BY <2>2, <2>3 DEF Idle, Acts
<1> QED
    BY <1>1, <1>2, <1>3, <1>4 DEF Next

LEMMA RunningSteps ==
    ASSUME Acts, status' = "running"
    PROVE  /\ status = "running" /\ plan' = plan /\ parts' = parts /\ L' = L /\ N' = N
           /\ cfg' = cfg
           /\ OpDone \/ Idle
<1>1. OpDone \/ Idle
    BY DEF Acts, OpBroke, Stopped
<1>2. UNCHANGED <<given, status>>
    BY <1>1 DEF OpDone, Idle
<1> QED
    BY <1>1, <1>2 DEF given, parts, L, N

\* Which entry an operation is of.
Origin(m, q, x) ==
    /\ x.do = "mklabel" => ShellRun /\ m = 1 /\ q = 1
    /\ x.do = "mkpart" => ShellRun /\ m = 1
    /\ x.do = "gpt" => NativeRun /\ m = 1
    /\ x.do = "luksFormat" => ShellRun /\ m = 2
    /\ x.do = "mkfs" => (ShellRun /\ m = 3) \/ (NativeRun /\ m = 2)
    /\ x.do = "mount" => ShellRun /\ m = 4
    /\ x.do = "unmount" => ShellRun /\ m = N
    /\ x.do \in {"put", "copy"} => (ShellRun /\ m \in 4 .. N - 1) \/ (NativeRun /\ m \in 3 .. N)
    /\ x.do \in {"put", "copy"} =>
           (x.what = "mountpoint" <=> ShellRun /\ m = 4) /\ (m = 4 /\ ShellRun => x.do = "put")

LEMMA OriginsKnown ==
    ASSUME Given, NEW m, NEW q, At(m, q)
    PROVE  Origin(m, q, OpAt(m, q)) /\ Fits(OpAt(m, q), L)
<1>1. PICK x : x = OpAt(m, q)
    OBVIOUS
<1>2. Kind(x) \in KindsIn(m) /\ Fits(x, L) /\ m \in 1 .. N
    BY <1>1, Operations DEF At, OpAt
<1>3. N \in Nat /\ (ShellRun => N \in {12, 13}) /\ (NativeRun => N = 8)
    BY DEF Given, Layout, ShellRun, ShellPlan, NativeRun, NativePlan, N
<1>4. "mountpoint" \notin Payloads
    BY DEF Payloads
<1>7. /\ KindsAt(1, N) = OnDisk /\ KindsAt(2, N) = Encrypting /\ KindsAt(3, N) = Formatting
      /\ NativeKindsAt(1) = {<<"gpt", "">>} /\ NativeKindsAt(2) = Formatting
      /\ \A n \in 3 .. 8 : NativeKindsAt(n) = NativeWriting
    BY DEF KindsAt, NativeKindsAt
<1>5. CASE ShellRun
    <2>0. cfg.backend = "shell" /\ ~NativeRun
        BY <1>5 DEF ShellRun, NativeRun
    <2>1. Kind(x) \in KindsAt(m, N)
        BY <1>2, <2>0 DEF KindsIn
    <2>2. CASE m = 1
        <3>1. x.do \in {"mklabel", "mkpart", "set"}
            BY <1>7, <2>1, <2>2, KindsSay
        <3>2. x.do = "mklabel" => q = 1
            <4>1. LabelFirst(plan[1].ops)
                BY <1>5 DEF ShellRun, ShellPlan, Lays
            <4>2. q \in DOMAIN plan[1].ops
                BY <2>2, Operations DEF At
            <4> QED
                BY <1>1, <2>2, <4>1, <4>2 DEF LabelFirst, OpAt
        <3> QED
            BY <1>1, <1>2, <1>5, <2>2, <3>1, <3>2 DEF Origin
    <2>3. CASE m = 2
        <3>1. x.do \in {"luksFormat", "luksOpen"}
            BY <1>7, <2>1, <2>3, KindsSay
        <3> QED
            BY <1>1, <1>2, <1>5, <2>3, <3>1 DEF Origin
    <2>4. CASE m = 3
        <3>1. x.do = "mkfs"
            BY <1>7, <2>1, <2>4, KindsSay
        <3> QED
            BY <1>1, <1>2, <1>5, <2>4, <3>1 DEF Origin
    <2>5. CASE m = 4
        <3>1. Kind(x) \in Mounting
            BY <2>1, <2>5 DEF KindsAt
        <3>2. x.do \in {"put", "mount", "swapon"} /\ (x.do = "put" => x.what = "mountpoint")
            BY <3>1 DEF Kind, Mounting
        <3> QED
            BY <1>1, <1>2, <1>3, <1>5, <2>5, <3>2 DEF Origin
    <2>6. CASE m \in 5 .. N - 1
        <3>1. Kind(x) \in WritingFstab
            BY <1>3, <1>5, <2>1, <2>6 DEF KindsAt
        <3>2. x.do \in {"put", "copy"} /\ x.what # "mountpoint"
            BY <1>4, <3>1 DEF Kind, WritingFstab, Writing
        <3>3. m \in 4 .. N - 1 /\ m # 4
            BY <1>3, <2>6
        <3> QED
            BY <1>1, <1>2, <1>5, <3>2, <3>3 DEF Origin
    <2>7. CASE m = N
        <3>1. Kind(x) \in Cleaning
            BY <1>3, <1>5, <2>1, <2>7 DEF KindsAt
        <3>2. x.do \in {"nothing", "unmount", "release"}
            BY <3>1, KindsSay
        <3> QED
            BY <1>1, <1>2, <1>5, <2>7, <3>2 DEF Origin
    <2> QED
        BY <1>2, <1>3, <2>2, <2>3, <2>4, <2>5, <2>6, <2>7
<1>6. CASE NativeRun
    <2>0. cfg.backend # "shell" /\ ~ShellRun
        BY <1>6 DEF ShellRun, NativeRun
    <2>1. Kind(x) \in NativeKindsAt(m)
        BY <1>2, <2>0 DEF KindsIn
    <2>2. CASE m = 1
        <3>1. x.do = "gpt"
            BY <1>7, <2>1, <2>2 DEF Kind
        <3> QED
            BY <1>1, <1>2, <1>6, <2>2, <3>1 DEF Origin
    <2>3. CASE m = 2
        <3>1. x.do = "mkfs"
            BY <1>7, <2>1, <2>3, KindsSay
        <3> QED
            BY <1>1, <1>2, <1>6, <2>3, <3>1 DEF Origin
    <2>4. CASE m \in 3 .. N
        <3>1. Kind(x) \in NativeWriting
            BY <1>3, <1>6, <1>7, <2>1, <2>4
        <3>2. x.do \in {"put", "copy"} /\ x.what # "mountpoint"
            BY <1>4, <3>1 DEF Kind, NativeWriting, WritingFstab, Writing
        <3> QED
            BY <1>1, <1>2, <1>6, <2>0, <2>4, <3>2 DEF Origin
    <2> QED
        BY <1>2, <1>3, <2>2, <2>3, <2>4
<1> QED
    BY <1>5, <1>6 DEF Given
-----------------------------------------------------------------------------
(* What was done stays done: of every operation that must not fail and is  *)
(* behind a running executor, the machine still has the effect.            *)
Right(p) == IF parts[p].fs = "swap" THEN "swap" ELSE "fs"
Lasts(x) ==
    /\ x.do = "mkpart" => x.on \in table
    /\ x.do = "gpt" => table = 1 .. 2
    /\ x.do = "mkfs" => holds[x.on] = Right(x.on)
    /\ x.do \in {"put", "copy"} => \E v \in 0 .. L : <<x.what, x.at, v>> \in files
    /\ x.do = "mount" => InList(mounted, x.on) \/ i >= N
    /\ x.do = "unmount" => ~InList(mounted, x.on)
Kept == status = "running" => \A m, q : Ran(m, q) /\ OpAt(m, q).fatal => Lasts(OpAt(m, q))

\* The operation at hand.
LEMMA HereIs ==
    ASSUME Typed, OpDone, NEW x, x = op
    PROVE  /\ At(i, k) /\ x = OpAt(i, k) /\ Origin(i, k, x) /\ Fits(x, L)
           /\ UNCHANGED <<cfg, plan, i>> /\ L' = L /\ N' = N /\ parts' = parts
           /\ L \in Nat /\ N \in Nat /\ mounted \in Seq(1 .. L)
<1>1. At(i, k) /\ x = OpAt(i, k)
    BY Here DEF Typed, OpDone, At, OpAt, op, entry
<1>2. Origin(i, k, x) /\ Fits(x, L)
    BY <1>1, OriginsKnown DEF Typed
<1> QED
    BY <1>1, <1>2 DEF OpDone, given, L, N, parts, Typed, Given, Layout, Machine

\* The operation that a running executor is going to do.
LEMMA NowAt ==
    ASSUME Typed, Running, NEW x, x = op
    PROVE  /\ At(i, k) /\ x = OpAt(i, k) /\ Origin(i, k, x) /\ Fits(x, L) /\ Kind(x) \in KindsIn(i)
           /\ i \in 1 .. N /\ k \in Nat \ {0} /\ status = "running"
           /\ L \in Nat /\ N \in Nat /\ mounted \in Seq(1 .. L) /\ DOMAIN parts = 1 .. L
<1>1. At(i, k) /\ x = OpAt(i, k) /\ k \in Nat \ {0} /\ Kind(x) \in KindsIn(i)
    BY Here DEF Typed, At, OpAt, op, entry
<1>2. Origin(i, k, x) /\ Fits(x, L)
    BY <1>1, OriginsKnown DEF Typed
<1> QED
    BY <1>1, <1>2 DEF At, Running, Typed, Given, Layout, Machine

\* What effects are, by the command.
Effects(x) ==
    /\ x.do \notin {"mklabel", "gpt", "mkpart"} => table' = table
    /\ x.do = "gpt" => table' = {1, 2}
    /\ x.do = "mkpart" => table' = table \cup {x.on}
    /\ x.do \notin {"luksFormat", "mkfs"} => holds' = holds
    /\ x.do = "mkfs" => holds' = [holds EXCEPT ![x.on] = Right(x.on)]
    /\ x.do \notin {"mount", "unmount"} => mounted' = mounted
    /\ x.do = "mount" => mounted' = Append(mounted, x.on)
    /\ x.do = "unmount" => mounted' = Without(mounted, x.on)
    /\ x.do \notin {"put", "copy"} => files' = files
    /\ x.do \in {"put", "copy"} => files' = files \cup {<<x.what, x.at, Volume(x.at)>>}
LEMMA EffectsAre ==
    ASSUME Effect, NEW x, x = op
    PROVE  Effects(x)
<1>1. CASE Partitions
    BY <1>1 DEF Partitions, Effects
<1>2. CASE Contents
    BY <1>2 DEF Contents, Effects, Right
<1>3. CASE Mounts
    BY <1>3 DEF Mounts, Effects
<1>4. CASE Holders
    BY <1>4 DEF Holders, Effects
<1>5. CASE Puts
    BY <1>5 DEF Puts, Effects
<1>6. CASE Neither
    BY <1>6 DEF Neither, Effects, machine
<1> QED
    BY <1>1, <1>2, <1>3, <1>4, <1>5, <1>6 DEF Effect

LEMMA MountedNow ==
    ASSUME NEW w \in Seq(1 .. L), NEW x \in 1 .. L, NEW y
    PROVE  InList(Append(w, x), y) <=> InList(w, y) \/ y = x
BY InAppended

LEMMA Takes ==
    ASSUME Typed, OpDone, Worked, NEW x, x = op
    PROVE  Lasts(x)'
<1>1. /\ Origin(i, k, x) /\ Fits(x, L) /\ L' = L /\ parts' = parts
      /\ L \in Nat /\ mounted \in Seq(1 .. L)
    BY HereIs
<1>2. Effects(x)
    BY EffectsAre DEF Worked
<1>3. x.do \in PerPartition => x.on \in 1 .. L
    BY <1>1 DEF Fits
<1>4. CASE x.do \in {"mkpart", "gpt"}
    BY <1>2, <1>4 DEF Effects, Lasts
<1>5. CASE x.do = "mkfs"
    <2>1. x.on \in 0 .. L
        BY <1>1, <1>3, <1>5 DEF PerPartition
    <2>2. holds'[x.on] = Right(x.on)
        BY <1>2, <1>5, <2>1 DEF Effects, Typed, Machine
    <2> QED
        BY <1>1, <1>5, <2>2 DEF Lasts, Right
<1>6. CASE x.do \in {"put", "copy"}
    <2>1. Volume(x.at) \in 0 .. L
        BY VolumeTypes DEF Typed
    <2> QED
        BY <1>1, <1>2, <1>6, <2>1 DEF Effects, Lasts
<1>7. CASE x.do = "mount"
    <2>1. x.on \in 1 .. L
        BY <1>3, <1>7 DEF PerPartition
    <2>2. InList(mounted', x.on)
        <3>1. mounted' = Append(mounted, x.on)
            BY <1>2, <1>7 DEF Effects
        <3>2. InList(Append(mounted, x.on), x.on)
            BY <1>1, <2>1, MountedNow
        <3> QED
            BY <3>1, <3>2
    <2> QED
        BY <1>7, <2>2 DEF Lasts, InList
<1>8. CASE x.do = "unmount"
    <2>1. ~InList(mounted', x.on)
        BY <1>1, <1>2, <1>8, TakenOff DEF Effects
    <2> QED
        BY <1>8, <2>1 DEF Lasts, InList
<1>9. CASE x.do \notin {"mkpart", "gpt", "mkfs", "put", "copy", "mount", "unmount"}
    BY <1>9 DEF Lasts
<1> QED
    BY <1>4, <1>5, <1>6, <1>7, <1>8, <1>9

\* No later operation undoes it: the label comes first, what is encrypted is
\* formatted afterwards, and nothing is mounted again once it is unmounted.
LEMMA Stays ==
    ASSUME Typed, OpDone, Worked, NEW m, NEW q, Ran(m, q), NEW y, y = OpAt(m, q), Lasts(y)
    PROVE  Lasts(y)'
<1>1. PICK x : x = op
    OBVIOUS
<1>2. /\ Origin(i, k, x) /\ Fits(x, L) /\ L' = L /\ N' = N /\ parts' = parts /\ i' = i
      /\ L \in Nat /\ N \in Nat /\ mounted \in Seq(1 .. L)
    BY <1>1, HereIs
<1>3. Effects(x)
    BY <1>1, EffectsAre DEF Worked
<1>4. Origin(m, q, y) /\ Fits(y, L) /\ m \in 1 .. N /\ q \in Nat
    BY OriginsKnown DEF Ran, At, Typed
<1>5. /\ i \in 1 .. N /\ k \in Nat \ {0} /\ (m < i \/ (m = i /\ q < k)) /\ q # 0
    <2>1. i \in 1 .. N /\ k \in 1 .. Len(entry.ops)
        BY Here DEF Typed, OpDone
    <2> QED
        BY <2>1 DEF Ran, At
<1>6. /\ ~(ShellRun /\ NativeRun) /\ (ShellRun => N \in {12, 13})
    BY DEF ShellRun, ShellPlan, NativeRun
<1>7. CASE y.do = "mkpart"
    <2>1. x.do # "mklabel" /\ x.do # "gpt"
        BY <1>2, <1>4, <1>5, <1>6, <1>7 DEF Origin
    <2>2. table \subseteq table'
        BY <1>3, <2>1 DEF Effects
    <2> QED
        BY <1>7, <2>2 DEF Lasts
<1>8. CASE y.do = "gpt"
    <2>1. x.do # "mklabel" /\ x.do # "mkpart"
        BY <1>2, <1>4, <1>6, <1>8 DEF Origin
    <2>2. table' = table \/ table' = {1, 2}
        BY <1>3, <2>1 DEF Effects
    <2> QED
        BY <1>8, <2>2 DEF Lasts
<1>9. CASE y.do = "mkfs"
    <2>1. x.do # "luksFormat"
        BY <1>2, <1>4, <1>5, <1>6, <1>9 DEF Origin
    <2>2. y.on \in 0 .. L
        BY <1>2, <1>4, <1>9 DEF Fits, PerPartition
    <2>3. holds'[y.on] = Right(y.on)
        BY <1>3, <1>9, <2>1, <2>2 DEF Effects, Lasts, Typed, Machine
    <2> QED
        BY <1>2, <1>9, <2>3 DEF Lasts, Right
<1>10. CASE y.do \in {"put", "copy"}
    <2>1. files \subseteq files'
        BY <1>3 DEF Effects
    <2> QED
        BY <1>2, <1>10, <2>1 DEF Lasts
<1>11. CASE y.do = "mount"
    <2>1. CASE x.do = "unmount"
        <3>1. i = N
            BY <1>2, <2>1 DEF Origin
        <3> QED
            BY <1>2, <1>11, <3>1 DEF Lasts
    <2>2. CASE x.do = "mount"
        <3>1. x.on \in 1 .. L
            BY <1>2, <2>2 DEF Fits, PerPartition
        <3>2. mounted' = Append(mounted, x.on)
            BY <1>3, <2>2 DEF Effects
        <3>3. InList(mounted, y.on) => InList(mounted', y.on)
            BY <1>2, <3>1, <3>2, MountedNow
        <3> QED
            BY <1>2, <1>11, <3>3 DEF Lasts, InList
    <2>3. CASE x.do \notin {"mount", "unmount"}
        BY <1>2, <1>3, <1>11, <2>3 DEF Effects, Lasts, InList
    <2> QED
        BY <2>1, <2>2, <2>3
<1>12. CASE y.do = "unmount"
    <2>1. x.do # "mount"
        BY <1>2, <1>4, <1>5, <1>6, <1>12 DEF Origin
    <2>2. CASE x.do = "unmount"
        <3>1. mounted' = Without(mounted, x.on)
            BY <1>3, <2>2 DEF Effects
        <3>2. ~InList(mounted', y.on)
            BY <1>2, <1>12, <3>1, TakenOff DEF Lasts
        <3> QED
            BY <1>12, <3>2 DEF Lasts, InList
    <2>3. CASE x.do # "unmount"
        BY <1>3, <1>12, <2>1, <2>3 DEF Effects, Lasts, InList
    <2> QED
        BY <2>2, <2>3
<1>13. CASE y.do \notin {"mkpart", "gpt", "mkfs", "put", "copy", "mount", "unmount"}
    BY <1>13 DEF Lasts
<1> QED
    BY <1>7, <1>8, <1>9, <1>10, <1>11, <1>12, <1>13
-----------------------------------------------------------------------------
LEMMA NoneRan ==
    ASSUME Blank, NEW m, NEW q
    PROVE  ~Ran(m, q)
<1>1. i = 1 /\ k = 0
    BY DEF Blank
<1>2. At(m, q) => m \in Int /\ q \in Int /\ ~(m < 1) /\ ~(q < 0)
    BY DEF At
<1> QED
    BY <1>1, <1>2 DEF Ran

\* Steps that leave the machine alone.
LEMMA LastsSame ==
    ASSUME UNCHANGED <<given, machine>>, i \in Nat, N \in Nat, i' = i \/ i' = i + 1,
           NEW x, Lasts(x)
    PROVE  Lasts(x)'
<1>1. L' = L /\ N' = N /\ parts' = parts
    BY DEF given, L, N, parts
<1>2. UNCHANGED <<table, holds, mounted, files>>
    BY DEF machine
<1>3. i >= N => i' >= N'
    BY <1>1
<1> QED
    BY <1>1, <1>2, <1>3 DEF Lasts, Right, InList

LEMMA KeptStep == Typed /\ Kept /\ Acts => Kept'
<1> SUFFICES ASSUME Typed, Kept, Acts, status' = "running", NEW m, NEW q,
                    Ran(m, q)', OpAt(m, q)'.fatal
             PROVE  Lasts(OpAt(m, q))'
    BY DEF Kept
<1>1. PICK x : x = OpAt(m, q)
    OBVIOUS
<1>2. plan' = plan /\ status = "running" /\ (OpDone \/ Idle)
    BY RunningSteps
<1>3. OpAt(m, q)' = x /\ x.fatal
    BY <1>1, <1>2 DEF OpAt
<1>4. i \in Nat /\ N \in Nat
    BY DEF Typed, Place, Given, Layout
<1>5. CASE OpDone
    <2>1. Ran(m, q) \/ (m = i /\ q = k)
        BY <1>5, RanOne
    <2>2. CASE Ran(m, q)
        <3>1. Lasts(x)
            BY <1>1, <1>2, <1>3, <2>2 DEF Kept
        <3>2. CASE Worked
            <4>1. Lasts(x)'
                BY <1>1, <1>5, <2>2, <3>1, <3>2, Stays
            <4> QED
                BY <1>3, <4>1
        <3>3. CASE ~Worked
            <4>1. UNCHANGED <<given, machine>> /\ i' = i
                BY <1>5, <3>3 DEF OpDone
            <4>2. Lasts(x)'
                BY <1>4, <3>1, <4>1, LastsSame
            <4> QED
                BY <1>3, <4>2
        <3> QED
            BY <3>2, <3>3
    <2>3. CASE m = i /\ q = k
        <3>1. x = op
            BY <1>1, <2>3 DEF OpAt, op, entry
        <3>2. Worked
            BY <1>3, <1>5, <3>1 DEF OpDone
        <3>3. Lasts(x)'
            BY <1>5, <3>1, <3>2, Takes
        <3> QED
            BY <1>3, <3>3
    <2> QED
        BY <2>1, <2>2, <2>3
<1>6. CASE Idle
    <2>1. Ran(m, q) /\ UNCHANGED <<given, machine>> /\ (i' = i \/ i' = i + 1)
        BY <1>6 DEF Idle
    <2>2. Lasts(x)
        BY <1>1, <1>2, <1>3, <2>1 DEF Kept
    <2>3. Lasts(x)'
        BY <1>4, <2>1, <2>2, LastsSame
    <2> QED
        BY <1>3, <2>3
<1> QED
    BY <1>2, <1>5, <1>6

LEMMA KeptAlways == Spec => []Kept
<1>1. Init => Kept
    BY NoneRan, BeginsBlank DEF Kept
<1> QED
    BY <1>1, KeptStep, RunActs, TypedAlways, PTL DEF Spec
-----------------------------------------------------------------------------
\* What stays mounted stays in its order.
LEMMA WithoutInOrder ==
    ASSUME NEW w \in Seq(1 .. L), NEW x, NEW t, t = Without(w, x)
    PROVE  \E J : \A a, b \in DOMAIN t :
               /\ J[a] \in DOMAIN w /\ t[a] = w[J[a]]
               /\ a < b => J[a] < J[b]
<1> DEFINE S == 1 .. L
<1>1. PICK n \in Nat : n = Len(w) /\ DOMAIN w = 1 .. n /\ \A m \in 1 .. n : w[m] \in S
    BY ListAt
<1> DEFINE s == [m \in 1 .. n |-> If(w[m] # x, <<w[m]>>)]
<1>2. t = FlattenSeq(s)
    BY <1>1 DEF Without, ForEach
<1> HIDE DEF S
<1>3. ASSUME NEW m \in 1 .. n
      PROVE  s[m] \in Seq(S) /\ \A q \in DOMAIN s[m] : q = 1 /\ s[m][q] = w[m]
    <2>1. PICK z, e : z = s[m] /\ e = w[m] /\ z = If(e # x, <<e>>) /\ e \in S
        BY <1>1
    <2> HIDE DEF s
    <2>2. (z = <<>> \/ z = <<e>>)
        BY <2>1 DEF If
    <2>3. \A q \in DOMAIN z : q = 1 /\ z[q] = e
        BY <2>2
    <2>4. <<>> \in Seq(S) /\ <<e>> \in Seq(S)
        BY <2>1, ListOfOne
    <2> QED
        BY <2>1, <2>2, <2>3, <2>4
<1>4. DOMAIN s = 1 .. n /\ s \in [1 .. n -> Seq(S)]
    BY <1>3
<1> HIDE DEF s
<1>5. s \in Seq(Seq(S))
    BY <1>4
<1>6. t \in Seq(S)
    <2>1. <<>> \in Seq(S)
        OBVIOUS
    <2> QED
        BY <1>2, <1>5, <2>1, FlattenAppend
<1>7. PICK h \in Nat : h = Len(t) /\ DOMAIN t = 1 .. h
    BY <1>6
<1>8. PICK J, Q : Places(t, s, J, Q, h)
    BY <1>2, <1>5, <1>7, PlacesExist
<1>9. Reads(t, s, J, Q) /\ Follow(J, Q, h)
    BY <1>8 DEF Places
<1>10. ASSUME NEW a \in 1 .. h
       PROVE  J[a] \in 1 .. n /\ Q[a] = 1 /\ t[a] = w[J[a]]
    <2>1. J[a] \in 1 .. n /\ Q[a] \in DOMAIN s[J[a]] /\ t[a] = s[J[a]][Q[a]]
        BY <1>4, <1>7, <1>9 DEF Reads, ReadAt
    <2> QED
        BY <1>3, <2>1
<1>11. ASSUME NEW a \in 1 .. h, NEW b \in 1 .. h, a < b PROVE J[a] < J[b]
    <2>1. J[a] < J[b] \/ (J[a] = J[b] /\ Q[b] = Q[a] + (b - a))
        BY <1>9, <1>11 DEF Follow
    <2>2. Q[a] = 1 /\ Q[b] = 1
        BY <1>10
    <2> QED
        BY <1>11, <2>1, <2>2
<1> QED
    BY <1>1, <1>7, <1>10, <1>11

LEMMA WithoutSorted ==
    ASSUME NEW w \in Seq(1 .. L), NEW x, NEW t, t = Without(w, x), SortedMounts(parts, L, w)
    PROVE  SortedMounts(parts, L, t)
<1>1. PICK J : \A a, b \in DOMAIN t :
          /\ J[a] \in DOMAIN w /\ t[a] = w[J[a]]
          /\ a < b => J[a] < J[b]
    BY WithoutInOrder
<1> QED
    BY <1>1 DEF SortedMounts
-----------------------------------------------------------------------------
(* What is mounted.  Only what an operation behind the executor mounted,   *)
(* and in the order of the depths.                                         *)
WasMounted(y) == \E m, q : Ran(m, q) /\ OpAt(m, q).do = "mount" /\ OpAt(m, q).on = y
MountsInOrder == status = "running" =>
    /\ \A y : InList(mounted, y) => WasMounted(y)
    /\ SortedMounts(parts, L, mounted)

\* A mount is an operation of the fourth entry of a shell plan.
LEMMA MountIs ==
    ASSUME Typed, NEW m, NEW q, Ran(m, q), OpAt(m, q).do = "mount"
    PROVE  /\ ShellRun /\ m = 4 /\ q \in DOMAIN plan[4].ops /\ OpAt(m, q) = plan[4].ops[q]
           /\ OpAt(m, q).on \in FileSystems(parts) /\ OpAt(m, q).fatal
<1>1. ShellRun /\ m = 4 /\ q \in DOMAIN plan[4].ops
    <2>1. At(m, q) /\ Origin(m, q, OpAt(m, q))
        BY OriginsKnown DEF Ran, Typed
    <2>2. ShellRun /\ m = 4
        BY <2>1 DEF Origin
    <2>3. q \in DOMAIN plan[4].ops
        BY <2>1, <2>2, Operations DEF At, Typed
    <2> QED
        BY <2>2, <2>3
<1>2. MountsReal(plan[4].ops, parts, L)
    BY <1>1 DEF ShellRun, ShellPlan, MountsRight, parts
<1>3. DOMAIN parts = 1 .. L
    BY DEF Typed, Given, Layout
<1>4. OpAt(m, q) = plan[4].ops[q]
    BY <1>1 DEF OpAt
<1> QED
    BY <1>1, <1>2, <1>3, <1>4 DEF MountsReal, FileSystems

\* Mounting one more.
LEMMA MountsOneMore ==
    ASSUME Typed, OpDone, Worked, NEW x, x = op, x.do = "mount", MountsInOrder
    PROVE  SortedMounts(parts, L, Append(mounted, x.on))
<1>1. /\ At(i, k) /\ x = OpAt(i, k) /\ Origin(i, k, x) /\ N \in Nat /\ L \in Nat
      /\ mounted \in Seq(1 .. L)
    BY HereIs
<1>2. ShellRun /\ i = 4 /\ status = "running" /\ N \in {12, 13}
    BY <1>1 DEF Origin, OpDone, Running, ShellRun, ShellPlan
<1>3. PICK ops : ops = plan[4].ops /\ k \in DOMAIN ops /\ x = ops[k]
    BY <1>1, <1>2, Operations DEF At, OpAt, Typed
<1>4. MountsReal(ops, parts, L) /\ MountsSorted(ops, parts, L) /\ DOMAIN parts = 1 .. L
    BY <1>2, <1>3 DEF ShellRun, ShellPlan, MountsRight, parts, Typed, Given, Layout
<1>5. x.on \in FileSystems(parts) /\ x.on \in 1 .. L
    BY <1>3, <1>4 DEF MountsReal, FileSystems
<1>6. SortedMounts(parts, L, mounted)
    BY <1>2 DEF MountsInOrder
<1>7. ASSUME NEW m \in DOMAIN mounted
      PROVE  <<mounted[m], x.on>> \in Before(parts, L)
    <2>1. WasMounted(mounted[m])
        BY <1>2 DEF MountsInOrder, InList
    <2>2. PICK n, q : Ran(n, q) /\ OpAt(n, q).do = "mount" /\ OpAt(n, q).on = mounted[m]
        BY <2>1 DEF WasMounted
    <2>3. n = 4 /\ q \in DOMAIN ops /\ OpAt(n, q) = ops[q]
        BY <1>3, <2>2, MountIs
    <2>4. q < k
        BY <1>2, <2>2, <2>3 DEF Ran
    <2> QED
        BY <1>3, <1>4, <2>2, <2>3, <2>4 DEF MountsSorted
<1>8. PICK n \in Nat : n = Len(mounted) /\ DOMAIN mounted = 1 .. n
    BY <1>1, ListAt
<1>9. PICK w : w = Append(mounted, x.on)
    OBVIOUS
<1>10. /\ DOMAIN w = 1 .. n + 1 /\ w[n + 1] = x.on
       /\ \A m \in 1 .. n : w[m] = mounted[m]
    BY <1>1, <1>5, <1>8, <1>9
<1>11. \A m \in 1 .. n + 1 : m \in 1 .. n \/ m = n + 1
    BY <1>8
<1>12. \A m \in DOMAIN w : w[m] \in FileSystems(parts)
    BY <1>5, <1>6, <1>8, <1>10, <1>11 DEF SortedMounts
<1>13. ASSUME NEW m \in DOMAIN w, NEW o \in DOMAIN w, m < o
       PROVE  <<w[m], w[o]>> \in Before(parts, L)
    <2>1. m \in 1 .. n
        BY <1>8, <1>10, <1>13
    <2>2. CASE o \in 1 .. n
        <3>1. <<mounted[m], mounted[o]>> \in Before(parts, L)
            BY <1>6, <1>8, <1>13, <2>1, <2>2 DEF SortedMounts
        <3> QED
            BY <1>10, <2>1, <2>2, <3>1
    <2>3. CASE o = n + 1
        BY <1>7, <1>8, <1>10, <2>1, <2>3
    <2> QED
        BY <1>10, <1>11, <2>2, <2>3
<1> QED
    BY <1>9, <1>12, <1>13 DEF SortedMounts

LEMMA MountsInOrderSame ==
    ASSUME UNCHANGED <<given, mounted>>, i \in Nat, N \in Nat, i' = i \/ i' = i + 1,
           status = "running", \A m, q : Ran(m, q) => Ran(m, q)', MountsInOrder
    PROVE  MountsInOrder'
<1>1. L' = L /\ N' = N /\ parts' = parts /\ plan' = plan
    BY DEF given, L, N, parts
<1>2. \A y : WasMounted(y) => WasMounted(y)'
    BY <1>1 DEF WasMounted, OpAt
<1>3. SortedMounts(parts, L, mounted) => SortedMounts(parts, L, mounted)'
    BY <1>1 DEF SortedMounts
<1> QED
    BY <1>2, <1>3 DEF MountsInOrder, InList

LEMMA MountsInOrderStep == Typed /\ MountsInOrder /\ Acts => MountsInOrder'
<1> SUFFICES ASSUME Typed, MountsInOrder, Acts, status' = "running" PROVE MountsInOrder'
    BY DEF MountsInOrder
<1>0. status = "running" /\ (OpDone \/ Idle)
    BY RunningSteps
<1>1. i \in Nat /\ N \in Nat
    BY DEF Typed, Place, Given, Layout
<1>2. CASE OpDone
    <2>1. OpDone
        BY <1>2
    <2>2. /\ UNCHANGED given /\ i' = i /\ status = "running"
          /\ \A m, q : Ran(m, q) => Ran(m, q)'
        BY <2>1, RanOne DEF OpDone, Running
    <2>3. CASE mounted' = mounted
        BY <1>1, <2>2, <2>3, MountsInOrderSame
    <2>4. CASE mounted' # mounted
        <3>1. Worked
            BY <2>1, <2>4 DEF OpDone, machine
        <3>2. PICK x : x = op
            OBVIOUS
        <3>3. /\ At(i, k) /\ x = OpAt(i, k) /\ Origin(i, k, x) /\ Fits(x, L)
              /\ L' = L /\ N' = N /\ parts' = parts /\ plan' = plan /\ mounted \in Seq(1 .. L)
            BY <2>1, <3>2, HereIs
        <3>4. Effects(x)
            BY <3>1, <3>2, EffectsAre DEF Worked
        <3>5. \A y : WasMounted(y) => WasMounted(y)'
            BY <2>2, <3>3 DEF WasMounted, OpAt
        <3>6. CASE x.do = "mount"
            <4>1. mounted' = Append(mounted, x.on) /\ x.on \in 1 .. L
                BY <3>3, <3>4, <3>6 DEF Effects, Fits, PerPartition
            <4>2. SortedMounts(parts, L, Append(mounted, x.on))
                BY <2>1, <3>1, <3>2, <3>6, MountsOneMore
            <4>3. SortedMounts(parts, L, mounted)'
                BY <3>3, <4>1, <4>2 DEF SortedMounts
            <4>4. PICK m, q : m = i /\ q = k
                OBVIOUS
            <4>5. WasMounted(x.on)'
                <5>1. Ran(m, q)'
                    BY <2>1, <4>4, RanOne
                <5>2. OpAt(m, q)' = x
                    BY <3>3, <4>4 DEF OpAt
                <5> QED
                    BY <3>6, <5>1, <5>2 DEF WasMounted
            <4>6. \A y : InList(mounted, y)' => WasMounted(y)'
                BY <2>2, <3>3, <3>5, <4>1, <4>5, MountedNow DEF MountsInOrder
            <4> QED
                BY <4>3, <4>6 DEF MountsInOrder
        <3>7. CASE x.do = "unmount"
            <4>1. mounted' = Without(mounted, x.on)
                BY <3>4, <3>7 DEF Effects
            <4>2. \A y : InList(mounted', y) => InList(mounted, y)
                BY <3>3, <4>1, TakenOff
            <4>3. SortedMounts(parts, L, mounted)'
                <5>1. SortedMounts(parts, L, mounted)
                    BY <2>2 DEF MountsInOrder
                <5>2. SortedMounts(parts, L, mounted')
                    BY <3>3, <4>1, <5>1, WithoutSorted
                <5> QED
                    BY <3>3, <5>2 DEF SortedMounts
            <4>4. \A y : InList(mounted, y)' => WasMounted(y)'
                BY <2>2, <3>5, <4>2 DEF MountsInOrder, InList
            <4> QED
                BY <4>3, <4>4 DEF MountsInOrder
        <3>8. CASE x.do \notin {"mount", "unmount"}
            BY <2>4, <3>4, <3>8 DEF Effects
        <3> QED
            BY <3>6, <3>7, <3>8
    <2> QED
        BY <2>3, <2>4
<1>3. CASE Idle
    <2>1. /\ UNCHANGED <<given, mounted>> /\ (i' = i \/ i' = i + 1)
          /\ \A m, q : Ran(m, q) => Ran(m, q)'
        BY <1>3 DEF Idle, machine
    <2> QED
        BY <1>0, <1>1, <2>1, MountsInOrderSame
<1> QED
    BY <1>0, <1>2, <1>3

LEMMA NoneMounted == Blank => MountsInOrder
<1> SUFFICES ASSUME Blank PROVE MountsInOrder
    OBVIOUS
<1>1. mounted = <<>>
    BY DEF Blank
<1>2. \A y : ~InList(mounted, y)
    BY <1>1, InNone
<1>3. SortedMounts(parts, L, mounted)
    BY <1>1 DEF SortedMounts
<1> QED
    BY <1>2, <1>3 DEF MountsInOrder

LEMMA MountsInOrderAlways == Spec => []MountsInOrder
<1>1. Init => MountsInOrder
    BY BeginsBlank, NoneMounted
<1> QED
    BY <1>1, MountsInOrderStep, RunActs, TypedAlways, PTL DEF Spec
-----------------------------------------------------------------------------
(* Where files go.                                                         *)
LEMMA LayoutSound ==
    /\ SoundLayout <=> Sound(parts)
    /\ \A at : Home(at) = HomeIn(parts, at) /\ MountedAbove(at) = MountedOver(parts, mounted, at)
BY DEF SoundLayout, Sound, Mountable, FileSystems, mp, Home, HomeIn, Above, MountedAbove, MountedOver

\* Behind the mounts, every file system is mounted until the cleanup.
LEMMA AllMounted ==
    ASSUME Typed, Kept, status = "running", ShellRun, i \in 5 .. N - 1, NEW y \in FileSystems(parts)
    PROVE  InList(mounted, y)
<1>1. MountsAll(plan[4].ops, parts, L) /\ y \in 1 .. L /\ parts[y].fs # "swap"
    BY DEF ShellRun, ShellPlan, MountsRight, parts, Typed, Given, Layout, FileSystems
<1>2. PICK q \in DOMAIN plan[4].ops : plan[4].ops[q] = On("mount", y)
    BY <1>1 DEF MountsAll
<1>3. N \in Nat /\ i \in Int /\ 4 \in 1 .. N
    BY DEF Typed, Given, Layout
<1>4. q \in 1 .. Len(plan[4].ops)
    BY <1>2, <1>3, Operations DEF Typed
<1>5. Ran(4, q)
    BY <1>3, <1>4 DEF Ran, At
<1>6. PICK x : x = OpAt(4, q)
    OBVIOUS
<1>7. x.fatal /\ x.do = "mount" /\ x.on = y
    BY <1>2, <1>6, OpFields DEF OpAt
<1>8. Lasts(x)
    BY <1>5, <1>6, <1>7 DEF Kept
<1> QED
    BY <1>3, <1>7, <1>8 DEF Lasts

\* During the mounts, what is mounted is what was mounted before.
LEMMA MountedSoFar ==
    ASSUME Typed, Kept, MountsInOrder, Running, ShellRun, i = 4
    PROVE  Mounted(plan[4].ops, mounted, k)
<1>1. status = "running" /\ k \in Int /\ N \in {12, 13}
    BY DEF Running, Typed, Place, ShellRun, ShellPlan
<1>2. ASSUME NEW m \in DOMAIN mounted
      PROVE  \E b \in DOMAIN plan[4].ops :
                 b < k /\ plan[4].ops[b].do = "mount" /\ plan[4].ops[b].on = mounted[m]
    <2>1. WasMounted(mounted[m])
        BY <1>1 DEF MountsInOrder, InList
    <2>2. PICK n, b : Ran(n, b) /\ OpAt(n, b).do = "mount" /\ OpAt(n, b).on = mounted[m]
        BY <2>1 DEF WasMounted
    <2>3. n = 4 /\ b \in DOMAIN plan[4].ops /\ OpAt(n, b) = plan[4].ops[b]
        BY <2>2, MountIs
    <2> QED
        BY <2>2, <2>3 DEF Ran
<1>3. ASSUME NEW b \in DOMAIN plan[4].ops, b < k, plan[4].ops[b].do = "mount"
      PROVE  \E m \in DOMAIN mounted : mounted[m] = plan[4].ops[b].on
    <2>1. 4 \in 1 .. N /\ b \in 1 .. Len(plan[4].ops)
        <3>1. 4 \in 1 .. N
            BY <1>1
        <3> QED
            BY <3>1, Operations DEF Typed
    <2>2. PICK x : x = OpAt(4, b) /\ x = plan[4].ops[b]
        BY DEF OpAt
    <2>3. Ran(4, b)
        BY <1>3, <2>1 DEF Ran, At
    <2>4. x.do = "mount" /\ x.fatal
        BY <1>3, <2>2, <2>3, MountIs
    <2>5. Lasts(x)
        BY <1>1, <2>2, <2>3, <2>4 DEF Kept
    <2>6. InList(mounted, x.on)
        BY <1>1, <2>4, <2>5 DEF Lasts
    <2> QED
        BY <2>2, <2>6 DEF InList
<1> QED
    BY <1>2, <1>3 DEF Mounted

\* In a native install both file systems are there before any file.
LEMMA NativeMade ==
    ASSUME Typed, Kept, status = "running", NativeRun, i \in 3 .. N + 1, NEW j \in {1, 2}
    PROVE  holds[j] = "fs"
<1>1. NativeLays(plan) /\ N = 8 /\ parts = agnova_default_disk_layout
    BY DEF NativeRun, NativePlan, N
<1>2. InList(plan[2].ops, On("mkfs", j))
    BY <1>1 DEF NativeLays
<1>3. PICK q \in DOMAIN plan[2].ops : plan[2].ops[q] = On("mkfs", j)
    BY <1>2 DEF InList
<1>4. 2 \in 1 .. N /\ q \in 1 .. Len(plan[2].ops)
    <2>1. 2 \in 1 .. N
        BY <1>1
    <2> QED
        BY <1>3, <2>1, Operations DEF Typed
<1>5. Ran(2, q)
    BY <1>1, <1>4 DEF Ran, At
<1>6. PICK x : x = OpAt(2, q)
    OBVIOUS
<1>7. x.fatal /\ x.do = "mkfs" /\ x.on = j
    BY <1>3, <1>6, OpFields DEF OpAt
<1>8. Lasts(x)
    BY <1>5, <1>6, <1>7 DEF Kept
<1>9. parts[j].fs # "swap"
    BY <1>1 DEF agnova_default_disk_layout
<1> QED
    BY <1>7, <1>8, <1>9 DEF Lasts, Right

LEMMA NativeHome ==
    ASSUME Typed, NativeRun, SoundLayout, NEW at, IsPath(at)
    PROVE  Home(at) = Meant(at)
<1>0. PICK ps : ps = parts
    OBVIOUS
<1>1. PICK l \in Nat : ps = parts /\ l = L /\ OfLayout(ps, l)
    BY <1>0 DEF Typed, Given, Layout
<1>2. /\ DOMAIN ps = 1 .. 2 /\ ps[1].mp = Esp /\ ps[2].mp = <<>>
      /\ ps[1].fs # "swap" /\ ps[2].fs # "swap"
    BY <1>1 DEF NativeRun, agnova_default_disk_layout
<1>3. Len(Esp) = 2 /\ Len(<<>>) = 0
    BY DEF Esp
<1>4. PICK h, a, b : h = HomeIn(ps, at) /\ a = Len(ps[1].mp) /\ b = Len(ps[2].mp)
    OBVIOUS
<1>9. a = 2 /\ b = 0
    BY <1>2, <1>3, <1>4
<1>5. /\ h \in Above(ps, at)
      /\ \A q \in Above(ps, at) : Len(ps[q].mp) <= Len(ps[h].mp)
    BY <1>1, <1>4, LayoutSound, HomeIs
<1>6. h = 1 \/ h = 2
    BY <1>2, <1>5 DEF Above, FileSystems
<1>7. CASE IsPrefix(Esp, at)
    <2>1. 1 \in Above(ps, at)
        BY <1>2, <1>7 DEF Above, FileSystems
    <2>2. h # 2
        <3>1. a <= Len(ps[h].mp)
            BY <1>4, <1>5, <2>1
        <3>2. h = 2 => a <= b
            BY <1>4, <3>1
        <3> QED
            BY <1>9, <3>2
    <2> QED
        BY <1>1, <1>4, <1>6, <1>7, <2>2, LayoutSound DEF Meant
<1>8. CASE ~IsPrefix(Esp, at)
    <2>1. h # 1
        BY <1>2, <1>5, <1>8 DEF Above
    <2> QED
        BY <1>1, <1>4, <1>6, <1>8, <2>1, LayoutSound DEF Meant
<1> QED
    BY <1>7, <1>8

LEMMA PutsHome ==
    ASSUME Typed, Kept, MountsInOrder, Running, SoundLayout,
           NEW x, x = op, x.do \in {"put", "copy"}
    PROVE  IsHome(<<x.what, x.at, Volume(x.at)>>)
<1>1. /\ At(i, k) /\ x = OpAt(i, k) /\ Origin(i, k, x) /\ Fits(x, L) /\ N \in Nat
      /\ L \in Nat /\ mounted \in Seq(1 .. L)
    BY NowAt
<1>2. IsPath(x.at) /\ status = "running" /\ Running
    BY <1>1 DEF Fits, Running
<1>3. PICK n \in Nat : DOMAIN mounted = 1 .. n
    BY <1>1, ListAt
<1>4. Sound(parts) /\ OfLayout(parts, L) /\ i \in Int
    BY LayoutSound DEF Typed, Given, Layout, Place
<1>5. PICK v : v = Volume(x.at)
    OBVIOUS
<1>6. CASE ShellRun /\ i = 4
    <2>1. /\ cfg.backend = "shell" /\ N \in {12, 13} /\ MountsSorted(plan[4].ops, parts, L)
          /\ MountsAll(plan[4].ops, parts, L) /\ MountpointsFirst(plan[4].ops, parts, L)
        BY <1>6 DEF ShellRun, ShellPlan, MountsRight, parts
    <2>2. x.do = "put" /\ x.what = "mountpoint"
        BY <1>1, <1>6 DEF Origin
    <2>12. PICK ops : ops = plan[4].ops
        OBVIOUS
    <2>3. PICK len \in Nat : /\ ops = plan[4].ops /\ DOMAIN ops = 1 .. len /\ k \in 1 .. len
                             /\ x = ops[k]
        <3>1. 4 \in 1 .. N
            BY <2>1
        <3>2. Len(plan[4].ops) \in Nat /\ DOMAIN plan[4].ops = 1 .. Len(plan[4].ops)
            BY <3>1, Operations DEF Typed
        <3>3. k \in 1 .. Len(plan[4].ops) /\ x = plan[4].ops[k]
            BY <1>1, <1>6 DEF At, OpAt
        <3> QED
            BY <2>12, <3>2, <3>3
    <2>4. PICK j \in 1 .. L : parts[j].fs # "swap" /\ MountpointOf(ops, parts, k, j)
        BY <2>1, <2>2, <2>3 DEF MountpointsFirst
    <2>5. x.at = parts[j].mp
        BY <2>3, <2>4, OpFields DEF MountpointOf
    <2>6. Mounted(ops, mounted, k) /\ SortedMounts(parts, L, mounted)
        BY <1>2, <1>6, <2>1, <2>3, MountedSoFar DEF MountsInOrder
    <2>7. j \in FileSystems(parts)
        BY <2>4 DEF FileSystems, Typed, Given, Layout
    <2>8. MadeAtHome(parts, j, mounted)
        <3>1. MakesMountpoint(L, parts, ops, j, k, mounted)
            BY <1>1, <1>3, <1>4, <2>1, <2>3, <2>4, <2>6, <2>7 DEF MakesMountpoint
        <3> QED
            BY <3>1, MountpointHome
    <2>9. MountedAbove(x.at) = MountedOver(parts, mounted, x.at)
        BY LayoutSound
    <2>10. v = IF x.at = <<>> THEN 0 ELSE HomeIn(parts, Front(x.at))
        BY <1>5, <2>1, <2>5, <2>8, <2>9 DEF Volume, MadeAtHome
    <2>11. Home(Front(x.at)) = HomeIn(parts, Front(x.at))
        BY LayoutSound
    <2> QED
        BY <1>5, <2>2, <2>10, <2>11 DEF IsHome
<1>7. CASE ShellRun /\ i # 4
    <2>1. cfg.backend = "shell" /\ ~NativeRun
        BY <1>7 DEF ShellRun, NativeRun
    <2>2. i \in 5 .. N - 1 /\ x.what # "mountpoint"
        BY <1>1, <1>4, <1>7, <2>1 DEF Origin
    <2>3. PICK h : h = HomeIn(parts, x.at)
        OBVIOUS
    <2>4. h \in FileSystems(parts)
        BY <1>1, <1>2, <1>4, <2>3, HomeIs DEF Above
    <2>5. InList(mounted, h)
        BY <1>2, <1>7, <2>2, <2>4, AllMounted
    <2>6. PICK y \in 1 .. n : mounted[y] = h
        BY <1>3, <2>5 DEF InList
    <2>7. SortedMounts(parts, L, mounted)
        BY <1>1, <1>2, <2>2 DEF MountsInOrder
    <2>8. MountedOver(parts, mounted, x.at) # {} /\ mounted[Max(MountedOver(parts, mounted, x.at))] = h
        BY <1>1, <1>2, <1>3, <1>4, <2>3, <2>6, <2>7, TopIsHome
    <2>9. MountedAbove(x.at) = MountedOver(parts, mounted, x.at) /\ Home(x.at) = h
        BY <2>3, LayoutSound
    <2>10. v = Home(x.at)
        BY <1>5, <2>1, <2>8, <2>9 DEF Volume
    <2> QED
        BY <1>5, <2>2, <2>10 DEF IsHome
<1>8. CASE NativeRun
    <2>1. cfg.backend # "shell" /\ ~ShellRun
        BY <1>8 DEF NativeRun, ShellRun
    <2>2. i \in 3 .. N + 1 /\ x.what # "mountpoint"
        BY <1>1, <1>8, <2>1 DEF Origin
    <2>3. Meant(x.at) \in {1, 2}
        BY DEF Meant
    <2>4. holds[Meant(x.at)] = "fs"
        BY <1>2, <1>8, <2>2, <2>3, NativeMade
    <2>5. v = Meant(x.at)
        BY <1>5, <2>1, <2>4 DEF Volume
    <2>6. Home(x.at) = Meant(x.at)
        BY <1>2, <1>8, NativeHome
    <2> QED
        BY <1>5, <2>2, <2>5, <2>6 DEF IsHome
<1> QED
    BY <1>6, <1>7, <1>8 DEF Typed, Given

LEMMA HomeStays ==
    ASSUME UNCHANGED given
    PROVE  /\ SoundLayout' <=> SoundLayout
           /\ \A f : IsHome(f)' <=> IsHome(f)
BY DEF given, SoundLayout, Mountable, mp, parts, IsHome, Home

LEMMA FilesStep == Typed /\ Kept /\ MountsInOrder /\ FilesGoHome /\ Acts => FilesGoHome'
<1> SUFFICES ASSUME Typed, Kept, MountsInOrder, FilesGoHome, Acts, SoundLayout'
             PROVE  \A f \in files' : IsHome(f)'
    BY DEF FilesGoHome
<1>1. UNCHANGED given /\ (files' # files => Running /\ Worked)
    BY DEF Acts, OpDone, OpBroke, Idle, Stopped, machine
<1>2. SoundLayout /\ \A f \in files : IsHome(f)
    BY <1>1, HomeStays DEF FilesGoHome
<1>3. CASE files' = files
    BY <1>1, <1>2, <1>3, HomeStays
<1>4. CASE files' # files
    <2>1. PICK x : x = op
        OBVIOUS
    <2>2. Running /\ Effects(x)
        BY <1>1, <1>4, <2>1, EffectsAre DEF Worked
    <2>3. x.do \in {"put", "copy"} /\ files' = files \cup {<<x.what, x.at, Volume(x.at)>>}
        BY <1>4, <2>2 DEF Effects
    <2>4. IsHome(<<x.what, x.at, Volume(x.at)>>)
        BY <1>2, <2>1, <2>2, <2>3, PutsHome
    <2>5. \A f \in files' : IsHome(f)
        BY <1>2, <2>3, <2>4
    <2> QED
        BY <1>1, <2>5, HomeStays
<1> QED
    BY <1>3, <1>4

\* All that a run puts below the target root lands in the file system that the
\* installed system will find it in, whatever the layout and wherever the run
\* fails: mount_depth sorts the mounts so that each mount point is made in the
\* file system above it, and execute_phase copies nothing behind a failed mount.
THEOREM FilesAlwaysHome == Spec => []FilesGoHome
<1>1. Init => FilesGoHome
    BY DEF Init, FilesGoHome
<1> QED
    BY <1>1, FilesStep, RunActs, TypedAlways, KeptAlways, MountsInOrderAlways, PTL DEF Spec
-----------------------------------------------------------------------------
(* A run that comes to the end has done all of its plan.                   *)
AtEnd == Typed /\ Kept /\ MountsInOrder /\ FilesGoHome /\ status = "running" /\ i = N + 1

LEMMA AllLast ==
    ASSUME AtEnd, NEW m \in 1 .. N, NEW y, InList(plan[m].ops, y), y.fatal
    PROVE  Lasts(y)
<1>1. PICK q \in DOMAIN plan[m].ops : plan[m].ops[q] = y
    BY DEF InList
<1>2. q \in 1 .. Len(plan[m].ops)
    BY <1>1, Operations DEF AtEnd, Typed
<1>3. N \in Nat
    BY DEF AtEnd, Typed, Given, Layout
<1>4. Ran(m, q)
    BY <1>2, <1>3 DEF Ran, At, AtEnd
<1>5. OpAt(m, q) = y
    BY <1>1 DEF OpAt
<1> QED
    BY <1>4, <1>5 DEF AtEnd, Kept

\* What was put and had to be, is at home.
LEMMA ThereAtEnd ==
    ASSUME AtEnd, SoundLayout, NEW m \in 1 .. N, NEW y, InList(plan[m].ops, y), y.fatal,
           y.do \in {"put", "copy"}, y.what # "mountpoint"
    PROVE  There(y.what, y.at)
<1>1. Lasts(y)
    BY AllLast
<1>2. PICK v \in 0 .. L : <<y.what, y.at, v>> \in files
    BY <1>1 DEF Lasts
<1>3. IsHome(<<y.what, y.at, v>>)
    BY <1>2 DEF AtEnd, FilesGoHome
<1>4. v = Home(y.at)
    BY <1>3 DEF IsHome
<1> QED
    BY <1>2, <1>4 DEF There

LEMMA PutAtEnd ==
    ASSUME AtEnd, SoundLayout, NEW m \in 1 .. N, NEW what, NEW at, what # "mountpoint",
           InList(plan[m].ops, Put(what, at)) \/ InList(plan[m].ops, FromBase(what, at))
    PROVE  There(what, at)
<1>1. PICK y : InList(plan[m].ops, y) /\ (y = Put(what, at) \/ y = FromBase(what, at))
    OBVIOUS
<1>2. y.fatal /\ y.do \in {"put", "copy"} /\ y.what = what /\ y.at = at
    BY <1>1, OpFields
<1>3. There(y.what, y.at)
    BY <1>1, <1>2, ThereAtEnd
<1> QED
    BY <1>2, <1>3

LEMMA EndsUnmounted ==
    ASSUME AtEnd
    PROVE  mounted = <<>>
<1>1. ASSUME NEW y, InList(mounted, y) PROVE FALSE
    <2>1. WasMounted(y)
        BY <1>1 DEF AtEnd, MountsInOrder
    <2>2. PICK m, q : Ran(m, q) /\ OpAt(m, q).do = "mount" /\ OpAt(m, q).on = y
        BY <2>1 DEF WasMounted
    <2>3. ShellRun /\ y \in FileSystems(parts)
        BY <2>2, MountIs DEF AtEnd
    <2>4. N \in {12, 13} /\ InList(plan[N].ops, On("unmount", y))
        BY <2>3 DEF ShellRun, ShellPlan, UnmountsRight, parts
    <2>5. PICK x : x = On("unmount", y)
        OBVIOUS
    <2>6. x.fatal /\ x.do = "unmount" /\ x.on = y
        BY <2>5, OpFields
    <2>7. N \in 1 .. N
        BY <2>4
    <2>8. Lasts(x)
        BY <2>4, <2>5, <2>6, <2>7, AllLast
    <2> QED
        BY <1>1, <2>6, <2>8 DEF Lasts
<1>2. PICK n \in Nat : n = Len(mounted) /\ DOMAIN mounted = 1 .. n /\ mounted \in Seq(1 .. L)
    BY ListAt DEF AtEnd, Typed, Machine
<1>3. n = 0
    <2>1. n # 0 => 1 \in DOMAIN mounted
        BY <1>2
    <2> QED
        BY <1>1, <2>1 DEF InList
<1> QED
    BY <1>2, <1>3

\* Every partition is made and holds what it should.
LEMMA EndsLaidOut ==
    ASSUME AtEnd
    PROVE  table = 1 .. L /\ \A p \in 1 .. L : holds[p] = Right(p)
<1>1. DOMAIN parts = 1 .. L /\ L \in Nat /\ table \subseteq 1 .. L
    BY DEF AtEnd, Typed, Given, Layout, Machine
<1>2. ASSUME NEW m \in 1 .. N, NEW p, InList(plan[m].ops, On("mkfs", p))
      PROVE  holds[p] = Right(p)
    <2>1. PICK x : x = On("mkfs", p)
        OBVIOUS
    <2>2. x.fatal /\ x.do = "mkfs" /\ x.on = p
        BY <2>1, OpFields
    <2>3. Lasts(x)
        BY <1>2, <2>1, <2>2, AllLast
    <2> QED
        BY <2>2, <2>3 DEF Lasts
<1>3. CASE ShellRun
    <2>1. 1 \in 1 .. N /\ 3 \in 1 .. N /\ Lays(plan, parts)
        BY <1>3 DEF ShellRun, ShellPlan, parts
    <2>2. ASSUME NEW p \in 1 .. L PROVE p \in table
        <3>1. PICK x : x = On("mkpart", p)
            OBVIOUS
        <3>2. x.fatal /\ x.do = "mkpart" /\ x.on = p
            BY <3>1, OpFields
        <3>3. InList(plan[1].ops, x)
            BY <1>1, <2>1, <3>1 DEF Lays
        <3>4. Lasts(x)
            BY <2>1, <3>2, <3>3, AllLast
        <3> QED
            BY <3>2, <3>4 DEF Lasts
    <2>3. \A p \in 1 .. L : holds[p] = Right(p)
        BY <1>1, <1>2, <2>1 DEF Lays
    <2> QED
        BY <1>1, <2>2, <2>3
<1>4. CASE NativeRun
    <2>1. /\ 1 \in 1 .. N /\ 2 \in 1 .. N /\ NativeLays(plan) /\ L = 2
        BY <1>4 DEF NativeRun, NativePlan, N, L, agnova_default_disk_layout
    <2>2. table = 1 .. 2
        <3>1. PICK x : x = On("gpt", 0)
            OBVIOUS
        <3>2. x.fatal /\ x.do = "gpt"
            BY <3>1, OpFields
        <3>3. Lasts(x)
            BY <2>1, <3>1, <3>2, AllLast DEF NativeLays
        <3> QED
            BY <3>2, <3>3 DEF Lasts
    <2>3. \A p \in 1 .. 2 : holds[p] = Right(p)
        BY <1>2, <2>1 DEF NativeLays
    <2> QED
        BY <2>1, <2>2, <2>3
<1> QED
    BY <1>3, <1>4 DEF AtEnd, Typed, Given

LEMMA EndsInstalled ==
    ASSUME AtEnd, SoundLayout
    PROVE  Installed
<1>1. /\ table = DOMAIN parts /\ mounted = <<>>
      /\ \A p \in DOMAIN parts : holds[p] = IF parts[p].fs = "swap" THEN "swap" ELSE "fs"
    BY EndsUnmounted, EndsLaidOut DEF Right, AtEnd, Typed, Given, Layout
<1>2. /\ "base" # "mountpoint" /\ "agnsh" # "mountpoint" /\ "loader" # "mountpoint"
      /\ "kernel" # "mountpoint" /\ "fstab" # "mountpoint" /\ "first-boot" # "mountpoint"
      /\ "account" # "mountpoint"
    OBVIOUS
<1>3. Marker = Put("first-boot", <<"etc">>)
    BY DEF Marker
<1>4. CASE ShellRun
    <2>1. /\ N \in {12, 13} /\ Equips(plan, cfg, N) /\ cfg.backend = "shell"
        BY <1>4 DEF ShellRun, ShellPlan
    <2>2. ASSUME NEW what, NEW at, what # "mountpoint",
                 Somewhere(plan, N, Put(what, at)) \/ Somewhere(plan, N, FromBase(what, at))
          PROVE  There(what, at)
        BY <2>2, PutAtEnd DEF Somewhere
    <2>3. There("base", <<>>)
        BY <1>2, <2>1, <2>2 DEF Equips
    <2>4. There("loader", LoaderPath)
        <3>1. LoaderPath = LoaderAt(cfg)
            BY <2>1 DEF LoaderPath, LoaderAt
        <3>2. PICK m \in 1 .. N : LoaderIn(plan[m].ops, LoaderPath)
            BY <2>1, <3>1 DEF Equips, LoaderSomewhere
        <3> QED
            BY <1>2, <3>2, PutAtEnd DEF LoaderIn
    <2>5. cfg.boot = "gnoboot" => There("kernel", Esp)
        BY <1>2, <2>1, <2>2 DEF Equips
    <2>6. There("fstab", <<"etc">>) /\ There("first-boot", <<"etc">>)
        BY <1>2, <1>3, <2>1, <2>2 DEF Equips
    <2>7. cfg.user # {} => There("account", <<"etc">>)
        BY <1>2, <2>1, <2>2 DEF Equips
    <2> QED
        BY <1>1, <2>3, <2>4, <2>5, <2>6, <2>7 DEF Installed
<1>5. CASE NativeRun
    <2>1. N = 8 /\ NativeEquips(plan) /\ cfg.backend # "shell"
        BY <1>5 DEF NativeRun, NativePlan, N
    <2>2. 3 \in 1 .. N /\ 5 \in 1 .. N /\ 7 \in 1 .. N /\ 8 \in 1 .. N
        BY <2>1
    <2>3. There("base", <<>>) \/ There("agnsh", <<"bin">>)
        BY <1>2, <2>1, <2>2, PutAtEnd DEF NativeEquips
    <2>4. There("loader", Esp) /\ There("kernel", Esp)
        BY <1>2, <2>1, <2>2, PutAtEnd DEF NativeEquips
    <2>5. There("fstab", <<"etc">>) /\ There("first-boot", <<"etc">>)
        BY <1>2, <1>3, <2>1, <2>2, PutAtEnd DEF NativeEquips
    <2>6. LoaderPath = Esp
        BY <2>1 DEF LoaderPath
    <2> QED
        BY <1>1, <2>1, <2>3, <2>4, <2>5, <2>6 DEF Installed
<1> QED
    BY <1>4, <1>5 DEF AtEnd, Typed, Given
-----------------------------------------------------------------------------
\* Completion is reported at the end of the plan and nowhere else.
Ended ==
    /\ phase = COMPLETE => status = "complete"
    /\ status = "complete" /\ SoundLayout => Installed

LEMMA InstalledStays ==
    ASSUME UNCHANGED <<given, machine>>
    PROVE  Installed' <=> Installed
BY DEF given, machine, Installed, There, LoaderPath, Home, Mountable, mp, parts

LEMMA EndedStep ==
    Typed /\ Kept /\ MountsInOrder /\ FilesGoHome /\ Ended /\ [Next]_vars => Ended'
<1> SUFFICES ASSUME Typed, Kept, MountsInOrder, FilesGoHome, Ended, [Next]_vars PROVE Ended'
    OBVIOUS
<1>1. CASE Enter
    <2>1. i \in 1 .. N /\ status' # "complete"
        BY <1>1 DEF Enter, Typed, Place, Given, Layout, N
    <2>2. phase' \in PARTITION .. CLEANUP
        BY <1>1, <2>1, Operations DEF Enter, PhaseEntered, entry, Typed
    <2>3. phase' # COMPLETE
        BY <2>2 DEF PARTITION, CLEANUP, COMPLETE
    <2> QED
        BY <2>1, <2>3 DEF Ended
<1>2. CASE OpSucceeds \/ OpFailsLate \/ OpFails
    <2>1. Recording
        BY <1>2, OpSteps
    <2>2. status = "running" /\ phase' = phase /\ (status' = status \/ status' = "failed")
        BY <2>1 DEF Recording, Running
    <2> QED
        BY <2>2 DEF Ended
<1>3. CASE Leave
    <2>1. status = "running" /\ phase' = phase /\ status' # "complete"
        BY <1>3 DEF Leave
    <2> QED
        BY <2>1 DEF Ended
<1>4. CASE Finish
    <2>1. status = "running" /\ i > N /\ UNCHANGED <<given, machine>> /\ status' = "complete"
        BY <1>4 DEF Finish, N
    <2>2. i = N + 1
        BY <2>1 DEF Typed, Place, Given, Layout
    <2>3. SoundLayout => Installed
        BY <2>1, <2>2, EndsInstalled DEF AtEnd
    <2> QED
        BY <2>1, <2>3, HomeStays, InstalledStays DEF Ended
<1>5. CASE Exited \/ UNCHANGED vars
    <2>1. UNCHANGED vars
        BY <1>5 DEF Exited
    <2>2. UNCHANGED <<given, machine, phase, status>>
        BY <2>1 DEF vars, inst
    <2> QED
        BY <2>2, HomeStays, InstalledStays DEF Ended
<1> QED
    BY <1>1, <1>2, <1>3, <1>4, <1>5 DEF Next

\* A run reports success only for a machine that can be rebooted, whatever the
\* configuration and whatever fails on the way: execute_all comes to its end
\* only over operations that were done, and no later one undoes an earlier one.
THEOREM SuccessIsEarned == Spec => []SuccessMeansInstalled
<1>1. Init => Ended
    BY DEF Init, Ended, VALIDATE, COMPLETE
<1>2. Ended => SuccessMeansInstalled
    BY DEF Ended, SuccessMeansInstalled, Success
<1> QED
    BY <1>1, <1>2, EndedStep, TypedAlways, KeptAlways, MountsInOrderAlways, FilesAlwaysHome, PTL
       DEF Spec
-----------------------------------------------------------------------------
(* What else a running executor has behind it.                             *)

\* What is in the table was made by an operation of the plan; nothing but
\* encryption opens a mapping.
WasMade(y) == \E m, q : Ran(m, q) /\ OpAt(m, q).do = "mkpart" /\ OpAt(m, q).on = y
TableMade ==
    status = "running" =>
        /\ ShellRun => \A y \in table : WasMade(y)
        /\ ~cfg.encrypt => ~mapped
LEMMA InTurns ==
    ASSUME Given, ShellRun
    PROVE  Turns(plan, cfg, N)
BY DEF ShellRun

LEMMA NothingOpened ==
    ASSUME Typed, Running, NEW x, x = op, ~cfg.encrypt
    PROVE  x.do # "luksOpen" /\ x.do # "luksFormat"
<1>1. At(i, k) /\ x = OpAt(i, k) /\ i \in 1 .. N
    BY NowAt
<1>2. CASE ShellRun
    <2>1. Turns(plan, cfg, N) /\ N \in {12, 13}
        BY <1>2, InTurns DEF Typed, ShellRun, ShellPlan
    <2>2. plan[2].ops = <<>>
        BY <2>1 DEF Turns
    <2>3. i # 2
        BY <1>1, <2>2 DEF At
    <2>4. Kind(x) \in KindsAt(i, N)
        BY <1>1, <1>2, Operations DEF At, OpAt, KindsIn, ShellRun, Typed
    <2>5. \/ Kind(x) \in OnDisk \/ Kind(x) \in Formatting \/ Kind(x) \in Mounting
          \/ Kind(x) \in WritingFstab \/ Kind(x) \in Cleaning
        BY <2>3, <2>4 DEF KindsAt
    <2> QED
        BY <2>5, KindsSay
<1>3. CASE NativeRun
    <2>1. Kind(x) \in NativeKindsAt(i)
        BY <1>1, <1>3, Operations DEF At, OpAt, KindsIn, NativeRun, Typed
    <2>2. Kind(x) \in {<<"gpt", "">>} \cup Formatting \cup NativeWriting
        BY <2>1 DEF NativeKindsAt
    <2> QED
        BY <2>2 DEF Kind, Formatting, NativeWriting, WritingFstab, Writing
<1> QED
    BY <1>2, <1>3 DEF Typed, Given

LEMMA OpensOrLabels ==
    ASSUME Effect, NEW x, x = op
    PROVE  /\ mapped' => mapped \/ x.do = "luksOpen"
           /\ x.do = "mklabel" => table' = {}
<1>1. CASE Partitions
    BY <1>1 DEF Partitions
<1>2. CASE Contents
    BY <1>2 DEF Contents
<1>3. CASE Mounts
    BY <1>3 DEF Mounts
<1>4. CASE Holders
    BY <1>4 DEF Holders
<1>5. CASE Puts
    BY <1>5 DEF Puts
<1>6. CASE Neither
    BY <1>6 DEF Neither, machine
<1> QED
    BY <1>1, <1>2, <1>3, <1>4, <1>5, <1>6 DEF Effect

LEMMA TableMadeStep == Typed /\ TableMade /\ Acts => TableMade'
<1> SUFFICES ASSUME Typed, TableMade, Acts, status' = "running" PROVE TableMade'
    BY DEF TableMade
<1>1. /\ status = "running" /\ plan' = plan /\ parts' = parts /\ L' = L /\ N' = N /\ cfg' = cfg
      /\ OpDone \/ Idle
    BY RunningSteps
<1>2. ShellRun' <=> ShellRun
    BY <1>1 DEF ShellRun
<1>3. /\ ShellRun => \A y \in table : WasMade(y)
      /\ ~cfg.encrypt => ~mapped
    BY <1>1 DEF TableMade
<1>4. \A m, q : OpAt(m, q)' = OpAt(m, q)
    BY <1>1 DEF OpAt
<1>5. ASSUME NEW y, WasMade(y) PROVE WasMade(y)'
    <2>1. PICK m, q : Ran(m, q) /\ OpAt(m, q).do = "mkpart" /\ OpAt(m, q).on = y
        BY <1>5 DEF WasMade
    <2>2. Ran(m, q)'
        BY <1>1, <2>1, RanOne DEF Idle
    <2> QED
        BY <1>4, <2>1, <2>2 DEF WasMade
<1>6. CASE UNCHANGED machine
    BY <1>1, <1>2, <1>3, <1>5, <1>6 DEF TableMade, machine
<1>7. CASE OpDone /\ Worked
    <2>1. PICK x : x = op
        OBVIOUS
    <2>2. /\ Origin(i, k, x) /\ x = OpAt(i, k)
        BY <1>7, <2>1, HereIs
    <2>3. Effects(x) /\ (mapped' => mapped \/ x.do = "luksOpen") /\ (x.do = "mklabel" => table' = {})
        BY <1>7, <2>1, EffectsAre, OpensOrLabels DEF Worked
    <2>4. ~cfg.encrypt => ~mapped'
        BY <1>3, <1>7, <2>1, <2>3, NothingOpened DEF OpDone
    <2>5. ASSUME ShellRun, NEW y \in table' PROVE WasMade(y)'
        <3>1. x.do # "gpt"
            BY <2>2, <2>5 DEF Origin, ShellRun, NativeRun
        <3>2. CASE x.do = "mkpart" /\ y = x.on
            <4>1. PICK m, q : m = i /\ q = k
                OBVIOUS
            <4>2. Ran(m, q)'
                BY <1>7, <4>1, RanOne
            <4>3. OpAt(m, q)' = x
                BY <1>4, <2>2, <4>1
            <4> QED
                BY <3>2, <4>2, <4>3 DEF WasMade
        <3>3. CASE ~(x.do = "mkpart" /\ y = x.on)
            <4>1. y \in table
                BY <2>3, <2>5, <3>1, <3>3 DEF Effects
            <4> QED
                BY <1>3, <1>5, <2>5, <4>1
        <3> QED
            BY <3>2, <3>3
    <2> QED
        BY <1>1, <1>2, <2>4, <2>5 DEF TableMade
<1> QED
    BY <1>1, <1>6, <1>7 DEF Idle, OpDone

LEMMA TableMadeAlways == Spec => []TableMade
<1>1. Init => TableMade
    BY DEF Init, TableMade
<1> QED
    BY <1>1, TableMadeStep, RunActs, TypedAlways, PTL DEF Spec

\* What a shell install put before the clean-up is still where it would be put
\* now; a mount point only until its file system is mounted.
Arrived(x) == <<x.what, x.at, Volume(x.at)>> \in files
Lately(m, q) == m \in 5 .. N \/ (m = 4 /\ i = 4 /\ q = k - 1)
PutsStay ==
    status = "running" /\ ShellRun /\ i < N =>
        \A m, q :
            Ran(m, q) /\ Lately(m, q) /\ OpAt(m, q).fatal /\ OpAt(m, q).do \in {"put", "copy"} =>
                Arrived(OpAt(m, q))
LEMMA PutsStayStep == Typed /\ PutsStay /\ Acts => PutsStay'
<1> SUFFICES ASSUME Typed, PutsStay, Acts, status' = "running", ShellRun', i' < N',
                    NEW m, NEW q, Ran(m, q)', Lately(m, q)',
                    OpAt(m, q)'.fatal, OpAt(m, q)'.do \in {"put", "copy"}
             PROVE  Arrived(OpAt(m, q))'
    BY DEF PutsStay
<1>1. /\ status = "running" /\ plan' = plan /\ parts' = parts /\ L' = L /\ N' = N /\ cfg' = cfg
      /\ OpDone \/ Idle
    BY RunningSteps
<1>2. PICK y : y = OpAt(m, q) /\ OpAt(m, q)' = y /\ y.fatal /\ y.do \in {"put", "copy"}
    BY <1>1 DEF OpAt
<1>3. /\ ShellRun /\ i \in Int /\ k \in Int /\ N \in Int /\ cfg.backend = "shell"
      /\ N \in {12, 13}
    BY <1>1 DEF ShellRun, ShellPlan, Typed, Place, Given, Layout
<1>4. mounted' = mounted => Volume(y.at)' = Volume(y.at)
    BY <1>1, <1>3 DEF Volume, MountedAbove, mp
<1>5. CASE Idle
    <2>1. Ran(m, q) /\ UNCHANGED machine
        BY <1>5 DEF Idle
    <2>2. i < N
        BY <1>1, <1>3, <1>5 DEF Idle
    <2>3. Lately(m, q)
        <3>1. CASE UNCHANGED <<i, k>>
            BY <1>1, <3>1 DEF Lately
        <3>2. CASE k' \in {0, 1}
            <4>1. q \in Nat /\ q # 0
                BY <2>1 DEF Ran, At
            <4>2. k' - 1 \in {-1, 0}
                BY <3>2
            <4>3. ~(q = k' - 1)
                <5>1. q # -1
                    BY <4>1
                <5> QED
                    BY <4>1, <4>2, <5>1
            <4> QED
                BY <1>1, <4>3 DEF Lately
        <3> QED
            BY <1>5, <3>1, <3>2 DEF Idle
    <2>4. Arrived(y)
        BY <1>1, <1>2, <1>3, <2>1, <2>2, <2>3 DEF PutsStay
    <2> QED
        BY <1>2, <1>4, <2>1, <2>4 DEF Arrived, machine
<1>6. CASE OpDone
    <2>1. PICK x : x = op
        OBVIOUS
    <2>2. Origin(i, k, x) /\ x = OpAt(i, k) /\ i' = i
        BY <1>6, <2>1, HereIs
    <2>3. k' = k + 1 /\ (Ran(m, q) \/ (m = i /\ q = k))
        BY <1>6, RanOne DEF OpDone
    <2>4. CASE m = i /\ q = k
        <3>1. y = x
            BY <1>2, <2>2, <2>4
        <3>2. Worked
            BY <1>1, <1>2, <1>6, <2>1, <3>1 DEF Idle, OpDone
        <3>3. Effects(x)
            BY <2>1, <3>2, EffectsAre DEF Worked
        <3>4. mounted' = mounted /\ <<y.what, y.at, Volume(y.at)>> \in files'
            BY <1>2, <3>1, <3>3 DEF Effects
        <3> QED
            BY <1>2, <1>4, <3>4 DEF Arrived
    <2>5. CASE ~(m = i /\ q = k)
        <3>1. Ran(m, q) /\ m \in 5 .. N
            <4>1. m = 4 /\ i' = 4 => q # k' - 1
                BY <1>3, <2>2, <2>3, <2>5
            <4> QED
                BY <1>1, <2>3, <2>5, <4>1 DEF Lately
        <3>2. i \in 5 .. N - 1
            BY <1>1, <1>3, <2>2, <3>1 DEF Ran
        <3>3. Arrived(y)
            BY <1>1, <1>2, <1>3, <3>1, <3>2 DEF PutsStay, Lately
        <3>4. x.do # "mount" /\ x.do # "unmount"
            BY <1>3, <2>2, <3>2 DEF Origin
        <3>5. mounted' = mounted /\ files \subseteq files'
            <4>1. CASE Worked
                <5>1. Effects(x)
                    BY <2>1, <4>1, EffectsAre DEF Worked
                <5> QED
                    BY <3>4, <5>1 DEF Effects
            <4>2. CASE UNCHANGED machine
                BY <4>2 DEF machine
            <4> QED
                BY <1>6, <4>1, <4>2 DEF OpDone
        <3> QED
            BY <1>2, <1>4, <3>3, <3>5 DEF Arrived
    <2> QED
        BY <2>4, <2>5
<1> QED
    BY <1>1, <1>5, <1>6

LEMMA PutsStayAlways == Spec => []PutsStay
<1>1. Init => PutsStay
    BY NoneRan, BeginsBlank DEF PutsStay
<1> QED
    BY <1>1, PutsStayStep, RunActs, TypedAlways, PTL DEF Spec

\* What was mounted is mounted until its own unmount has run.
Unmounted(y) == \E m, q : Ran(m, q) /\ OpAt(m, q).do = "unmount" /\ OpAt(m, q).on = y
MountsStay ==
    status = "running" =>
        \A m, q : Ran(m, q) /\ OpAt(m, q).do = "mount" =>
            InList(mounted, OpAt(m, q).on) \/ Unmounted(OpAt(m, q).on)
LEMMA MountsStayStep == Typed /\ MountsStay /\ Acts => MountsStay'
<1> SUFFICES ASSUME Typed, MountsStay, Acts, status' = "running", NEW m, NEW q,
                    Ran(m, q)', OpAt(m, q)'.do = "mount"
             PROVE  InList(mounted, OpAt(m, q).on)' \/ Unmounted(OpAt(m, q).on)'
    BY DEF MountsStay
<1>1. /\ status = "running" /\ plan' = plan /\ parts' = parts /\ L' = L /\ N' = N /\ cfg' = cfg
      /\ OpDone \/ Idle
    BY RunningSteps
<1>2. \A n, r : OpAt(n, r)' = OpAt(n, r)
    BY <1>1 DEF OpAt
<1>3. PICK y, z : y = OpAt(m, q) /\ y.do = "mount" /\ z = y.on
    BY <1>2
<1>4. SUFFICES InList(mounted', z) \/ Unmounted(z)'
    <2>1. OpAt(m, q)'.on = z
        BY <1>2, <1>3
    <2> QED
        BY <1>4, <2>1 DEF InList, Unmounted
<1>5. Unmounted(z) => Unmounted(z)'
    <2> SUFFICES ASSUME Unmounted(z) PROVE Unmounted(z)'
        OBVIOUS
    <2>1. PICK n, r : Ran(n, r) /\ OpAt(n, r).do = "unmount" /\ OpAt(n, r).on = z
        BY DEF Unmounted
    <2>2. Ran(n, r)'
        BY <1>1, <2>1, RanOne DEF Idle
    <2> QED
        BY <1>2, <2>1, <2>2 DEF Unmounted
<1>6. Ran(m, q) => InList(mounted, z) \/ Unmounted(z)
    BY <1>1, <1>3 DEF MountsStay
<1>7. CASE Idle
    BY <1>5, <1>6, <1>7 DEF Idle, machine
<1>8. CASE OpDone
    <2>1. PICK x : x = op
        OBVIOUS
    <2>2. Origin(i, k, x) /\ Fits(x, L) /\ x = OpAt(i, k) /\ mounted \in Seq(1 .. L)
        BY <1>8, <2>1, HereIs
    <2>3. Ran(m, q) \/ (m = i /\ q = k)
        BY <1>8, RanOne
    <2>4. CASE m = i /\ q = k
        <3>1. y = x
            BY <1>3, <2>2, <2>4
        <3>2. x.fatal
            <4>1. At(m, q) /\ Origin(m, q, y)
                BY <2>2, <2>4, <3>1, <1>8, <2>1, HereIs
            <4>2. ShellRun /\ m = 4
                BY <1>3, <4>1 DEF Origin
            <4>3. q \in DOMAIN plan[4].ops /\ y = plan[4].ops[q]
                BY <1>3, <4>1, <4>2, Operations DEF At, OpAt, Typed
            <4>4. MountsReal(plan[4].ops, parts, L)
                BY <4>2 DEF ShellRun, ShellPlan, MountsRight, parts
            <4> QED
                BY <1>3, <3>1, <4>3, <4>4 DEF MountsReal
        <3>3. Worked
            BY <1>8, <2>1, <3>2 DEF OpDone, Idle
        <3>4. Effects(x)
            BY <2>1, <3>3, EffectsAre DEF Worked
        <3>5. mounted' = Append(mounted, x.on) /\ x.on \in 1 .. L
            BY <1>3, <2>2, <3>1, <3>4 DEF Effects, Fits, PerPartition
        <3> QED
            BY <1>3, <2>2, <3>1, <3>5, MountedNow
    <2>5. CASE Ran(m, q)
        <3>1. CASE ~Worked
            <4>1. mounted' = mounted
                BY <1>8, <3>1 DEF OpDone, machine
            <4> QED
                BY <1>5, <1>6, <2>5, <4>1
        <3>2. CASE Worked
            <4>1. Effects(x)
                BY <2>1, <3>2, EffectsAre DEF Worked
            <4>2. CASE x.do = "unmount" /\ x.on = z
                <5>1. PICK n, r : n = i /\ r = k
                    OBVIOUS
                <5>2. Ran(n, r)' /\ OpAt(n, r)' = x
                    BY <1>2, <1>8, <2>2, <5>1, RanOne
                <5> QED
                    BY <4>2, <5>2 DEF Unmounted
            <4>3. CASE x.do = "unmount" /\ x.on # z
                <5>1. mounted' = Without(mounted, x.on)
                    BY <4>1, <4>3 DEF Effects
                <5>2. InList(mounted, z) => InList(mounted', z)
                    BY <2>2, <4>3, <5>1, TakenOff
                <5> QED
                    BY <1>5, <1>6, <2>5, <5>2
            <4>4. CASE x.do = "mount"
                <5>1. mounted' = Append(mounted, x.on) /\ x.on \in 1 .. L
                    BY <2>2, <4>1, <4>4 DEF Effects, Fits, PerPartition
                <5>2. InList(mounted, z) => InList(mounted', z)
                    BY <2>2, <5>1, MountedNow
                <5> QED
                    BY <1>5, <1>6, <2>5, <5>2
            <4>5. CASE x.do # "mount" /\ x.do # "unmount"
                <5>1. mounted' = mounted
                    BY <4>1, <4>5 DEF Effects
                <5> QED
                    BY <1>5, <1>6, <2>5, <5>1
            <4> QED
                BY <4>2, <4>3, <4>4, <4>5
        <3> QED
            BY <3>1, <3>2
    <2> QED
        BY <2>3, <2>4, <2>5
<1> QED
    BY <1>1, <1>7, <1>8

LEMMA MountsStayAlways == Spec => []MountsStay
<1>1. Init => MountsStay
    BY NoneRan, BeginsBlank DEF MountsStay
<1> QED
    BY <1>1, MountsStayStep, RunActs, TypedAlways, PTL DEF Spec
-----------------------------------------------------------------------------
(* Every operation finds what it needs: what an earlier entry, or the same *)
(* one before it, has made.                                                *)
Behind == Typed /\ Kept /\ MountsInOrder /\ TableMade /\ PutsStay /\ MountsStay

\* An executor of such a plan has this, whatever it makes of failures.
LEMMA BehindAtFirst ==
    ASSUME Given, Blank
    PROVE  Behind /\ FilesGoHome
<1>1. Typed /\ MountsInOrder
    BY BlankTyped, NoneMounted
<1>2. Kept /\ PutsStay /\ MountsStay
    BY NoneRan DEF Kept, PutsStay, MountsStay
<1>3. TableMade /\ FilesGoHome
    BY DEF Blank, TableMade, FilesGoHome
<1> QED
    BY <1>1, <1>2, <1>3 DEF Behind

LEMMA BehindStep ==
    ASSUME Behind, Acts, Typed'
    PROVE  Behind'
BY KeptStep, MountsInOrderStep, TableMadeStep, PutsStayStep, MountsStayStep DEF Behind

LEMMA BehindFailed ==
    ASSUME Typed', status' # "running"
    PROVE  Behind'
BY DEF Behind, Kept, MountsInOrder, TableMade, PutsStay, MountsStay

LEMMA RanOfList ==
    ASSUME Typed, NEW m \in 1 .. N, NEW x, InList(plan[m].ops, x)
    PROVE  \E q : At(m, q) /\ q \in DOMAIN plan[m].ops /\ OpAt(m, q) = x
<1>1. PICK q \in DOMAIN plan[m].ops : plan[m].ops[q] = x
    BY DEF InList
<1>2. q \in 1 .. Len(plan[m].ops)
    BY <1>1, Operations DEF Typed
<1> QED
    BY <1>1, <1>2 DEF At, OpAt

LEMMA LastsOfList ==
    ASSUME Typed, Kept, status = "running", NEW m \in 1 .. N, m < i,
           NEW x, InList(plan[m].ops, x), x.fatal
    PROVE  Lasts(x) /\ \E q : Ran(m, q) /\ OpAt(m, q) = x
<1>1. PICK q : At(m, q) /\ OpAt(m, q) = x
    BY RanOfList
<1>2. Ran(m, q)
    BY <1>1 DEF Ran
<1> QED
    BY <1>1, <1>2 DEF Kept

\* The commands that one entry only has.
LEMMA OfOneEntry ==
    ASSUME Given, NEW m \in 1 .. N, NEW x, Kind(x) \in KindsIn(m)
    PROVE  /\ x.do = "set" => ShellRun /\ m = 1
           /\ x.do = "swapon" => ShellRun /\ m = 4
<1>1. N \in Nat /\ (ShellRun => N \in {12, 13}) /\ (NativeRun => N = 8)
    BY DEF Given, Layout, ShellRun, ShellPlan, NativeRun, NativePlan, N
<1>2. CASE ShellRun
    <2>1. Kind(x) \in KindsAt(m, N)
        BY <1>2 DEF KindsIn, ShellRun
    <2>2. m = 1 => Kind(x) \in OnDisk
        BY <2>1 DEF KindsAt
    <2>3. m = 4 => Kind(x) \in Mounting
        BY <2>1 DEF KindsAt
    <2>4. m # 1 /\ m # 4 => \/ Kind(x) \in Encrypting \/ Kind(x) \in Formatting
                            \/ Kind(x) \in WritingFstab \/ Kind(x) \in Cleaning
        BY <2>1 DEF KindsAt
    <2> QED
        BY <1>2, <2>2, <2>3, <2>4, KindsSay
<1>3. CASE NativeRun
    <2>1. Kind(x) \in NativeKindsAt(m)
        BY <1>3 DEF KindsIn, NativeRun
    <2>2. Kind(x) \in {<<"gpt", "">>} \cup Formatting \cup NativeWriting
        BY <2>1 DEF NativeKindsAt
    <2> QED
        BY <2>2 DEF Kind, Formatting, NativeWriting, WritingFstab, Writing
<1> QED
    BY <1>2, <1>3 DEF Given

\* Of the operations of an entry in turn, those of one command that come
\* before the one at hand are behind the executor.
LEMMA SameEntry ==
    ASSUME Typed, Running, NEW ops, ops = plan[i].ops
    PROVE  /\ k \in DOMAIN ops /\ ops[k] = op
           /\ \A q \in DOMAIN ops : q \in Nat /\ (q < k => Ran(i, q) /\ OpAt(i, q) = ops[q])
<1>1. At(i, k) /\ op = OpAt(i, k) /\ i \in 1 .. N /\ k \in Nat
    BY NowAt
<1>2. Len(ops) \in Nat /\ DOMAIN ops = 1 .. Len(ops)
    BY <1>1, Operations DEF Typed
<1>3. k \in DOMAIN ops /\ ops[k] = op
    BY <1>1, <1>2 DEF At, OpAt
<1>4. ASSUME NEW q \in DOMAIN ops
      PROVE  q \in Nat /\ (q < k => Ran(i, q) /\ OpAt(i, q) = ops[q])
    <2>1. At(i, q)
        BY <1>1, <1>2, <1>4 DEF At
    <2> QED
        BY <1>2, <1>4, <2>1 DEF Ran, OpAt
<1> QED
    BY <1>3, <1>4

\* Partitions are made by number, from the first on.
LEMMA MkpartFinds ==
    ASSUME Behind, Running, NEW x, x = op, x.do = "mkpart"
    PROVE  table = 1 .. x.on - 1
<1>1. /\ ShellRun /\ i = 1 /\ status = "running" /\ L \in Nat /\ k \in Nat /\ N \in Nat
      /\ DOMAIN parts = 1 .. L /\ x.on \in 1 .. L /\ table \in SUBSET (1 .. L)
    BY NowAt DEF Behind, Origin, Fits, PerPartition, Typed, Machine
<1>2. PICK ops : ops = plan[1].ops
    OBVIOUS
<1>3. /\ InTurn(ops, "mkpart", Smaller)
      /\ \A j \in 1 .. L : InList(ops, On("mkpart", j))
    BY <1>1, <1>2, InTurns DEF Behind, Typed, Turns, ShellRun, ShellPlan, Lays, parts
<1>4. /\ k \in DOMAIN ops /\ ops[k] = x
      /\ \A q \in DOMAIN ops : q \in Nat /\ (q < k => Ran(1, q) /\ OpAt(1, q) = ops[q])
    BY <1>1, <1>2, SameEntry DEF Behind
<1>5. ASSUME NEW y \in table PROVE y < x.on
    <2>1. WasMade(y)
        BY <1>1 DEF Behind, TableMade
    <2>2. PICK m, q : Ran(m, q) /\ OpAt(m, q).do = "mkpart" /\ OpAt(m, q).on = y
        BY <2>1 DEF WasMade
    <2>3. At(m, q) /\ Origin(m, q, OpAt(m, q))
        BY <2>2, OriginsKnown DEF Ran, Behind, Typed
    <2>4. m = 1
        BY <2>2, <2>3 DEF Origin
    <2>5. q \in DOMAIN ops
        <3>1. 1 \in 1 .. N
            BY <2>3, <2>4 DEF At
        <3>2. DOMAIN ops = 1 .. Len(ops)
            BY <1>2, <3>1, Operations DEF Behind, Typed
        <3> QED
            BY <1>2, <2>3, <2>4, <3>2 DEF At
    <2>6. q < k /\ ops[q] = OpAt(m, q)
        BY <1>1, <1>2, <2>2, <2>4 DEF Ran, OpAt
    <2>7. <<y, x.on>> \in Smaller
        BY <1>3, <1>4, <2>2, <2>5, <2>6 DEF InTurn
    <2> QED
        BY <2>7 DEF Smaller
<1>6. ASSUME NEW y \in 1 .. L, y < x.on PROVE y \in table
    <2>1. PICK z : z = On("mkpart", y)
        OBVIOUS
    <2>2. z.do = "mkpart" /\ z.on = y /\ z.fatal
        BY <2>1, OpFields
    <2>3. PICK q \in DOMAIN ops : ops[q] = z
        BY <1>3, <2>1 DEF InList
    <2>4. ~(k < q)
        <3>1. k < q => <<x.on, y>> \in Smaller
            BY <1>3, <1>4, <2>2, <2>3 DEF InTurn
        <3> QED
            BY <1>1, <1>6, <3>1 DEF Smaller
    <2>5. q # k
        BY <1>1, <1>4, <1>6, <2>2, <2>3
    <2>6. q < k
        BY <1>1, <1>4, <2>4, <2>5
    <2>7. Lasts(z)
        BY <1>1, <1>4, <2>2, <2>3, <2>6 DEF Behind, Kept
    <2> QED
        BY <2>2, <2>7 DEF Lasts
<1>7. \A y \in table : y \in 1 .. x.on - 1
    BY <1>1, <1>5
<1>8. \A y \in 1 .. x.on - 1 : y \in table
    BY <1>1, <1>6
<1> QED
    BY <1>7, <1>8

\* A flag is set on a partition that is there.
LEMMA SetFinds ==
    ASSUME Behind, Running, NEW x, x = op, x.do = "set"
    PROVE  x.on \in table
<1>1. /\ ShellRun /\ i = 1 /\ status = "running" /\ L \in Nat /\ k \in Nat
      /\ DOMAIN parts = 1 .. L /\ x.on \in 1 .. L
    <2>1. Kind(x) \in KindsIn(i) /\ Fits(x, L) /\ i \in 1 .. N
        BY NowAt DEF Behind
    <2>2. ShellRun /\ i = 1
        BY <2>1, OfOneEntry DEF Behind, Typed
    <2> QED
        BY <2>1, <2>2, NowAt DEF Behind, Fits, PerPartition
<1>2. PICK ops : ops = plan[1].ops
    OBVIOUS
<1>3. /\ InTurn(ops, "mkpart", Smaller) /\ SetsBehind(ops)
      /\ \A j \in 1 .. L : InList(ops, On("mkpart", j))
    BY <1>1, <1>2, InTurns DEF Behind, Typed, Turns, ShellRun, ShellPlan, Lays, parts
<1>4. /\ k \in DOMAIN ops /\ ops[k] = x
      /\ \A q \in DOMAIN ops : q \in Nat /\ (q < k => Ran(1, q) /\ OpAt(1, q) = ops[q])
    BY <1>1, <1>2, SameEntry DEF Behind
<1>5. PICK a \in DOMAIN ops : a < k /\ ops[a].do = "mkpart" /\ ops[a].on = x.on
    BY <1>3, <1>4 DEF SetsBehind
<1>6. PICK z : z = On("mkpart", x.on)
    OBVIOUS
<1>7. z.do = "mkpart" /\ z.on = x.on /\ z.fatal
    BY <1>6, OpFields
<1>8. PICK q \in DOMAIN ops : ops[q] = z
    BY <1>1, <1>3, <1>6 DEF InList
<1>9. ~(a < q)
    <2>1. a < q => <<x.on, x.on>> \in Smaller
        BY <1>3, <1>5, <1>7, <1>8 DEF InTurn
    <2> QED
        BY <1>1, <2>1 DEF Smaller
<1>10. q < k
    BY <1>1, <1>4, <1>5, <1>9
<1>11. Lasts(z)
    BY <1>1, <1>4, <1>7, <1>8, <1>10 DEF Behind, Kept
<1> QED
    BY <1>7, <1>11 DEF Lasts
-----------------------------------------------------------------------------
\* In a native install the table comes first, with both partitions.
LEMMA NativeTable ==
    ASSUME Typed, Kept, status = "running", NativeRun, 1 < i
    PROVE  table = 1 .. 2
<1>1. 1 \in 1 .. N /\ InList(plan[1].ops, On("gpt", 0))
    BY DEF NativeRun, NativePlan, NativeLays, Typed, Given, Layout
<1>2. PICK z : z = On("gpt", 0)
    OBVIOUS
<1>3. z.do = "gpt" /\ z.fatal
    BY <1>2, OpFields
<1>4. Lasts(z)
    BY <1>1, <1>2, <1>3, LastsOfList
<1> QED
    BY <1>3, <1>4 DEF Lasts

\* A partition is formatted once it is there and before it is mounted.
LEMMA MkfsFinds ==
    ASSUME Behind, Running, ~cfg.encrypt, NEW x, x = op, x.do = "mkfs"
    PROVE  /\ x.on \in table
           /\ IF cfg.backend = "shell" THEN ~Busy(x.on) ELSE parts[x.on].fs \in {"vfat", "ext4"}
<1>1. /\ (ShellRun /\ i = 3) \/ (NativeRun /\ i = 2)
      /\ status = "running" /\ L \in Nat /\ N \in Nat /\ DOMAIN parts = 1 .. L /\ x.on \in 1 .. L
      /\ mounted \in Seq(1 .. L)
    BY NowAt DEF Behind, Origin, Fits, PerPartition
<1>2. CASE ShellRun
    <2>1. i = 3 /\ cfg.backend = "shell" /\ 1 \in 1 .. N
        BY <1>1, <1>2 DEF ShellRun, NativeRun, ShellPlan
    <2>2. InList(plan[1].ops, On("mkpart", x.on))
        BY <1>1, <1>2 DEF ShellRun, ShellPlan, Lays, parts
    <2>3. PICK z : z = On("mkpart", x.on)
        OBVIOUS
    <2>4. z.do = "mkpart" /\ z.on = x.on /\ z.fatal
        BY <2>3, OpFields
    <2>5. Lasts(z)
        BY <1>1, <2>1, <2>2, <2>3, <2>4, LastsOfList DEF Behind
    <2>6. x.on \in table
        BY <2>4, <2>5 DEF Lasts
    <2>7. ~InList(mounted, x.on)
        <3> SUFFICES ASSUME InList(mounted, x.on) PROVE FALSE
            OBVIOUS
        <3>1. WasMounted(x.on)
            BY <1>1 DEF Behind, MountsInOrder
        <3>2. PICK m, q : Ran(m, q) /\ OpAt(m, q).do = "mount"
            BY <3>1 DEF WasMounted
        <3>3. m = 4
            BY <3>2, MountIs DEF Behind
        <3> QED
            BY <2>1, <3>2, <3>3 DEF Ran
    <2>8. x.on \notin ToSet(mounted)
        BY <2>7 DEF InList, ToSet
    <2>9. ~mapped
        BY <1>1 DEF Behind, TableMade
    <2> QED
        BY <2>1, <2>6, <2>8, <2>9 DEF Busy
<1>3. CASE NativeRun
    <2>1. i = 2 /\ cfg.backend = "native" /\ parts = agnova_default_disk_layout
        BY <1>1, <1>3 DEF ShellRun, NativeRun
    <2>2. table = 1 .. 2
        BY <1>1, <1>3, <2>1, NativeTable DEF Behind
    <2>3. L = 2
        BY <2>1 DEF agnova_default_disk_layout, L
    <2>4. x.on = 1 \/ x.on = 2
        BY <1>1, <2>3
    <2>5. parts[1].fs = "vfat" /\ parts[2].fs = "ext4"
        BY <2>1 DEF agnova_default_disk_layout
    <2> QED
        BY <1>1, <2>1, <2>2, <2>3, <2>4, <2>5
<1> QED
    BY <1>1, <1>2, <1>3

\* A partition is mounted formatted, and on a directory made for it.
LEMMA MountFinds ==
    ASSUME Behind, Running, ~cfg.encrypt, NEW x, x = op, x.do = "mount"
    PROVE  /\ holds[Device(x.on)] = "fs"
           /\ <<"mountpoint", mp(x.on), Volume(mp(x.on))>> \in files
<1>1. /\ ShellRun /\ i = 4 /\ status = "running" /\ L \in Nat /\ N \in Nat /\ k \in Nat
      /\ DOMAIN parts = 1 .. L /\ x.on \in 1 .. L
    BY NowAt DEF Behind, Origin, Fits, PerPartition
<1>2. N \in {12, 13} /\ 3 \in 1 .. N
    BY <1>1 DEF ShellRun, ShellPlan
<1>3. PICK ops : ops = plan[4].ops
    OBVIOUS
<1>4. /\ k \in DOMAIN ops /\ ops[k] = x
      /\ \A q \in DOMAIN ops : q \in Nat /\ (q < k => Ran(4, q) /\ OpAt(4, q) = ops[q])
    BY <1>1, <1>3, SameEntry DEF Behind
<1>5. /\ MountsReal(ops, parts, L) /\ MountsPrepared(ops, parts)
      /\ InList(plan[3].ops, On("mkfs", x.on))
    BY <1>1, <1>3 DEF ShellRun, ShellPlan, MountsRight, Lays, parts
<1>6. holds[x.on] = "fs"
    <2>1. PICK z : z = On("mkfs", x.on)
        OBVIOUS
    <2>2. z.do = "mkfs" /\ z.on = x.on /\ z.fatal
        BY <2>1, OpFields
    <2>3. Lasts(z)
        BY <1>1, <1>2, <1>5, <2>1, <2>2, LastsOfList DEF Behind
    <2>4. parts[x.on].fs # "swap"
        BY <1>4, <1>5 DEF MountsReal
    <2> QED
        BY <2>2, <2>3, <2>4 DEF Lasts, Right
<1>7. PICK a \in DOMAIN ops : k = a + 1 /\ ops[a] = Put("mountpoint", parts[x.on].mp)
    BY <1>4, <1>5 DEF MountsPrepared
<1>8. PICK z : z = OpAt(4, a) /\ z = Put("mountpoint", parts[x.on].mp)
    BY <1>3, <1>7 DEF OpAt
<1>9. z.do = "put" /\ z.what = "mountpoint" /\ z.at = parts[x.on].mp /\ z.fatal
    BY <1>8, OpFields
<1>10. Ran(4, a) /\ Lately(4, a)
    BY <1>1, <1>4, <1>7 DEF Lately
<1>11. Arrived(z)
    <2>1. i < N
        BY <1>1, <1>2
    <2> QED
        BY <1>1, <1>8, <1>9, <1>10, <2>1 DEF Behind, PutsStay
<1> QED
    BY <1>6, <1>9, <1>11 DEF Arrived, Device, mp

\* What is copied out of the base system is there.
LEMMA CopyFinds ==
    ASSUME Behind, Running, NEW x, x = op, x.do = "copy"
    PROVE  <<"base", <<>>, Volume(<<>>)>> \in files
<1>1. /\ (ShellRun /\ i \in 4 .. N - 1) \/ (NativeRun /\ i \in 3 .. N)
      /\ (i = 4 /\ ShellRun => x.do = "put")
      /\ status = "running" /\ N \in Nat /\ i \in 1 .. N /\ At(i, k) /\ x = OpAt(i, k)
    BY NowAt DEF Behind, Origin
<1>2. PICK ops : ops = plan[i].ops
    OBVIOUS
<1>3. k \in DOMAIN ops /\ ops[k] = x
    BY <1>2, SameEntry DEF Behind
<1>4. CASE ShellRun
    <2>1. Turns(plan, cfg, N) /\ N \in {12, 13}
        BY <1>4, InTurns DEF Behind, Typed, ShellRun, ShellPlan
    <2>2. i # 5
        BY <1>2, <1>3, <2>1 DEF Turns, Never
    <2>3. i # 4 /\ (NativeRun => FALSE)
        BY <1>1, <1>4 DEF ShellRun, NativeRun
    <2>4. i \in 6 .. N - 1 /\ 5 \in 1 .. N
        BY <1>1, <2>1, <2>2, <2>3
    <2>5. PICK z : z = Put("base", <<>>)
        OBVIOUS
    <2>6. z.do = "put" /\ z.what = "base" /\ z.at = <<>> /\ z.fatal
        BY <2>5, OpFields
    <2>7. InList(plan[5].ops, z)
        BY <2>1, <2>5 DEF Turns
    <2>8. 5 < i /\ i < N
        BY <2>1, <2>4
    <2>9. PICK q : Ran(5, q) /\ OpAt(5, q) = z
        BY <1>1, <2>4, <2>6, <2>7, <2>8, LastsOfList DEF Behind
    <2>10. Lately(5, q)
        BY <2>1 DEF Lately
    <2>11. Arrived(z)
        BY <1>1, <1>4, <2>6, <2>8, <2>9, <2>10 DEF Behind, PutsStay
    <2> QED
        BY <2>6, <2>11 DEF Arrived
<1>5. CASE NativeRun
    <2>1. N = 8
        BY <1>5 DEF NativeRun, NativePlan, N
    <2>2. Never(plan[i].ops, "copy")
        BY <1>1, <1>5, <2>1 DEF NativeRun
    <2> QED
        BY <1>2, <1>3, <2>2 DEF Never
<1> QED
    BY <1>1, <1>4, <1>5
-----------------------------------------------------------------------------
(* What is unmounted has nothing mounted above it or below.                *)
LEMMA EmptyIs ==
    ASSUME NEW p, IsPath(p)
    PROVE  Len(p) = 0 <=> p = <<>>
<1>1. PICK S : p \in Seq(S)
    BY DEF IsPath
<1> QED
    BY <1>1

LEMMA NotBeforeItself ==
    ASSUME NEW l \in Nat, OfLayout(parts, l), NEW y
    PROVE  <<y, y>> \notin UnmountTurns(parts)
<1> SUFFICES ASSUME <<y, y>> \in UnmountTurns(parts) PROVE FALSE
    OBVIOUS
<1>1. y \in FileSystems(parts)
    BY DEF UnmountTurns, ByKey
<1>2. y \in 1 .. l /\ Slashes(parts[y]) \in Nat
    BY <1>1 DEF OfLayout, OfParts, FileSystems
<1>3. Heights(parts)[y] = -Slashes(parts[y])
    BY <1>1 DEF Heights
<1>4. Heights(parts)[y] < Heights(parts)[y] \/ y < y
    BY DEF UnmountTurns, ByKey
<1> QED
    BY <1>2, <1>3, <1>4

LEMMA NotDeeperThanItself ==
    ASSUME NEW l \in Nat, OfLayout(parts, l), NEW y \in FileSystems(parts)
    PROVE  <<y, y>> \notin Before(parts, l)
<1> SUFFICES ASSUME <<y, y>> \in Before(parts, l) PROVE FALSE
    OBVIOUS
<1>1. y \in 1 .. l /\ Slashes(parts[y]) \in Nat /\ y \in DOMAIN parts
    BY DEF OfLayout, OfParts, FileSystems
<1>2. Depths(parts)[y] = MountDepth(parts[y]) /\ MountDepth(parts[y]) \in Nat
    BY <1>1 DEF Depths, MountDepth
<1>3. Depths(parts)[y] < Depths(parts)[y] \/ y < y
    BY DEF Before, ByKey
<1> QED
    BY <1>1, <1>2, <1>3

\* Of two file systems one of which is mounted inside the other, the one
\* inside is mounted later and unmounted earlier.
LEMMA InsideOut ==
    ASSUME Typed, Unmountable, NEW y \in FileSystems(parts), NEW z \in FileSystems(parts),
           <<y, z>> \in Before(parts, L), <<y, z>> \in UnmountTurns(parts)
    PROVE  ~IsPrefix(mp(y), mp(z)) /\ ~IsPrefix(mp(z), mp(y))
<1>1. OfLayout(parts, L) /\ DOMAIN parts = 1 .. L /\ L \in Nat /\ FileSystems(parts) = Mountable
    BY DEF Typed, Given, Layout, FileSystems, Mountable
<1>2. PICK s, t : s = mp(y) /\ t = mp(z)
    OBVIOUS
<1>3. IsPath(s) /\ IsPath(t) /\ y \in 1 .. L /\ z \in 1 .. L
    BY <1>1, <1>2 DEF OfLayout, mp, FileSystems
<1>4. PICK a, b : a = Len(s) /\ b = Len(t)
    OBVIOUS
<1>5. a \in Nat /\ b \in Nat
    BY <1>3, <1>4, PrefixIs
<1>6. y # z
    BY <1>1, NotBeforeItself
<1>7. /\ s # <<"none">> /\ t # <<"none">> /\ s # t
      /\ (a = 1 /\ t = <<>> => y < z) /\ (b = 1 /\ s = <<>> => z < y)
    BY <1>1, <1>2, <1>4, <1>6 DEF Unmountable, SoundLayout
<1>8. /\ Slashes(parts[y]) = (IF s = <<>> THEN 1 ELSE a)
      /\ Slashes(parts[z]) = (IF t = <<>> THEN 1 ELSE b)
      /\ MountDepth(parts[y]) = (IF s = <<>> THEN 0 ELSE a)
      /\ MountDepth(parts[z]) = (IF t = <<>> THEN 0 ELSE b)
    BY <1>2, <1>4, <1>7 DEF Slashes, MountDepth, mp
<1>9. MountDepth(parts[y]) <= MountDepth(parts[z])
    <2>1. Depths(parts)[y] = MountDepth(parts[y]) /\ Depths(parts)[z] = MountDepth(parts[z])
        BY <1>1, <1>3 DEF Depths
    <2>2. Depths(parts)[y] < Depths(parts)[z] \/ Depths(parts)[y] = Depths(parts)[z]
        BY DEF Before, ByKey
    <2> QED
        BY <1>5, <1>8, <2>1, <2>2
<1>10. \/ Slashes(parts[y]) > Slashes(parts[z])
       \/ Slashes(parts[y]) = Slashes(parts[z]) /\ y < z
    <2>1. Heights(parts)[y] = -Slashes(parts[y]) /\ Heights(parts)[z] = -Slashes(parts[z])
        BY DEF Heights
    <2>2. \/ Heights(parts)[y] < Heights(parts)[z]
          \/ Heights(parts)[y] = Heights(parts)[z] /\ y < z
        BY DEF UnmountTurns, ByKey
    <2> QED
        BY <1>5, <1>8, <2>1, <2>2
<1>11. (s = <<>> => a = 0) /\ (t = <<>> => b = 0) /\ (a = 0 => s = <<>>) /\ (b = 0 => t = <<>>)
    BY <1>3, <1>4, EmptyIs
<1>12. a = b /\ a # 0 /\ b # 0
    <2>1. CASE s = <<>>
        <3>1. b # 0
            BY <1>7, <1>11, <2>1
        <3>2. b = 1 /\ y < z
            BY <1>5, <1>8, <1>10, <1>11, <2>1, <3>1
        <3>3. z < y
            BY <1>7, <2>1, <3>2
        <3> QED
            BY <1>3, <3>2, <3>3
    <2>2. CASE s # <<>> /\ t = <<>>
        BY <1>5, <1>8, <1>9, <1>11, <2>2
    <2>3. CASE s # <<>> /\ t # <<>>
        BY <1>5, <1>8, <1>9, <1>10, <1>11, <2>3
    <2> QED
        BY <2>1, <2>2, <2>3
<1>13. IsPrefix(s, t) => s = t
    BY <1>3, <1>4, <1>12, PrefixIs, PathsEqual
<1>14. IsPrefix(t, s) => s = t
    BY <1>3, <1>4, <1>12, PrefixIs, PathsEqual
<1> QED
    BY <1>2, <1>7, <1>13, <1>14

LEMMA UnmountFinds ==
    ASSUME Behind, Running, Unmountable, NEW x, x = op, x.do = "unmount"
    PROVE  x.on \in ToSet(mounted) /\ Over(x.on) = {}
<1>1. /\ ShellRun /\ i = N /\ status = "running" /\ L \in Nat /\ k \in Nat
      /\ DOMAIN parts = 1 .. L /\ x.on \in 1 .. L /\ mounted \in Seq(1 .. L) /\ OfLayout(parts, L)
    BY NowAt DEF Behind, Origin, Fits, PerPartition, Typed, Given, Layout
<1>2. N \in {12, 13} /\ 4 \in 1 .. N /\ N \in 1 .. N
    BY <1>1 DEF ShellRun, ShellPlan
<1>3. PICK ops : ops = plan[N].ops
    OBVIOUS
<1>4. /\ k \in DOMAIN ops /\ ops[k] = x
      /\ \A q \in DOMAIN ops : q \in Nat /\ (q < k => Ran(N, q) /\ OpAt(N, q) = ops[q])
    BY <1>1, <1>3, SameEntry DEF Behind
<1>5. /\ InTurn(ops, "unmount", UnmountTurns(parts)) /\ UnmountsOnly(ops, FileSystems(parts))
      /\ \A j \in FileSystems(parts) : InList(ops, On("unmount", j))
    BY <1>1, <1>3, InTurns DEF Behind, Typed, Turns, ShellRun, ShellPlan, UnmountsRight, parts
<1>6. PICK z : z = x.on /\ z \in FileSystems(parts)
    BY <1>4, <1>5 DEF UnmountsOnly, InList
<1>7. ~Unmounted(z)
    <2> SUFFICES ASSUME Unmounted(z) PROVE FALSE
        OBVIOUS
    <2>1. PICK m, q : Ran(m, q) /\ OpAt(m, q).do = "unmount" /\ OpAt(m, q).on = z
        BY DEF Unmounted
    <2>2. At(m, q) /\ Origin(m, q, OpAt(m, q))
        BY <2>1, OriginsKnown DEF Ran, Behind, Typed
    <2>3. m = N
        BY <2>1, <2>2 DEF Origin
    <2>4. q \in DOMAIN ops /\ ops[q] = OpAt(m, q) /\ q < k
        <3>1. DOMAIN ops = 1 .. Len(ops)
            BY <1>2, <1>3, Operations DEF Behind, Typed
        <3> QED
            BY <1>1, <1>3, <2>1, <2>2, <2>3, <3>1 DEF At, Ran, OpAt
    <2>5. <<z, z>> \in UnmountTurns(parts)
        BY <1>4, <1>5, <1>6, <2>1, <2>4 DEF InTurn
    <2> QED
        BY <1>1, <2>5, NotBeforeItself
<1>8. InList(mounted, z)
    <2>1. PICK q \in DOMAIN plan[4].ops : plan[4].ops[q] = On("mount", z)
        BY <1>1, <1>6 DEF ShellRun, ShellPlan, MountsRight, MountsAll, parts, FileSystems
    <2>2. PICK y : y = On("mount", z)
        OBVIOUS
    <2>3. y.do = "mount" /\ y.on = z
        BY <2>2, OpFields
    <2>4. InList(plan[4].ops, y)
        BY <2>1, <2>2 DEF InList
    <2>5. PICK r : At(4, r) /\ OpAt(4, r) = y
        BY <1>2, <2>4, RanOfList DEF Behind
    <2>6. Ran(4, r)
        BY <1>1, <1>2, <2>5 DEF Ran
    <2> QED
        BY <1>1, <1>7, <2>3, <2>5, <2>6 DEF Behind, MountsStay
<1>9. z \in ToSet(mounted)
    BY <1>8 DEF InList, ToSet
<1>10. ASSUME NEW q \in DOMAIN mounted, NEW m \in 1 .. q - 1, mounted[m] = z
       PROVE  ~IsPrefix(mp(z), mp(mounted[q])) /\ ~IsPrefix(mp(mounted[q]), mp(z))
    <2>1. PICK y : y = mounted[q]
        OBVIOUS
    <2>2. PICK n \in Nat : n = Len(mounted) /\ DOMAIN mounted = 1 .. n
        BY <1>1, ListAt
    <2>3. m \in DOMAIN mounted /\ m < q
        BY <2>2
    <2>4. y \in FileSystems(parts) /\ <<z, y>> \in Before(parts, L)
        BY <1>1, <1>10, <2>1, <2>3 DEF Behind, MountsInOrder, SortedMounts
    <2>5. y # z
        BY <1>1, <1>6, <2>4, NotDeeperThanItself
    <2>6. PICK w : w = On("unmount", y)
        OBVIOUS
    <2>7. w.do = "unmount" /\ w.on = y /\ w.fatal
        BY <2>6, OpFields
    <2>8. PICK r \in DOMAIN ops : ops[r] = w
        BY <1>5, <2>4, <2>6 DEF InList
    <2>9. r # k
        BY <1>4, <1>6, <2>5, <2>7, <2>8
    <2>10. ~(r < k)
        <3> SUFFICES ASSUME r < k PROVE FALSE
            OBVIOUS
        <3>1. Ran(N, r) /\ OpAt(N, r) = w
            BY <1>4, <2>8
        <3>2. Lasts(w)
            BY <1>1, <2>7, <3>1 DEF Behind, Kept
        <3>3. ~InList(mounted, y)
            BY <2>7, <3>2 DEF Lasts
        <3> QED
            BY <2>1, <3>3 DEF InList
    <2>11. k < r
        BY <1>1, <1>4, <2>9, <2>10
    <2>12. <<z, y>> \in UnmountTurns(parts)
        BY <1>4, <1>5, <1>6, <2>7, <2>8, <2>11 DEF InTurn
    <2> QED
        BY <1>6, <2>1, <2>4, <2>12, InsideOut DEF Behind
<1>11. Over(z) = {}
    BY <1>10 DEF Over
<1> QED
    BY <1>6, <1>9, <1>11

LEMMA FindsAll ==
    ASSUME Behind
    PROVE  PlanPossible
<1> SUFFICES ASSUME Running, ~cfg.encrypt, op.fatal, op.do = "unmount" => Unmountable
             PROVE  Possible
    BY DEF PlanPossible
<1>1. PICK x : x = op
    OBVIOUS
<1>2. /\ Kind(x) \in KindsIn(i) /\ Origin(i, k, x) /\ i \in 1 .. N /\ At(i, k) /\ x = OpAt(i, k)
      /\ status = "running" /\ x.fatal
    BY <1>1, NowAt DEF Behind
<1>3. x.do = "mkpart" => table = 1 .. x.on - 1
    BY <1>1, MkpartFinds
<1>4. x.do \in {"set", "luksFormat", "mkfs"} => x.on \in table
    BY <1>1, SetFinds, MkfsFinds, NothingOpened DEF Behind
<1>5. x.do # "luksOpen"
    BY <1>1, NothingOpened DEF Behind
<1>6. x.do = "mkfs" =>
          IF cfg.backend = "shell" THEN ~Busy(x.on) ELSE parts[x.on].fs \in {"vfat", "ext4"}
    BY <1>1, MkfsFinds
<1>7. x.do = "mount" => /\ holds[Device(x.on)] = "fs"
                        /\ <<"mountpoint", mp(x.on), Volume(mp(x.on))>> \in files
    BY <1>1, MountFinds
<1>8. x.do = "unmount" => x.on \in ToSet(mounted) /\ Over(x.on) = {}
    BY <1>1, UnmountFinds
<1>9. x.do # "swapon"
    <2> SUFFICES ASSUME x.do = "swapon" PROVE FALSE
        OBVIOUS
    <2>1. ShellRun /\ i = 4
        BY <1>2, OfOneEntry DEF Behind, Typed
    <2>2. SwapsOptional(plan[4].ops)
        BY <2>1 DEF ShellRun, ShellPlan, MountsRight
    <2>3. k \in DOMAIN plan[4].ops /\ plan[4].ops[k] = x
        <3>1. PICK ops : ops = plan[i].ops
            OBVIOUS
        <3>2. k \in DOMAIN ops /\ ops[k] = x
            BY <1>1, <3>1, SameEntry DEF Behind
        <3> QED
            BY <2>1, <3>1, <3>2
    <2> QED
        BY <1>2, <2>2, <2>3 DEF SwapsOptional
<1>10. x.do = "put" => cfg.backend = "shell" \/ table # {}
    <2> SUFFICES ASSUME x.do = "put", cfg.backend # "shell" PROVE table # {}
        OBVIOUS
    <2>1. NativeRun /\ 1 < i
        BY <1>2 DEF Origin, ShellRun
    <2>2. table = 1 .. 2
        BY <1>2, <2>1, NativeTable DEF Behind
    <2> QED
        BY <2>2
<1>11. x.do = "copy" => <<"base", <<>>, Volume(<<>>)>> \in files
    BY <1>1, CopyFinds
<1> QED
    BY <1>1, <1>3, <1>4, <1>5, <1>6, <1>7, <1>8, <1>9, <1>10, <1>11 DEF Possible

\* What a plan has done before never makes its next operation impossible,
\* whatever the layout and whatever failed on the way (encryption and the tie
\* of "/" with "/home" apart): PartitionPlan numbers what it makes, mount_depth
\* sorts the mounts, plan_cleanup takes them off from the deepest, and nothing
\* that has to be there is put behind what needs it.
THEOREM NextIsPossible == Spec => []PlanPossible
<1>1. Typed /\ Kept /\ MountsInOrder /\ TableMade /\ PutsStay /\ MountsStay => PlanPossible
    BY FindsAll DEF Behind
<1> QED
    BY <1>1, TypedAlways, KeptAlways, MountsInOrderAlways, TableMadeAlways, PutsStayAlways,
       MountsStayAlways, PTL
=============================================================================
