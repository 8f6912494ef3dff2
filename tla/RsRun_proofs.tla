----------------------------- MODULE RsRun_proofs -----------------------------
(***************************************************************************)
(* Runs of the Rust library's plan.  A client takes the phases in their    *)
(* order, the port's executor the entries of the plan in theirs; as long   *)
(* as no failure is on record the two do the same to the machine, which    *)
(* therefore has what Installer_proofs shows of any executor that works    *)
(* through such a plan.                                                    *)
(***************************************************************************)
EXTENDS RsInstaller_proofs

\* The plan in the order of the phases, the entry of it that the client is at
\* (behind the last one when it has no entry left), and its standing: a client
\* that goes on after a failure is not an executor any more.
RunPlan == Turned(PortPlan)
Pos == IF i # 0 THEN Turn[i] ELSE IF phase = "ValidateConfig" THEN 1 ELSE 14
Stat == IF errors = <<>> THEN status ELSE "failed"

R == INSTANCE Installer_proofs WITH
         Configs <- {}, cfg <- Ported, plan <- RunPlan, i <- Pos, status <- Stat,
         phase <- index(phase), completed <- completed_phases

\* The executor's planners are the port's.
LEMMA PlannersSame ==
    /\ \A c, n : R!On(c, n) = On(c, n) /\ R!Put(c, n) = Put(c, n) /\ R!FromBase(c, n) = FromBase(c, n)
    /\ \A x : R!NonFatal(x) = NonFatal(x)
    /\ R!Nothing = Nothing /\ R!Marker = Marker /\ R!Esp = Esp
    /\ \A p, ops : R!Phase(p, ops) = Phase(p, ops) /\ R!If(p, ops) = If(p, ops)
    /\ \A s : R!InOrder(s) = InOrder(s) /\ R!FlattenSeq(s) = FlattenSeq(s)
BY DEF R!On, On, R!Put, Put, R!FromBase, FromBase, R!NonFatal, NonFatal, R!Nothing, Nothing,
       R!Marker, Marker, R!Esp, Esp, R!Phase, Phase, R!If, If, R!InOrder, InOrder,
       R!FlattenSeq, FlattenSeq

LEMMA OrdersSame ==
    ASSUME NEW p
    PROVE  R!MountOrder(p) = MountOrder(p) /\ R!CleanupOrder(p) = CleanupOrder(p)
           /\ R!RootOf(p) = RootOf(p)
<1>2. R!MountOrder(p) = MountOrder(p)
    BY DEF R!MountOrder, MountOrder, R!Ordered, Ordered, R!MountDepth, MountDepth, R!Slashes,
           Slashes, R!Cardinality, Cardinality
<1>3. R!CleanupOrder(p) = CleanupOrder(p)
    BY DEF R!CleanupOrder, CleanupOrder, R!Ordered, Ordered, R!Slashes,
           Slashes, R!Cardinality, Cardinality
<1>4. R!RootOf(p) = RootOf(p)
    BY DEF R!RootOf, RootOf
<1> QED
    BY <1>2, <1>3, <1>4

LEMMA PlansSame ==
    ASSUME NEW c
    PROVE  R!full_execution_plan(c) = full_execution_plan(c)
<1>1. R!PartitionPlan(c) = PartitionPlan(c) /\ R!FormatPlan(c) = FormatPlan(c)
    BY PlannersSame DEF R!PartitionPlan, PartitionPlan, R!FormatPlan, FormatPlan, R!ForEach, ForEach
<1>2. R!EncryptionPlan(c) = EncryptionPlan(c)
    BY PlannersSame, OrdersSame DEF R!EncryptionPlan, EncryptionPlan
<1>3. R!MountPlan(c) = MountPlan(c)
    BY PlannersSame, OrdersSame DEF R!MountPlan, MountPlan, R!ForEach, ForEach
<1>4. R!BasePlan(c) = BasePlan(c) /\ R!PackagesPlan(c) = PackagesPlan(c)
    BY PlannersSame DEF R!BasePlan, BasePlan, R!PackagesPlan, PackagesPlan
<1>5. R!BootloaderPlan(c) = BootloaderPlan(c)
    BY PlannersSame DEF R!BootloaderPlan, BootloaderPlan, R!GrubPlan, GrubPlan, R!SystemdPlan,
                        SystemdPlan, R!GnobootPlan, GnobootPlan
<1>6. R!UserPlan(c) = UserPlan(c) /\ R!NetworkPlan(c) = NetworkPlan(c)
    BY PlannersSame DEF R!UserPlan, UserPlan, R!NetworkPlan, NetworkPlan
<1>7. R!LocalePlan(c) = LocalePlan(c) /\ R!SecurityPlan(c) = SecurityPlan(c)
    BY PlannersSame DEF R!LocalePlan, LocalePlan, R!SecurityPlan, SecurityPlan
<1>8. R!FirstBootPlan(c) = FirstBootPlan(c)
    BY PlannersSame DEF R!FirstBootPlan, FirstBootPlan, R!Services, Services
<1>9. R!CleanupPlan(c) = CleanupPlan(c)
    <2> DEFINE T(o) == [m \in DOMAIN o |-> <<On("unmount", o[m])>>]
               U(o) == [m \in DOMAIN o |-> If(c.parts[o[m]].fs = "swap", <<NonFatal(On("release", o[m]))>>)]
               last == If(c.encrypt, <<NonFatal(On("release", 0))>>)
               E(s, t, u) == (<<Nothing>> \o FlattenSeq(s)) \o FlattenSeq(t) \o u
    <2>1. CleanupPlan(c) = E(T(CleanupOrder(c.parts)), U(InOrder(c.parts)), last)
        BY DEF CleanupPlan, ForEach
    <2>2. R!CleanupPlan(c) =
              (<<R!Nothing>> \o R!FlattenSeq([m \in DOMAIN R!CleanupOrder(c.parts) |->
                                               <<R!On("unmount", R!CleanupOrder(c.parts)[m])>>]))
              \o R!FlattenSeq([m \in DOMAIN R!InOrder(c.parts) |->
                                R!If(c.parts[R!InOrder(c.parts)[m]].fs = "swap",
                                     <<R!NonFatal(R!On("release", R!InOrder(c.parts)[m]))>>)])
              \o R!If(c.encrypt, <<R!NonFatal(R!On("release", 0))>>)
        BY DEF R!CleanupPlan, R!ForEach
    <2>3. [m \in DOMAIN R!CleanupOrder(c.parts) |-> <<R!On("unmount", R!CleanupOrder(c.parts)[m])>>]
          = T(CleanupOrder(c.parts))
        BY PlannersSame, OrdersSame
    <2>4. [m \in DOMAIN R!InOrder(c.parts) |->
                                R!If(c.parts[R!InOrder(c.parts)[m]].fs = "swap",
                                     <<R!NonFatal(R!On("release", R!InOrder(c.parts)[m]))>>)]
           = U(InOrder(c.parts))
        BY PlannersSame DEF R!If, If
    <2>5. R!If(c.encrypt, <<R!NonFatal(R!On("release", 0))>>) = last
        BY PlannersSame DEF R!If, If
    <2> HIDE DEF T, U, last
    <2> QED
        BY <2>1, <2>2, <2>3, <2>4, <2>5, PlannersSame
<1> QED
    BY <1>1, <1>2, <1>3, <1>4, <1>5, <1>6, <1>7, <1>8, <1>9, PlannersSame
    DEF R!full_execution_plan, full_execution_plan,
        R!PARTITION, PARTITION, R!ENCRYPTION, ENCRYPTION, R!FORMAT, FORMAT, R!MOUNT, MOUNT,
        R!BASE, BASE, R!PACKAGES, PACKAGES, R!CONFIGURE, CONFIGURE, R!BOOTLOADER, BOOTLOADER,
        R!USER, USER, R!SECURITY, SECURITY, R!FIRST_BOOT, FIRST_BOOT, R!CLEANUP, CLEANUP
-----------------------------------------------------------------------------
(* The plan that such an executor is given.                                *)
LEMMA EntryLists ==
    ASSUME config \in InstallConfig, plan = RsExecutionPlan(config, uefi), NEW m \in 1 .. 13
    PROVE  IsList(plan[m].operations)
<1>1. /\ IsList(plan[1].operations) /\ IsList(plan[2].operations) /\ IsList(plan[3].operations)
      /\ IsList(plan[4].operations) /\ IsList(plan[5].operations) /\ IsList(plan[6].operations)
      /\ IsList(plan[7].operations) /\ IsList(plan[8].operations) /\ IsList(plan[9].operations)
      /\ IsList(plan[10].operations) /\ IsList(plan[11].operations)
      /\ IsList(plan[12].operations) /\ IsList(plan[13].operations)
    BY PartitionAlike, EncryptionAlike, FormatAlike, MountAlike, BaseAlike,
       PackagesAlike, BootloaderAlike, UserPlanAlike, NetworkPlanAlike, LocaleAlike,
       SecurityAlike, FirstBootAlike, CleanupAlike DEF Makes, RsExecutionPlan
<1>2. \/ m = 1 \/ m = 2 \/ m = 3 \/ m = 4 \/ m = 5 \/ m = 6 \/ m = 7 \/ m = 8 \/ m = 9
      \/ m = 10 \/ m = 11 \/ m = 12 \/ m = 13
    OBVIOUS
<1> QED
    BY <1>1, <1>2

LEMMA RunGiven ==
    ASSUME ConfigKnown, RecInv
    PROVE  /\ R!Given /\ R!L = Len(parts(config)) /\ DOMAIN parts(config) = 1 .. R!L
           /\ R!N = 13 /\ R!ShellRun
<1>1. config \in InstallConfig /\ plan = RsExecutionPlan(config, uefi)
    BY ConfigTypes DEF ConfigKnown, RecInv, Client
<1>2. PICK l \in Nat : OfLayout(Ported.parts, l) /\ DOMAIN parts(config) = 1 .. l
    BY <1>1, PortedLayout
<1>3. Ported.backend = "shell" /\ Ported.user # {}
    BY DEF Ported
<1>4. RunPlan = R!Turned(R!full_execution_plan(Ported))
    BY <1>1, PlanAlike, PlansSame DEF RunPlan, Turned, R!Turned, Turn, R!Turn
<1>5. R!OfLayout(Ported.parts, l)
    BY <1>2 DEF OfLayout, R!OfLayout, OfParts, R!OfParts, Slashes, R!Slashes, IsPath, R!IsPath
<1>6. R!ShellPlan(RunPlan, Ported, l, 13) /\ R!Turns(RunPlan, Ported, 13)
    <2> HIDE DEF RunPlan
    <2> QED
        BY <1>3, <1>4, <1>5, R!TurnedPlan
<1>7. R!L = l /\ R!N = 13 /\ DOMAIN RunPlan = 1 .. 13 /\ DOMAIN Ported.parts = 1 .. l
    BY <1>2, <1>6 DEF R!L, R!N, R!parts, R!ShellPlan, OfLayout, OfParts
<1>8. R!Layout
    BY <1>5, <1>7 DEF R!Layout, R!parts
<1>9. R!ShellRun
    BY <1>3, <1>6, <1>7 DEF R!ShellRun
<1>10. Len(parts(config)) = l
    <2>1. parts(config) \in Seq(PartitionSpec)
        BY <1>1 DEF InstallConfig, DiskLayout, parts
    <2> QED
        BY <1>2, <2>1
<1> QED
    BY <1>2, <1>7, <1>8, <1>9, <1>10 DEF R!Given

\* Its entries are the client's.
LEMMA RunAt ==
    ASSUME ConfigKnown, RecInv, NEW m \in 1 .. 13
    PROVE  /\ Turn[m] \in 1 .. 13 /\ Turn[Turn[m]] = m
           /\ Len(RunPlan[Turn[m]].ops) = Len(plan[m].operations)
           /\ Len(plan[m].operations) \in Nat
           /\ \A q \in 1 .. Len(plan[m].operations) :
                  /\ RunPlan[Turn[m]].ops[q] = plan[m].operations[q].op
                  /\ PortPlan[m].ops[q] = plan[m].operations[q].op
<1>1. config \in InstallConfig /\ plan = RsExecutionPlan(config, uefi)
    BY ConfigTypes DEF ConfigKnown, RecInv, Client
<1>2. DOMAIN plan = 1 .. 13
    BY <1>1 DEF RsExecutionPlan
<1>3. Turn[m] \in 1 .. 13 /\ Turn[Turn[m]] = m
    BY TurnIs
<1>4. RunPlan[Turn[m]] = PortPlan[m]
    BY <1>3 DEF RunPlan, Turned
<1>5. PICK s : s = plan[m].operations /\ IsList(s)
    BY <1>1, EntryLists
<1>6. PICK n \in Nat : n = Len(s) /\ s = [q \in 1 .. n |-> s[q]]
    BY <1>5, ListIs
<1>7. PortPlan[m].ops = OpsOf(s)
    BY <1>2, <1>5 DEF PortPlan, Phase, OpsOf
<1>8. IsList(OpsOf(s)) /\ OpsOf(s) = [q \in 1 .. n |-> s[q].op]
    BY <1>6, OpsAt
<1>9. Len(OpsOf(s)) = n
    BY <1>8 DEF IsList
<1>10. PICK t : t = OpsOf(s)
    OBVIOUS
<1>11. \A q \in 1 .. n : t[q] = s[q].op
    BY <1>8, <1>10
<1>12. RunPlan[Turn[m]].ops = t /\ PortPlan[m].ops = t /\ Len(t) = n
    BY <1>4, <1>7, <1>9, <1>10
<1> QED
    BY <1>3, <1>5, <1>6, <1>11, <1>12
-----------------------------------------------------------------------------
(* The phases of the entries, by their numbers.                            *)
Numbered == <<1, 2, 3, 4, 5, 6, 8, 9, 7, 7, 10, 11, 12>>

LEMMA EntryNumber ==
    ASSUME plan = RsExecutionPlan(config, uefi), NEW m \in 1 .. 13
    PROVE  plan[m].phase \in InstallPhase /\ index(plan[m].phase) = Numbered[m]
<1>1. /\ plan[1].phase = "PartitionDisk" /\ plan[2].phase = "SetupEncryption"
      /\ plan[3].phase = "FormatFilesystems" /\ plan[4].phase = "MountFilesystems"
      /\ plan[5].phase = "InstallBase" /\ plan[6].phase = "InstallPackages"
      /\ plan[7].phase = "InstallBootloader" /\ plan[8].phase = "CreateUser"
      /\ plan[9].phase = "ConfigureSystem" /\ plan[10].phase = "ConfigureSystem"
      /\ plan[11].phase = "SetupSecurity" /\ plan[12].phase = "FirstBootSetup"
      /\ plan[13].phase = "Cleanup"
    BY PlannedPhases DEF RsExecutionPlan
<1>2. \/ m = 1 \/ m = 2 \/ m = 3 \/ m = 4 \/ m = 5 \/ m = 6 \/ m = 7 \/ m = 8 \/ m = 9
      \/ m = 10 \/ m = 11 \/ m = 12 \/ m = 13
    OBVIOUS
<1>3. plan[m].phase \in InstallPhase
    BY <1>1, <1>2 DEF InstallPhase, AllPhases, ToSet
<1>4. index(plan[m].phase) = Numbered[m]
    BY <1>1, <1>2, Numbers DEF Numbered, PARTITION, ENCRYPTION, FORMAT, MOUNT, BASE, PACKAGES,
        CONFIGURE, BOOTLOADER, USER, SECURITY, FIRST_BOOT, CLEANUP
<1> QED
    BY <1>3, <1>4

EntriesNumbered(j, n) == {m \in 1 .. 13 : m > n /\ Numbered[m] = j}

LEMMA EntriesAre ==
    ASSUME plan = RsExecutionPlan(config, uefi), NEW p \in InstallPhase, NEW n
    PROVE  Entries(p, n) = EntriesNumbered(index(p), n)
<1>1. DOMAIN plan = 1 .. 13
    BY DEF RsExecutionPlan
<1>2. ASSUME NEW m \in 1 .. 13 PROVE plan[m].phase = p <=> Numbered[m] = index(p)
    BY EntryNumber, IndexOf
<1> QED
    BY <1>1, <1>2 DEF Entries, EntriesNumbered

\* The first entry of each phase, and the one phase that has two.
FirstEntry(j) == IF j <= 7 THEN j ELSE j + 1

LEMMA FirstIs ==
    ASSUME NEW j \in 1 .. 12
    PROVE  EntriesNumbered(j, 0) # {} /\ Min(EntriesNumbered(j, 0)) = Turn[FirstEntry(j)]
<1>1. PICK S : S = EntriesNumbered(j, 0)
    OBVIOUS
<1>2. PICK x : x = Turn[FirstEntry(j)]
    OBVIOUS
<1>3. \/ j = 1 \/ j = 2 \/ j = 3 \/ j = 4 \/ j = 5 \/ j = 6 \/ j = 7 \/ j = 8 \/ j = 9
      \/ j = 10 \/ j = 11 \/ j = 12
    OBVIOUS
<1>4. x \in 1 .. 13 /\ Numbered[x] = j
    BY <1>2, <1>3 DEF Turn, FirstEntry, Numbered
<1>5. ASSUME NEW y \in 1 .. 13, Numbered[y] = j PROVE x <= y
    <2>1. \/ y = 1 \/ y = 2 \/ y = 3 \/ y = 4 \/ y = 5 \/ y = 6 \/ y = 7 \/ y = 8 \/ y = 9
          \/ y = 10 \/ y = 11 \/ y = 12 \/ y = 13
        OBVIOUS
    <2> QED
        BY <1>2, <1>3, <1>5, <2>1 DEF Turn, FirstEntry, Numbered
<1>6. x \in S /\ \A y \in S : x <= y
    BY <1>1, <1>4, <1>5 DEF EntriesNumbered
<1>7. S \subseteq 1 .. 13
    BY <1>1 DEF EntriesNumbered
<1>8. \A y \in S : (\A z \in S : y <= z) => y = x
    BY <1>6, <1>7
<1>9. Min(S) = x
    BY <1>6, <1>8 DEF Min
<1> QED
    BY <1>1, <1>2, <1>6, <1>9

LEMMA LaterIs ==
    ASSUME NEW m \in 1 .. 13
    PROVE  EntriesNumbered(Numbered[m], m) = IF m = 9 THEN {10} ELSE {}
<1>1. ASSUME NEW y \in 1 .. 13, y > m, Numbered[y] = Numbered[m] PROVE m = 9 /\ y = 10
    <2>1. \/ m = 1 \/ m = 2 \/ m = 3 \/ m = 4 \/ m = 5 \/ m = 6 \/ m = 7 \/ m = 8 \/ m = 9
          \/ m = 10 \/ m = 11 \/ m = 12 \/ m = 13
        OBVIOUS
    <2>2. \/ y = 1 \/ y = 2 \/ y = 3 \/ y = 4 \/ y = 5 \/ y = 6 \/ y = 7 \/ y = 8 \/ y = 9
          \/ y = 10 \/ y = 11 \/ y = 12 \/ y = 13
        OBVIOUS
    <2> QED
        BY <1>1, <2>1, <2>2 DEF Numbered
<1>2. m = 9 => 10 > m /\ Numbered[10] = Numbered[m]
    BY DEF Numbered
<1> QED
    BY <1>1, <1>2 DEF EntriesNumbered

\* Where a phase's number puts the executor.
LEMMA TurnNumber ==
    ASSUME NEW m \in 1 .. 13
    PROVE  /\ Numbered[m] \in 1 .. 12
           /\ m # 9 => FirstEntry(Numbered[m] + 1) = Turn[m] + 1
           /\ m = 9 => Turn[m] + 1 = Turn[10]
<1>1. \/ m = 1 \/ m = 2 \/ m = 3 \/ m = 4 \/ m = 5 \/ m = 6 \/ m = 7 \/ m = 8 \/ m = 9
      \/ m = 10 \/ m = 11 \/ m = 12 \/ m = 13
    OBVIOUS
<1> QED
    BY <1>1 DEF Numbered, Turn, FirstEntry
-----------------------------------------------------------------------------
(* What an operation is and does, for the client and for the executor.     *)
LEMMA PossibleSame ==
    ASSUME M!op = R!op
    PROVE  M!Possible <=> R!Possible
<1>1. PICK x : x = M!op /\ x = R!op
    OBVIOUS
<1>2. \A at : M!Volume(at) = R!Volume(at)
    BY DEF M!Volume, R!Volume, M!MountedAbove, R!MountedAbove, M!mp, R!mp, M!parts, R!parts,
           M!Meant, R!Meant, M!Esp, R!Esp, M!IsPrefix, R!IsPrefix, M!Max, R!Max
<1>3. \A p : (M!Busy(p) <=> R!Busy(p)) /\ M!Device(p) = R!Device(p) /\ M!mp(p) = R!mp(p)
    BY DEF M!Busy, R!Busy, M!ToSet, R!ToSet, M!RootOf, R!RootOf, M!parts, R!parts, M!Device,
           R!Device, M!mp, R!mp
<1>4. \A p : M!Over(p) = R!Over(p)
    BY DEF M!Over, R!Over, M!mp, R!mp, M!parts, R!parts, M!IsPrefix, R!IsPrefix
<1> QED
    BY <1>1, <1>2, <1>3, <1>4 DEF M!Possible, R!Possible, M!ToSet, R!ToSet, M!parts, R!parts

LEMMA EffectSame ==
    ASSUME M!op = R!op
    PROVE  M!Effect <=> R!Effect
<1>1. PICK x : x = M!op /\ x = R!op
    OBVIOUS
<1>2. \A at : M!Volume(at) = R!Volume(at)
    BY DEF M!Volume, R!Volume, M!MountedAbove, R!MountedAbove, M!mp, R!mp, M!parts, R!parts,
           M!Meant, R!Meant, M!Esp, R!Esp, M!IsPrefix, R!IsPrefix, M!Max, R!Max
<1>3. \A w, p : M!Without(w, p) = R!Without(w, p)
    BY DEF M!Without, R!Without, M!ForEach, R!ForEach, M!FlattenSeq, R!FlattenSeq, M!If, R!If
<1>4. M!Partitions <=> R!Partitions
    BY <1>1 DEF M!Partitions, R!Partitions
<1>5. M!Contents <=> R!Contents
    BY <1>1 DEF M!Contents, R!Contents, M!parts, R!parts
<1>6. M!Mounts <=> R!Mounts
    BY <1>1, <1>3 DEF M!Mounts, R!Mounts
<1>7. M!Holders <=> R!Holders
    BY <1>1 DEF M!Holders, R!Holders
<1>8. M!Puts <=> R!Puts
    BY <1>1, <1>2 DEF M!Puts, R!Puts
<1>9. M!Neither <=> R!Neither
    BY <1>1 DEF M!Neither, R!Neither, M!machine, R!machine
<1> QED
    BY <1>4, <1>5, <1>6, <1>7, <1>8, <1>9 DEF M!Effect, R!Effect

LEMMA LayoutSame ==
    /\ M!SoundLayout <=> R!SoundLayout
    /\ M!Unmountable <=> R!Unmountable
    /\ M!FilesGoHome <=> R!FilesGoHome
    /\ M!Installed <=> R!Installed
<1>1. M!parts = R!parts /\ (\A p : M!mp(p) = R!mp(p)) /\ M!Mountable = R!Mountable
    BY DEF M!parts, R!parts, M!mp, R!mp, M!Mountable, R!Mountable
<1>2. M!SoundLayout <=> R!SoundLayout
    BY <1>1 DEF M!SoundLayout, R!SoundLayout
<1>3. M!Unmountable <=> R!Unmountable
    BY <1>1, <1>2 DEF M!Unmountable, R!Unmountable
<1>4. \A at : M!Home(at) = R!Home(at)
    BY <1>1 DEF M!Home, R!Home, M!IsPrefix, R!IsPrefix
<1>5. M!FilesGoHome <=> R!FilesGoHome
    BY <1>2, <1>4 DEF M!FilesGoHome, R!FilesGoHome, M!IsHome, R!IsHome, M!Front, R!Front
<1>6. \A what, at : M!There(what, at) <=> R!There(what, at)
    BY <1>4 DEF M!There, R!There
<1>7. M!LoaderPath = R!LoaderPath /\ M!Esp = R!Esp
    BY DEF M!LoaderPath, R!LoaderPath, M!Esp, R!Esp
<1>8. M!Installed <=> R!Installed
    BY <1>1, <1>6, <1>7 DEF M!Installed, R!Installed
<1> QED
    BY <1>2, <1>3, <1>5, <1>8
-----------------------------------------------------------------------------
(* How the client stands.  Without a failure it has no entry only before   *)
(* the first phase and after the last; one that puts up with no failure    *)
(* has stopped with the first.                                             *)
Told == config \in Configs /\ uefi \in BOOLEAN /\ client \in Clients
Stand ==
    /\ status \in {"running", "stopped", "answered", "finished"}
    /\ i # 0 => i \in 1 .. 13 /\ k \in 1 .. Len(plan[i].operations) + 1
    /\ i = 0 => k = 0
    /\ errors = <<>> /\ i = 0 => phase \in {"ValidateConfig", "Complete"}
    /\ client = 0 /\ errors # <<>> => status # "running"

LEMMA GoneTo ==
    ASSUME plan = RsExecutionPlan(config, uefi), NEW p \in InstallPhase,
           index(p) \in 1 .. 13, GoTo(p, 0)
    PROVE  /\ index(p) = 13 => i' = 0 /\ k' = 0
           /\ index(p) # 13 => i' = Turn[FirstEntry(index(p))] /\ i' \in 1 .. 13 /\ k' = 1
<1>1. Entries(p, 0) = EntriesNumbered(index(p), 0)
    BY EntriesAre
<1>2. CASE index(p) = 13
    <2>1. ASSUME NEW m \in 1 .. 13 PROVE Numbered[m] # 13
        BY TurnNumber
    <2>2. EntriesNumbered(13, 0) = {}
        BY <2>1 DEF EntriesNumbered
    <2> QED
        BY <1>1, <1>2, <2>2 DEF GoTo
<1>3. CASE index(p) # 13
    <2>1. index(p) \in 1 .. 12 /\ FirstEntry(index(p)) \in 1 .. 13
        BY <1>3 DEF FirstEntry
    <2>2. i' = Turn[FirstEntry(index(p))] /\ k' = 1
        BY <1>1, <2>1, FirstIs DEF GoTo
    <2> QED
        BY <1>3, <2>1, <2>2, TurnIs
<1> QED
    BY <1>2, <1>3

\* Where advance_phase leads.
LEMMA GoneOn ==
    ASSUME RecInv, Advances, advance_phase, GoTo(next(phase)[1], 0)
    PROVE  /\ phase # "Complete" /\ index(phase) \in 0 .. 12
           /\ index(phase') = index(phase) + 1 /\ phase' \in InstallPhase
           /\ errors' = errors
           /\ index(phase) = 12 => phase' = "Complete" /\ i' = 0 /\ k' = 0
           /\ index(phase) # 12 =>
                  i' = Turn[FirstEntry(index(phase) + 1)] /\ i' \in 1 .. 13 /\ k' = 1
<1>1. /\ index(phase') = index(phase) + 1 /\ phase' \in InstallPhase
      /\ phase' = next(phase)[1] /\ errors' = errors
    BY Advancing DEF RecInv, advance_phase
<1>2. phase # "Complete"
    BY DEF Advances, next, None
<1>3. index(phase) \in 0 .. 12
    <2>1. phase \in InstallPhase /\ next(phase) # None
        BY DEF RecInv, Record, Advances
    <2>2. index(phase) < 13 /\ index(phase) \in 0 .. 13
        BY <2>1, NextPhase, IndexOf
    <2> QED
        BY <2>2
<1>4. PICK p \in InstallPhase : p = phase'
    BY <1>1
<1>5. index(p) = index(phase) + 1 /\ GoTo(p, 0)
    BY <1>1, <1>4
<1>6. index(p) \in 1 .. 13
    BY <1>3, <1>5
<1>7. /\ index(p) = 13 => i' = 0 /\ k' = 0
      /\ index(p) # 13 => i' = Turn[FirstEntry(index(p))] /\ i' \in 1 .. 13 /\ k' = 1
    BY <1>5, <1>6, GoneTo DEF RecInv, Client
<1>8. index(p) = 13 => p = "Complete"
    BY IndexOf DEF AllPhases
<1> QED
    BY <1>1, <1>2, <1>3, <1>4, <1>5, <1>7, <1>8

LEMMA ValidateGoes ==
    ASSUME RecInv, Validate, Accepted(config), client # Asks
    PROVE  /\ Advances /\ advance_phase /\ i' = 1 /\ k' = 1 /\ UNCHANGED status
           /\ phase' = "PartitionDisk" /\ errors' = errors /\ i = 0
<1>1. /\ phase = "ValidateConfig" /\ status = "running" /\ advance_phase
      /\ GoTo("PartitionDisk", 0) /\ UNCHANGED status
    BY DEF Validate
<1>2. i = 0 /\ \A n \in DOMAIN errors : errors[n].phase # phase
    BY <1>1, PhaseOfEntry DEF RecInv, Client
<1>3. Advances
    BY <1>1, <1>2 DEF Advances, Blocked, ToSet, next, None, Some
<1>4. phase' \in InstallPhase /\ index(phase') = 1
    BY <1>1, <1>3, Advancing, Numbers DEF RecInv
<1>5. phase' = "PartitionDisk"
    BY <1>4, IndexOf DEF AllPhases
<1>6. next(phase)[1] = phase' /\ errors' = errors
    BY <1>1, <1>3 DEF advance_phase
<1>7. i' = Turn[FirstEntry(1)] /\ k' = 1
    <2>1. GoTo(next(phase)[1], 0) /\ index(phase) = 0
        BY <1>1, <1>5, <1>6, Numbers
    <2>2. index(phase) # 12
        BY <2>1
    <2>3. i' = Turn[FirstEntry(index(phase) + 1)] /\ k' = 1
        BY <1>1, <1>3, <2>1, <2>2, GoneOn
    <2> QED
        BY <2>1, <2>3
<1>8. Turn[FirstEntry(1)] = 1
    BY DEF Turn, FirstEntry
<1> QED
    BY <1>1, <1>2, <1>3, <1>5, <1>6, <1>7, <1>8

LEMMA NextEntryGoes ==
    ASSUME RecInv, Stand, NextEntry
    PROVE  i = 9 /\ i' = 10 /\ k' = 1
<1>1. i \in 1 .. 13 /\ plan[i].phase = phase /\ phase \in InstallPhase
    BY DEF NextEntry, Stand, RecInv, Client, Record
<1>2. index(phase) = Numbered[i] /\ Entries(phase, i) = EntriesNumbered(index(phase), i)
    BY <1>1, EntryNumber, EntriesAre DEF RecInv, Client
<1>3. Entries(phase, i) = IF i = 9 THEN {10} ELSE {}
    BY <1>1, <1>2, LaterIs
<1>4. i = 9 /\ Entries(phase, i) = {10}
    BY <1>3 DEF NextEntry
<1>5. i' = Min({10}) /\ k' = 1
    BY <1>4 DEF NextEntry, GoTo
<1>6. Min({10}) = 10
    BY DEF Min
<1> QED
    BY <1>4, <1>5, <1>6

LEMMA ProceedGoes ==
    ASSUME RecInv, Stand, Proceed, Advances, errors = <<>>
    PROVE  /\ i \in 1 .. 13 /\ k > Len(plan[i].operations) /\ index(phase) = Numbered[i]
           /\ i # 9 /\ UNCHANGED status /\ errors' = <<>>
           /\ i = 13 => i' = 0 /\ k' = 0 /\ phase' = "Complete"
           /\ i # 13 => i' = Turn[Turn[i] + 1] /\ i' \in 1 .. 13 /\ k' = 1
<1>1. /\ phase # "ValidateConfig" /\ EntryOver /\ (i # 0 => Entries(phase, i) = {})
      /\ advance_phase /\ GoTo(next(phase)[1], 0) /\ UNCHANGED status
    BY DEF Proceed
<1>2. phase # "Complete"
    BY <1>1, GoneOn
<1>3. i \in 1 .. 13 /\ k > Len(plan[i].operations)
    BY <1>1, <1>2 DEF Stand, EntryOver
<1>4. plan[i].phase = phase /\ phase \in InstallPhase /\ plan = RsExecutionPlan(config, uefi)
    BY <1>3 DEF RecInv, Client, Record
<1>5. index(phase) = Numbered[i] /\ Entries(phase, i) = EntriesNumbered(index(phase), i)
    BY <1>3, <1>4, EntryNumber, EntriesAre
<1>6. i # 9
    <2>1. Entries(phase, i) = {}
        BY <1>1, <1>3
    <2>2. EntriesNumbered(Numbered[i], i) = IF i = 9 THEN {10} ELSE {}
        BY <1>3, LaterIs
    <2> QED
        BY <1>5, <2>1, <2>2
<1>7. /\ errors' = errors
      /\ Numbered[i] = 12 => phase' = "Complete" /\ i' = 0 /\ k' = 0
      /\ Numbered[i] # 12 => i' = Turn[FirstEntry(Numbered[i] + 1)] /\ i' \in 1 .. 13 /\ k' = 1
    BY <1>1, <1>5, GoneOn
<1>8. FirstEntry(Numbered[i] + 1) = Turn[i] + 1
    BY <1>3, <1>6, TurnNumber
<1>9. Numbered[i] = 12 <=> i = 13
    <2>1. \/ i = 1 \/ i = 2 \/ i = 3 \/ i = 4 \/ i = 5 \/ i = 6 \/ i = 7 \/ i = 8 \/ i = 9
          \/ i = 10 \/ i = 11 \/ i = 12 \/ i = 13
        BY <1>3
    <2> QED
        BY <2>1 DEF Numbered
<1> QED
    BY <1>1, <1>3, <1>5, <1>6, <1>7, <1>8, <1>9

LEMMA OneOperation ==
    ASSUME ConfigKnown, RecInv, NEW m \in 1 .. 13
    PROVE  1 \in 1 .. Len(plan[m].operations) + 1
<1>1. Len(plan[m].operations) \in Nat
    BY RunAt
<1> QED
    BY <1>1

LEMMA StandInit == Init => Told /\ RecInv /\ Stand
<1>1. Init => RecInv
    BY RecInit
<1>2. Init => Told /\ Stand
    BY DEF Init, new, Told, Stand
<1> QED
    BY <1>1, <1>2

LEMMA SucceedStands ==
    ASSUME ConfigKnown, RecInv, Stand, Running, Succeed
    PROVE  Stand'
<1>1. UNCHANGED <<plan, status, i, errors, phase, client>> /\ k' = k + 1
    BY DEF Succeed, given, inst
<1>2. i \in 1 .. 13 /\ k \in 1 .. Len(plan[i].operations) + 1 /\ k <= Len(plan[i].operations)
    BY DEF Running, Stand
<1>3. Len(plan[i].operations) \in Nat
    BY <1>2, RunAt
<1>4. k' \in 1 .. Len(plan[i].operations) + 1
    BY <1>1, <1>2, <1>3
<1> QED
    BY <1>1, <1>2, <1>4 DEF Stand

LEMMA FailStands ==
    ASSUME Told, RecInv, Stand, Running, Fail
    PROVE  Stand'
<1>0. ConfigKnown
    BY DEF Told, ConfigKnown
<1>1. CASE ~operation.fatal
    BY <1>0, <1>1, SucceedStands DEF Fail
<1>2. CASE operation.fatal
    <2>1. /\ errors' = Append(errors, [phase |-> phase, recoverable |-> phase \notin NonRecoverable])
          /\ UNCHANGED <<plan, client, phase>>
        BY <1>2 DEF Fail, fail_phase, given
    <2>2. errors \in Seq(InstallError) /\ Len(errors) \in Nat
        BY DEF RecInv, Record
    <2>3. errors' # <<>>
        BY <2>1, <2>2
    <2>4. CASE Len(errors) < client
        <3>1. i' = 0 /\ k' = 0 /\ UNCHANGED status /\ client # 0
            BY <1>2, <2>2, <2>4 DEF Fail
        <3> QED
            BY <2>1, <2>3, <3>1 DEF Stand
    <2>5. CASE ~(Len(errors) < client)
        <3>1. status' = "stopped" /\ UNCHANGED <<i, k>>
            BY <1>2, <2>5 DEF Fail
        <3> QED
            BY <2>1, <2>3, <3>1 DEF Stand
    <2> QED
        BY <2>4, <2>5
<1> QED
    BY <1>1, <1>2

LEMMA ProceedStands ==
    ASSUME ConfigKnown, RecInv, Stand, Proceed
    PROVE  Stand'
<1>1. advance_phase /\ UNCHANGED <<plan, client>>
    BY DEF Proceed, given
<1>2. CASE Advances
    <2>1. GoTo(next(phase)[1], 0) /\ UNCHANGED status
        BY <1>2 DEF Proceed
    <2>2. /\ index(phase) \in 0 .. 12 /\ errors' = errors
          /\ index(phase) = 12 => phase' = "Complete" /\ i' = 0 /\ k' = 0
          /\ index(phase) # 12 =>
                 i' = Turn[FirstEntry(index(phase) + 1)] /\ i' \in 1 .. 13 /\ k' = 1
        BY <1>1, <1>2, <2>1, GoneOn
    <2>3. i' # 0 => i' \in 1 .. 13 /\ k' \in 1 .. Len(plan[i'].operations) + 1
        <3>1. PICK m : m = i'
            OBVIOUS
        <3>2. m # 0 => m \in 1 .. 13 /\ k' = 1
            BY <2>2, <3>1
        <3> QED
            BY <3>1, <3>2, OneOperation
    <2> QED
        BY <1>1, <2>1, <2>2, <2>3 DEF Stand
<1>3. CASE ~Advances
    <2>1. UNCHANGED <<inst, i, k>> /\ status' \in {"finished", "stopped"}
        BY <1>1, <1>3 DEF Proceed, advance_phase
    <2> QED
        BY <1>1, <2>1 DEF Stand, inst
<1> QED
    BY <1>2, <1>3

LEMMA StandStep == Told /\ RecInv /\ Stand /\ [Next]_vars => Told' /\ RecInv' /\ Stand'
<1> SUFFICES ASSUME Told, RecInv, Stand, [Next]_vars PROVE Told' /\ RecInv' /\ Stand'
    OBVIOUS
<1>0. ConfigKnown
    BY DEF Told, ConfigKnown
<1>1. Told'
    BY DEF Next, Validate, OpSucceeds, OpFailsLate, OpFails, Succeed, Fail, NextEntry,
           Proceed, Exited, vars, given, Told
<1>2. RecInv'
    BY RecStep
<1> SUFFICES Stand'
    BY <1>1, <1>2
<1>3. CASE Validate
    <2>1. CASE ~Accepted(config)
        <3>1. /\ errors' = Append(errors, [phase |-> phase, recoverable |-> phase \notin NonRecoverable])
              /\ status' = "stopped" /\ UNCHANGED <<plan, i, k, phase, client>>
            BY <1>3, <2>1 DEF Validate, fail_phase, given
        <3>2. errors' # <<>>
            BY <3>1 DEF RecInv, Record
        <3> QED
            BY <3>1, <3>2 DEF Stand
    <2>2. CASE Accepted(config) /\ client = Asks
        <3>1. status' = "answered" /\ UNCHANGED <<plan, i, k, inst, client>>
            BY <1>3, <2>2 DEF Validate, given
        <3> QED
            BY <3>1 DEF Stand, inst
    <2>3. CASE Accepted(config) /\ client # Asks
        <3>1. i' = 1 /\ k' = 1 /\ UNCHANGED status /\ errors' = errors
            BY <1>3, <2>3, ValidateGoes
        <3>2. UNCHANGED <<plan, client>>
            BY <1>3 DEF Validate, given
        <3>3. 1 \in 1 .. 13 /\ 1 \in 1 .. Len(plan[1].operations) + 1
            BY <1>0, OneOperation
        <3> QED
            BY <3>1, <3>2, <3>3 DEF Stand
    <2> QED
        BY <2>1, <2>2, <2>3
<1>4. CASE OpSucceeds
    BY <1>0, <1>4, SucceedStands DEF OpSucceeds
<1>5. CASE OpFailsLate \/ OpFails
    BY <1>5, FailStands DEF OpFailsLate, OpFails
<1>6. CASE NextEntry
    <2>1. i' = 10 /\ k' = 1
        BY <1>6, NextEntryGoes
    <2>2. UNCHANGED <<plan, client, errors, phase, status>>
        BY <1>6 DEF NextEntry, given, inst
    <2>3. 10 \in 1 .. 13 /\ 1 \in 1 .. Len(plan[10].operations) + 1
        BY <1>0, OneOperation
    <2> QED
        BY <2>1, <2>2, <2>3 DEF Stand
<1>7. CASE Proceed
    BY <1>0, <1>7, ProceedStands
<1>8. CASE Exited \/ UNCHANGED vars
    BY <1>8 DEF Exited, vars, given, inst, Stand
<1> QED
    BY <1>3, <1>4, <1>5, <1>6, <1>7, <1>8 DEF Next

LEMMA StandAlways == Spec => [](Told /\ RecInv /\ Stand)
    BY StandInit, StandStep, PTL DEF Spec
-----------------------------------------------------------------------------
(* The client's steps are an executor's.                                   *)
LEMMA ClientPlaced == Told /\ RecInv /\ Stand => R!Given /\ R!Place
<1> SUFFICES ASSUME Told, RecInv, Stand PROVE R!Given /\ R!Place
    OBVIOUS
<1>1. R!Given /\ R!N = 13 /\ ConfigKnown
    BY RunGiven DEF Told, ConfigKnown
<1>2. CASE i # 0
    <2>1. i \in 1 .. 13 /\ k \in 1 .. Len(plan[i].operations) + 1
        BY <1>2 DEF Stand
    <2>2. /\ Turn[i] \in 1 .. 13 /\ Len(RunPlan[Turn[i]].ops) = Len(plan[i].operations)
          /\ Len(plan[i].operations) \in Nat
        BY <1>1, <2>1, RunAt
    <2>3. Pos = Turn[i]
        BY <1>2 DEF Pos
    <2>4. R!OpsIn(Pos) = Len(plan[i].operations) + 1
        <3>1. PICK t \in 1 .. 13 : t = Turn[i]
            BY <2>2
        <3>2. R!OpsIn(t) = Len(RunPlan[t].ops) + 1
            BY <1>1 DEF R!OpsIn
        <3> QED
            BY <2>2, <2>3, <3>1, <3>2
    <2> QED
        BY <1>1, <2>1, <2>2, <2>3, <2>4 DEF R!Place
<1>3. CASE i = 0
    <2>1. k = 0 /\ Pos \in {1, 14}
        BY <1>3 DEF Stand, Pos
    <2>2. 1 \in 1 .. 13 /\ Len(RunPlan[1].ops) \in Nat
        BY <1>1, R!Operations
    <2>3. R!OpsIn(Pos) \in Nat
        BY <1>1, <2>1, <2>2 DEF R!OpsIn
    <2> QED
        BY <1>1, <2>1, <2>3 DEF R!Place
<1> QED
    BY <1>2, <1>3

Placed == R!Given /\ R!Place
LEMMA PlacedAlways == Spec => []Placed
<1>1. Told /\ RecInv /\ Stand => Placed
    BY ClientPlaced DEF Placed
<1> QED
    BY <1>1, StandAlways, PTL

LEMMA GivenStays == UNCHANGED given => UNCHANGED R!given
BY DEF given, R!given, Ported, RunPlan, Turned, PortPlan, When, parts

\* The operation at hand.
LEMMA OpHere ==
    ASSUME Told, RecInv, Stand, Running
    PROVE  /\ i \in 1 .. 13 /\ Pos = Turn[i] /\ Pos \in 1 .. 13
           /\ R!At(Pos, k) /\ M!op = R!op /\ R!op = operation
           /\ errors = <<>> => R!Running
<1>1. R!Given /\ R!N = 13 /\ ConfigKnown
    BY RunGiven DEF Told, ConfigKnown
<1>2. i \in 1 .. 13 /\ k \in 1 .. Len(plan[i].operations) + 1 /\ k <= Len(plan[i].operations)
      /\ status = "running"
    BY DEF Stand, Running
<1>3. Pos = Turn[i]
    BY <1>2 DEF Pos
<1>4. /\ Turn[i] \in 1 .. 13 /\ Len(RunPlan[Turn[i]].ops) = Len(plan[i].operations)
      /\ Len(plan[i].operations) \in Nat
      /\ \A q \in 1 .. Len(plan[i].operations) :
             /\ RunPlan[Turn[i]].ops[q] = plan[i].operations[q].op
             /\ PortPlan[i].ops[q] = plan[i].operations[q].op
    BY <1>1, <1>2, RunAt
<1>5. k \in 1 .. Len(plan[i].operations)
    BY <1>2, <1>4
<1>6. RunPlan[Turn[i]].ops[k] = operation /\ PortPlan[i].ops[k] = operation
    BY <1>4, <1>5 DEF operation
<1>7. M!op = operation /\ R!op = operation
    BY <1>3, <1>6 DEF M!op, M!entry, R!op, R!entry
<1>8. R!At(Pos, k)
    BY <1>1, <1>3, <1>4, <1>5 DEF R!At
<1>9. errors = <<>> => R!Running
    BY <1>1, <1>2, <1>3, <1>4, <1>5, SMTT(30) DEF R!Running, R!entry, Stat, R!N
<1> QED
    BY <1>2, <1>3, <1>4, <1>7, <1>8, <1>9

\* What a step that is not an operation does with the machine, and one that is.
LEMMA Deeds ==
    ASSUME Told, RecInv, Stand, [Next]_vars
    PROVE  /\ UNCHANGED R!given
           /\ (Running /\ R!Worked) \/ UNCHANGED R!machine
<1>1. UNCHANGED given
    BY DEF Next, Validate, OpSucceeds, OpFailsLate, OpFails, Succeed, Fail, NextEntry,
           Proceed, Exited, vars
<1>2. CASE OpSucceeds \/ OpFailsLate
    <2>1. Running /\ M!Possible /\ M!Effect
        BY <1>2 DEF OpSucceeds, OpFailsLate
    <2>2. R!Worked
        BY <2>1, OpHere, PossibleSame, EffectSame DEF R!Worked
    <2> QED
        BY <1>1, <2>1, <2>2, GivenStays
<1>3. CASE ~(OpSucceeds \/ OpFailsLate)
    <2>1. UNCHANGED machine
        BY <1>3 DEF Next, Validate, OpFails, NextEntry, Proceed, Exited, vars
    <2> QED
        BY <1>1, <2>1, GivenStays DEF machine, R!machine
<1> QED
    BY <1>2, <1>3

LEMMA OpActs ==
    ASSUME Told, RecInv, Stand, errors = <<>>, Running,
           R!Worked \/ UNCHANGED R!machine, UNCHANGED R!given,
           (Succeed /\ (R!Worked \/ ~operation.fatal)) \/ Fail
    PROVE  R!Acts
<1>1. R!Running /\ R!op = operation
    BY OpHere
<1>2. CASE Succeed /\ (R!Worked \/ ~operation.fatal)
    <2>1. UNCHANGED <<Pos, Stat>> /\ k' = k + 1
        BY <1>2 DEF Succeed, inst, given, Pos, Stat
    <2> QED
        BY <1>1, <1>2, <2>1 DEF R!OpDone, R!Acts
<1>3. CASE Fail /\ ~operation.fatal
    <2>1. UNCHANGED <<Pos, Stat>> /\ k' = k + 1
        BY <1>3 DEF Fail, Succeed, inst, given, Pos, Stat
    <2> QED
        BY <1>1, <1>3, <2>1 DEF R!OpDone, R!Acts
<1>4. CASE Fail /\ operation.fatal
    <2>1. errors' # <<>>
        BY <1>4, SMTT(30) DEF Fail, fail_phase, RecInv, Record
    <2>2. Stat' # "running"
        BY <2>1 DEF Stat
    <2> QED
        BY <1>1, <2>2 DEF R!OpBroke, R!Acts
<1> QED
    BY <1>2, <1>3, <1>4

\* The client goes to an entry, which is the executor's next.
LEMMA Moves ==
    ASSUME Told, RecInv, Stand, R!Typed, errors = <<>>, UNCHANGED <<R!given, R!machine, Stat>>,
           k' \in {0, 1},
           (Pos' = Pos /\ k = 0) \/ (Pos' = Pos + 1 /\ k > Len(RunPlan[Pos].ops))
    PROVE  R!Acts
<1>1. \A m, q : R!Ran(m, q)' <=> R!Ran(m, q)
    BY R!RanSame
<1> QED
    BY <1>1 DEF R!Idle, R!Acts

LEMMA ClientActs ==
    ASSUME Told, RecInv, Stand, R!Typed, errors = <<>>, [Next]_vars
    PROVE  R!Acts
<1>1. UNCHANGED R!given /\ ConfigKnown
    BY Deeds DEF Told, ConfigKnown
<1>2. ASSUME UNCHANGED R!machine, Stat' # "running" PROVE R!Acts
    BY <1>1, <1>2 DEF R!Stopped, R!Acts
<1>3. CASE Validate
    <2>1. UNCHANGED R!machine
        BY <1>3 DEF Validate, machine, R!machine
    <2>2. CASE ~Accepted(config) \/ client = Asks
        <3>1. status' # "running" \/ errors' # <<>>
            BY <1>3, <2>2 DEF Validate
        <3>2. status' # "running"
            BY <1>3, <2>2 DEF Validate
        <3>3. Stat' # "running"
            BY <3>2 DEF Stat
        <3> QED
            BY <1>2, <2>1, <3>3
    <2>3. CASE Accepted(config) /\ client # Asks
        <3>1. /\ i' = 1 /\ k' = 1 /\ UNCHANGED status /\ errors' = errors /\ i = 0
              /\ phase = "ValidateConfig"
            BY <1>3, <2>3, ValidateGoes DEF Validate
        <3>2. Pos = 1 /\ Pos' = 1
            BY <3>1 DEF Pos, Turn
        <3>3. k = 0 /\ UNCHANGED Stat
            BY <3>1 DEF Stand, Stat
        <3> QED
            BY <1>1, <2>1, <3>1, <3>2, <3>3, Moves
    <2> QED
        BY <2>2, <2>3
<1>4. CASE OpSucceeds \/ OpFailsLate \/ OpFails
    <2>1. Running
        BY <1>4 DEF OpSucceeds, OpFailsLate, OpFails
    <2>2. R!Worked \/ UNCHANGED R!machine
        BY Deeds
    <2>3. OpSucceeds \/ OpFailsLate => R!Worked
        BY <2>1, OpHere, PossibleSame, EffectSame DEF R!Worked, OpSucceeds, OpFailsLate
    <2>4. (Succeed /\ R!Worked) \/ Fail
        BY <1>4, <2>3 DEF OpSucceeds, OpFailsLate, OpFails
    <2> QED
        BY <1>1, <2>1, <2>2, <2>4, OpActs
<1>5. CASE NextEntry
    <2>1. i = 9 /\ i' = 10 /\ k' = 1
        BY <1>5, NextEntryGoes
    <2>2. UNCHANGED R!machine /\ UNCHANGED Stat
        BY <1>5 DEF NextEntry, machine, R!machine, Stat, inst
    <2>3. Pos = 7 /\ Pos' = 8
        BY <2>1 DEF Pos, Turn
    <2>4. k > Len(plan[9].operations)
        BY <1>5, <2>1 DEF NextEntry, EntryOver
    <2>5. Len(RunPlan[7].ops) = Len(plan[9].operations)
        <3>1. Turn[9] = 7 /\ 9 \in 1 .. 13
            BY DEF Turn
        <3> QED
            BY <1>1, <3>1, RunAt
    <2> QED
        BY <1>1, <2>1, <2>2, <2>3, <2>4, <2>5, Moves
<1>6. CASE Proceed
    <2>1. UNCHANGED R!machine
        BY <1>6 DEF Proceed, machine, R!machine
    <2>2. CASE Advances
        <3>1. /\ i \in 1 .. 13 /\ k > Len(plan[i].operations)
              /\ UNCHANGED status /\ errors' = <<>> /\ k' \in {0, 1}
              /\ i = 13 => i' = 0 /\ phase' = "Complete"
              /\ i # 13 => i' = Turn[Turn[i] + 1] /\ i' \in 1 .. 13
              /\ i # 9
            BY <1>6, <2>2, ProceedGoes
        <3>2. Stat' = Stat
            BY <3>1 DEF Stat
        <3>3. Pos = Turn[i] /\ Len(RunPlan[Turn[i]].ops) = Len(plan[i].operations)
            <4>1. i # 0
                BY <3>1
            <4>2. Pos = Turn[i]
                BY <4>1 DEF Pos
            <4>3. Len(RunPlan[Turn[i]].ops) = Len(plan[i].operations)
                BY <1>1, <3>1, RunAt
            <4> QED
                BY <4>2, <4>3
        <3>4. Pos' = Turn[i] + 1
            <4>1. CASE i = 13
                BY <3>1, <4>1 DEF Pos, Turn
            <4>2. CASE i # 13
                <5>1. Pos' = Turn[Turn[Turn[i] + 1]]
                    BY <3>1, <4>2 DEF Pos
                <5>2. Turn[i] \in 1 .. 12
                    <6>1. \/ i = 1 \/ i = 2 \/ i = 3 \/ i = 4 \/ i = 5 \/ i = 6 \/ i = 7 \/ i = 8
                          \/ i = 9 \/ i = 10 \/ i = 11 \/ i = 12
                        BY <3>1, <4>2
                    <6> QED
                        BY <6>1 DEF Turn
                <5>3. Turn[i] + 1 \in 1 .. 13
                    BY <5>2
                <5> QED
                    BY <5>1, <5>3, TurnIs
            <4> QED
                BY <4>1, <4>2
        <3>5. k > Len(RunPlan[Pos].ops) /\ Pos' = Pos + 1
            BY <3>1, <3>3, <3>4
        <3> QED
            BY <1>1, <2>1, <3>1, <3>2, <3>5, Moves
    <2>3. CASE ~Advances
        <3>1. status' # "running"
            BY <1>6, <2>3 DEF Proceed
        <3> QED
            BY <1>2, <2>1, <3>1 DEF Stat
    <2> QED
        BY <2>2, <2>3
<1>7. CASE Exited \/ UNCHANGED vars
    <2>1. UNCHANGED vars
        BY <1>7 DEF Exited
    <2>2. UNCHANGED <<Pos, k, Stat, R!machine, RunPlan>>
        BY <1>1, <2>1 DEF vars, inst, Pos, Stat, machine, R!machine, R!given
    <2>3. \A m, q : R!Ran(m, q)' <=> R!Ran(m, q)
        BY <2>2 DEF R!Ran, R!At, R!N
    <2> QED
        BY <1>1, <2>2, <2>3 DEF R!Idle, R!Acts
<1> QED
    BY <1>3, <1>4, <1>5, <1>6, <1>7 DEF Next
-----------------------------------------------------------------------------
(* What the client's run leaves on the machine.                            *)
Home == errors = <<>> \/ client = 0 => R!FilesGoHome
Over ==
    errors = <<>> /\ phase = "Complete" /\ status # "running" =>
        (R!SoundLayout => R!Installed)
RunInv == R!Behind /\ Home /\ Over

LEMMA RunInit == Init /\ Placed => RunInv
<1> SUFFICES ASSUME Init, Placed PROVE RunInv
    OBVIOUS
<1>1. R!Blank
    <2>1. Pos = 1
        BY DEF Init, new, Pos
    <2>2. R!L = Len(parts(config))
        <3>1. Told /\ RecInv
            BY StandInit
        <3> QED
            BY <3>1, RunGiven DEF Told, ConfigKnown
    <2> QED
        BY <2>1, <2>2 DEF Init, R!Blank
<1>2. R!Behind /\ R!FilesGoHome
    BY <1>1, R!BehindAtFirst DEF Placed
<1>3. phase # "Complete"
    BY DEF Init, new
<1> QED
    BY <1>2, <1>3 DEF RunInv, Home, Over

LEMMA MachineStep ==
    ASSUME Told, RecInv, Stand, R!Typed, [Next]_vars
    PROVE  R!Machine'
<1>1. CASE Running /\ R!Worked
    <2>1. R!At(Pos, k)
        BY <1>1, OpHere
    <2> QED
        BY <1>1, <2>1, Deeds, R!EffectTypes DEF R!Typed, R!Worked
<1>2. CASE UNCHANGED R!machine
    BY <1>2, Deeds, R!MachineKept DEF R!Typed
<1> QED
    BY <1>1, <1>2, Deeds

\* A run that has come to the end of its phases without a failure.
LEMMA Comes ==
    ASSUME Told, RecInv, Stand, RunInv, errors = <<>>, phase = "Complete", R!SoundLayout
    PROVE  R!Installed
<1>1. CASE status = "running"
    <2>1. i = 0
        <3>1. i # 0 => phase # "Complete"
            BY PhaseOfEntry DEF RecInv
        <3> QED
            BY <3>1
    <2>2. Pos = 14 /\ Stat = "running" /\ R!N = 13
        BY <1>1, <2>1, RunGiven DEF Pos, Stat, Told, ConfigKnown
    <2>3. R!AtEnd
        BY <2>2 DEF R!AtEnd, RunInv, Home, R!Behind
    <2> QED
        BY <2>3, R!EndsInstalled
<1>2. CASE status # "running"
    BY <1>2 DEF RunInv, Over
<1> QED
    BY <1>1, <1>2

LEMMA ErrorsStay ==
    ASSUME RecInv, [Next]_vars, errors' = <<>>
    PROVE  errors = <<>>
<1>1. errors' = errors \/ \E e : errors' = Append(errors, e)
    BY DEF Next, Validate, OpSucceeds, OpFailsLate, OpFails, Fail, Succeed, NextEntry, Proceed,
           Exited, vars, inst, advance_phase, fail_phase
<1>2. errors \in Seq(InstallError)
    BY DEF RecInv, Record
<1>3. ASSUME NEW e, errors' = Append(errors, e) PROVE FALSE
    <2>1. Len(errors') = Len(errors) + 1 /\ Len(errors) \in Nat
        BY <1>2, <1>3
    <2> QED
        BY <2>1
<1> QED
    BY <1>1, <1>3

\* A client only finishes behind the last phase.
LEMMA Finishes ==
    ASSUME RecInv, [Next]_vars, errors' = <<>>, phase' = "Complete", status' # "running"
    PROVE  phase = "Complete" /\ ~Running
<1>1. Running => phase # "Complete"
    BY PhaseOfEntry DEF Running, RecInv
<1>2. errors' # Append(errors, [phase |-> phase, recoverable |-> phase \notin NonRecoverable])
    <2>1. errors = <<>>
        BY ErrorsStay
    <2> QED
        BY <2>1
<1>3. CASE Validate
    <2>1. Accepted(config) /\ client = Asks
        BY <1>2, <1>3 DEF Validate, fail_phase
    <2>2. phase = "ValidateConfig" /\ phase' = phase
        BY <1>3, <2>1 DEF Validate, inst
    <2> QED
        BY <2>2
<1>4. CASE OpSucceeds \/ OpFailsLate \/ OpFails
    <2>1. status = "running" /\ status' = status
        BY <1>2, <1>4 DEF OpSucceeds, OpFailsLate, OpFails, Running, Fail, Succeed, fail_phase
    <2> QED
        BY <2>1
<1>5. CASE NextEntry
    BY <1>5 DEF NextEntry, EntryOver
<1>6. CASE Proceed
    <2>1. ~Advances /\ phase' = phase
        BY <1>6 DEF Proceed, EntryOver, advance_phase, inst
    <2> QED
        BY <1>1, <2>1
<1>7. CASE Exited \/ UNCHANGED vars
    BY <1>1, <1>7 DEF Exited, vars, inst
<1> QED
    BY <1>3, <1>4, <1>5, <1>6, <1>7 DEF Next

LEMMA RunStep ==
    Told /\ RecInv /\ Stand /\ Placed /\ Placed' /\ RunInv /\ [Next]_vars => RunInv'
<1> SUFFICES ASSUME Told, RecInv, Stand, Placed', RunInv, [Next]_vars PROVE RunInv'
    OBVIOUS
<1>1. R!Behind /\ R!Typed /\ R!Kept /\ R!MountsInOrder
    BY DEF RunInv, R!Behind
<1>2. R!Typed'
    BY <1>1, MachineStep DEF Placed, R!Typed
<1>3. UNCHANGED R!given /\ (Running \/ UNCHANGED R!machine)
    BY Deeds
<1>4. errors = <<>> => R!Acts
    BY <1>1, ClientActs
<1>5. errors # <<>> => Stat' # "running"
    BY ErrorsStay DEF Stat
<1>6. R!Behind'
    BY <1>1, <1>2, <1>4, <1>5, R!BehindStep, R!BehindFailed
<1>7. Home'
    <2> SUFFICES ASSUME errors' = <<>> \/ client' = 0 PROVE R!FilesGoHome'
        BY DEF Home
    <2>1. client' = client
        BY DEF Next, Validate, OpSucceeds, OpFailsLate, OpFails, Succeed, Fail, NextEntry,
               Proceed, Exited, vars, given
    <2>2. R!FilesGoHome
        BY <2>1, ErrorsStay DEF RunInv, Home
    <2>3. CASE errors = <<>>
        BY <1>1, <1>4, <2>2, <2>3, R!FilesStep
    <2>4. CASE errors # <<>>
        <3>1. ~Running
            BY <2>1, <2>4, ErrorsStay DEF Stand, Running
        <3>2. UNCHANGED R!machine
            BY <1>3, <3>1
        <3>3. UNCHANGED files
            BY <3>2 DEF R!machine
        <3>4. (R!SoundLayout' <=> R!SoundLayout) /\ \A f : R!IsHome(f)' <=> R!IsHome(f)
            BY <1>3, R!HomeStays
        <3> QED
            BY <2>2, <3>3, <3>4 DEF R!FilesGoHome
    <2> QED
        BY <2>3, <2>4
<1>8. Over'
    <2> SUFFICES ASSUME errors' = <<>>, phase' = "Complete", status' # "running", R!SoundLayout'
                 PROVE  R!Installed'
        BY DEF Over
    <2>1. errors = <<>> /\ phase = "Complete" /\ ~Running
        BY ErrorsStay, Finishes
    <2>2. R!SoundLayout
        BY <1>3, R!HomeStays
    <2>3. R!Installed
        BY <2>1, <2>2, Comes
    <2>4. UNCHANGED <<R!given, R!machine>>
        BY <1>3, <2>1
    <2> QED
        BY <2>3, <2>4, R!InstalledStays
<1> QED
    BY <1>6, <1>7, <1>8 DEF RunInv

LEMMA RunAlways == Spec => []RunInv
    BY RunInit, RunStep, StandAlways, PlacedAlways, PTL DEF Spec
-----------------------------------------------------------------------------
(* What every client can count on.                                         *)
LEMMA Standing == Told /\ RecInv /\ Stand /\ RunInv => TypeOK
<1> SUFFICES ASSUME Told, RecInv, Stand, RunInv PROVE TypeOK
    OBVIOUS
<1>1. plan = RsExecutionPlan(config, uefi)
    BY DEF RecInv, Client
<1>2. phase \in InstallPhase /\ completed_phases \in Seq(InstallPhase) /\ errors \in Seq(InstallError)
    <2>1. phase \in InstallPhase
        BY DEF RecInv, Record
    <2>2. index(phase) \in 0 .. 13
        BY <2>1, IndexOf
    <2>3. SubSeq(AllPhases, 1, index(phase)) \in Seq(InstallPhase)
        <3>1. \A n \in 1 .. index(phase) : AllPhases[n] \in InstallPhase
            BY <2>2, PhaseList
        <3> QED
            BY <2>2, <3>1, SubSeqProperties
    <2> QED
        BY <2>1, <2>3 DEF RecInv, Record
<1>3. i \in 0 .. Len(plan) /\ (i # 0 => plan[i].phase = phase /\ k \in 1 .. Len(plan[i].operations) + 1)
    <2>1. Len(plan) = 13
        BY <1>1 DEF RsExecutionPlan
    <2> QED
        BY <2>1 DEF Stand, RecInv, Client
<1>4. R!Machine /\ R!L = Len(parts(config)) /\ DOMAIN parts(config) = 1 .. R!L
    BY RunGiven DEF RunInv, R!Behind, R!Typed, Told, ConfigKnown
<1>5. ToSet(mounted) \subseteq 1 .. R!L
    BY <1>4 DEF R!Machine, ToSet
<1>6. table \cup swaps \cup ToSet(mounted) \subseteq DOMAIN parts(config)
    BY <1>4, <1>5 DEF R!Machine
<1>7. /\ mapped \in BOOLEAN /\ holds \in [0 .. Len(parts(config)) -> {"blank", "luks", "fs", "swap"}]
      /\ \A f \in files : f[3] \in 0 .. Len(parts(config))
    BY <1>4 DEF R!Machine
<1> QED
    BY <1>1, <1>2, <1>3, <1>6, <1>7 DEF TypeOK, Told, Stand

\* The client's variables stay what AgnovaInstaller and its plan make of them:
\* it is at an operation of an entry that belongs to the current phase, and the
\* machine has no partition that the configuration has not.
THEOREM ClientTypes == Spec => []TypeOK
    BY Standing, StandAlways, RunAlways, PTL

\* Taking the phases in their order instead of the plan's entries in theirs
\* makes no operation impossible, whatever the configuration: until the first
\* failure the client is an executor of the plan in the order of its phases.
THEOREM PhasesPossible == Spec => []PhaseOrderPossible
<1>1. Told /\ RecInv /\ Stand /\ RunInv => PhaseOrderPossible
    <2> SUFFICES ASSUME Told, RecInv, Stand, RunInv, Running, errors = <<>>, ~config.disk.encrypt,
                        operation.fatal, operation.do = "unmount" => M!Unmountable
                 PROVE  M!Possible
        BY DEF PhaseOrderPossible
    <2>1. R!Running /\ M!op = R!op /\ R!op = operation
        BY OpHere
    <2>2. R!PlanPossible
        BY R!FindsAll DEF RunInv
    <2>3. ~Ported.encrypt
        BY DEF Ported
    <2>4. R!op.do = "unmount" => R!Unmountable
        BY <2>1, LayoutSame
    <2>5. R!Possible
        BY <2>1, <2>2, <2>3, <2>4 DEF R!PlanPossible
    <2> QED
        BY <2>1, <2>5, PossibleSame
<1> QED
    BY <1>1, StandAlways, RunAlways, PTL

\* A client that stops with the first failure has put every file where the
\* installed system will look for it, and nothing on the running system.
THEOREM CarefulHome == Spec => []CarefulGoesHome
<1>1. Stand /\ RunInv => CarefulGoesHome
    BY LayoutSame DEF RunInv, Home, CarefulGoesHome
<1> QED
    BY <1>1, StandAlways, RunAlways, PTL

\* A result that says success is of a run with no failure on record that came
\* behind the last phase: all of the plan was done, and nothing of it undone.
THEOREM SuccessIsEarned == Spec => []SuccessMeansInstalled
<1>1. Told /\ RecInv /\ Stand /\ RunInv => SuccessMeansInstalled
    <2> SUFFICES ASSUME Told, RecInv, Stand, RunInv, M!SoundLayout, result.success
                 PROVE  M!Installed
        BY DEF SuccessMeansInstalled
    <2>1. errors = <<>> /\ phase = "Complete"
        BY DEF result, Success, is_complete
    <2> QED
        BY <2>1, Comes, LayoutSame
<1> QED
    BY <1>1, StandAlways, RunAlways, PTL
=============================================================================
