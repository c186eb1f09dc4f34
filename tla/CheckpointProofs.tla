------------------------- MODULE CheckpointProofs -------------------------
(* What a checkpoint directory holds, and that a run goes on from it as if   *)
(* none had ended, for any events, gap, rotation and number of runs, and     *)
(* with the process ending at any point.                                     *)
EXTENDS Checkpoints, FiniteSetTheorems, WellFoundedInduction, TLAPS

SavingAt == {"clear tmp", "write model", "write harness", "clear final", "open latest",
             "write latest", "prune"}

Types ==
  /\ at \in SavingAt \cup {"top", "bottom", "ended"} /\ resume \in {"top", "bottom"}
  /\ cycle \in Cycles /\ tb \in Machines /\ host \in Hosts /\ asked \subseteq AllEvents
  /\ files \in [Cycles -> [tmp : Dirs \cup {Nothing}, final : Dirs \cup {Nothing}]]

\* How far the checkpoint under way has come.
Progress ==
  /\ at \in {"write model", "write harness"} => files[cycle].tmp \in Dirs
  /\ at = "write harness" => files[cycle].tmp.model # Nothing
  /\ at = "clear final" => Whole(files[cycle].tmp)
  /\ at \in {"open latest", "write latest"} => Whole(files[cycle].final)

IInv == Types /\ Progress

-----------------------------------------------------------------------------
(* The least of a set of cycles.                                             *)

Less == OpToRel(<, Nat)

LEMMA LeastCycle ==
  ASSUME NEW T \in SUBSET Nat, T # {}
  PROVE  \E c \in T : \A d \in T : c <= d
<1>1. IsWellFoundedOn(Less, Nat)
  BY NatLessThanWellFounded DEF Less
<1>2. \A x, y \in Nat : <<y, x>> \in Less <=> y < x
  BY DEF OpToRel, Less
<1>3. \E x \in T : \A y \in T : ~ (<<y, x>> \in Less)
  BY <1>1, WFMin, Zenon
<1>4. PICK x \in T : \A y \in T : ~ (<<y, x>> \in Less)
  BY <1>3
<1>5. ASSUME NEW y \in T PROVE x <= y
  <2>1. x \in Nat /\ y \in Nat
    OBVIOUS
  <2>2. ~ (y < x)
    BY <1>2, <1>4, <2>1, Zenon
  <2>3. QED
    BY <2>1, <2>2
<1>6. QED
  BY <1>5

\* The event at the head of the queue is one of it.
LEMMA FirstInQueue ==
  ASSUME NEW q \in SUBSET AllEvents, q # {}
  PROVE  First(q) \in q
<1>1. \A e \in AllEvents : e.cycle \in Nat
  BY CheckpointsAssumption DEF AllEvents
<1> DEFINE T == {e.cycle : e \in q}
<1>2. T \in SUBSET Nat /\ T # {}
  BY <1>1
<1>3. PICK c \in T : \A d \in T : c <= d
  BY <1>2, LeastCycle
<1>4. PICK e \in q : e.cycle = c
  BY <1>3
<1>5. \A f \in q : e.cycle <= f.cycle
  BY <1>3, <1>4
<1>6. QED
  BY <1>4, <1>5 DEF First

LEMMA EntriesFinite == Entries \subseteq Cycles /\ IsFiniteSet(Entries) /\ Entries \in SUBSET Nat
<1>1. IsFiniteSet(Cycles)
  BY FS_Interval, CheckpointsAssumption DEF Cycles
<1>2. Entries \subseteq Cycles /\ Cycles \subseteq Nat
  BY DEF Entries, Cycles
<1>3. QED
  BY <1>1, <1>2, FS_Subset

\* What the rotation removes is there, and as many as are kept come after it.
LEMMA OldestFacts ==
  ASSUME Cardinality(Entries) > checkpoint_keep
  PROVE  /\ Oldest \in Entries
         /\ Cardinality({d \in Entries : d > Oldest}) >= checkpoint_keep
<1>1. Entries # {}
  BY FS_EmptySet, CheckpointsAssumption
<1>2. Oldest \in Entries /\ \A d \in Entries : Oldest <= d
  BY <1>1, EntriesFinite, LeastCycle DEF Oldest
<1> DEFINE Later == {d \in Entries : d > Oldest}
<1>3. Later = Entries \ {Oldest}
  <2>1. Oldest \in Nat /\ \A d \in Entries : d \in Nat /\ Oldest <= d
    BY <1>2, EntriesFinite
  <2>2. \A d \in Entries : d > Oldest <=> d # Oldest
    <3> HIDE <1>2
    <3> QED
      BY <2>1
  <2>3. QED
    BY <2>2, Zenon
<1>4. Cardinality(Later) = Cardinality(Entries) - 1 /\ Cardinality(Entries) \in Nat
  BY <1>2, <1>3, EntriesFinite, FS_RemoveElement, FS_CardinalityType
<1>5. Cardinality(Later) >= checkpoint_keep
  <2> HIDE DEF Later
  <2> QED
    BY <1>4, CheckpointsAssumption
<1>6. QED
  BY <1>2, <1>5

-----------------------------------------------------------------------------
(* The invariant holds at first and after every step.                        *)

LEMMA InitGood == Init => IInv
<1> SUFFICES ASSUME Init PROVE IInv
  OBVIOUS
<1>1. cycle \in Cycles
  BY CheckpointsAssumption DEF Init, Cycles
<1>2. tb \in Machines /\ host \in Hosts /\ asked \subseteq AllEvents
  BY DEF Init, Machines, Hosts, AllEvents
<1>3. Types
  BY <1>1, <1>2 DEF Types, Init
<1>4. Progress
  BY DEF Progress, Init
<1>5. QED
  BY <1>3, <1>4 DEF IInv

LEMMA BodyKeeps == IInv /\ Body => IInv'
<1> SUFFICES ASSUME IInv, Body PROVE IInv'
  OBVIOUS
<1> USE DEF IInv, Types
<1>1. host.events \subseteq AllEvents /\ host.queue \subseteq AllEvents /\ cycle \in Nat
  BY CheckpointsAssumption DEF Hosts, Cycles
<1>2. Queue \subseteq AllEvents
  BY <1>1 DEF Queue, Due
<1>3. Sends => First(Queue) \in AllEvents
  BY <1>2, FirstInQueue DEF Sends
<1>4. host' \in Hosts
  <2>1. host' = [events |-> host'.events, queue |-> host'.queue, last_byte |-> host'.last_byte]
    BY DEF Body
  <2>2. host'.events \subseteq AllEvents /\ host'.queue \subseteq AllEvents
    BY <1>1, <1>2 DEF Body
  <2>3. host'.last_byte \in Nat
    BY <1>1 DEF Body, Hosts
  <2>4. QED
    BY <2>1, <2>2, <2>3 DEF Hosts
<1>5. tb' \in Machines
  <2>1. tb.clock \in Nat /\ tb.got \subseteq AllEvents \X Nat
    BY DEF Machines
  <2>2. tb' = [clock |-> tb'.clock, got |-> tb'.got] /\ tb'.clock \in Nat
    BY <2>1 DEF Body
  <2>3. tb'.got \subseteq AllEvents \X Nat
    BY <1>3, <2>1 DEF Body
  <2>4. QED
    BY <2>2, <2>3 DEF Machines
<1>6. Types'
  BY <1>4, <1>5 DEF Body
<1>7. Progress'
  BY DEF Body, Progress
<1>8. QED
  BY <1>6, <1>7

LEMMA LoopKeeps == IInv /\ (NextCycle \/ BeginSave \/ SaveFails \/ Stop) => IInv'
<1>1. ASSUME IInv, NextCycle PROVE IInv'
  <2>1. cycle' \in Cycles
    BY <1>1, CheckpointsAssumption DEF IInv, Types, NextCycle, Cycles
  <2>2. QED
    BY <1>1, <2>1 DEF IInv, Types, Progress, NextCycle
<1>2. ASSUME IInv, BeginSave PROVE IInv'
  BY <1>2 DEF IInv, Types, Progress, BeginSave, SavingAt
<1>3. ASSUME IInv, SaveFails PROVE IInv'
  <2>1. at' \in {"top", "bottom", "ended"}
    BY <1>3 DEF IInv, Types, SaveFails
  <2>2. QED
    BY <1>3, <2>1 DEF IInv, Types, Progress, SaveFails
<1>4. ASSUME IInv, Stop PROVE IInv'
  BY <1>4 DEF IInv, Types, Progress, Stop
<1>5. QED
  BY <1>1, <1>2, <1>3, <1>4

-----------------------------------------------------------------------------
(* The file operations of a checkpoint.                                      *)

Slots == [tmp : Dirs \cup {Nothing}, final : Dirs \cup {Nothing}]

LEMMA PutFile ==
  ASSUME files \in [Cycles -> Slots], NEW c \in Cycles, NEW place \in {"tmp", "final"},
         NEW d \in Dirs \cup {Nothing}, Put(c, place, d)
  PROVE  /\ files' \in [Cycles -> Slots]
         /\ files'[c][place] = d
         /\ \A p \in {"tmp", "final"} \ {place} : files'[c][p] = files[c][p]
         /\ \A e \in Cycles \ {c} : files'[e] = files[e]
  BY DEF Put, Slots

LEMMA EmptyDirIsDir == EmptyDir \in Dirs
  BY DEF EmptyDir, Dirs

LEMMA RemoveFile ==
  ASSUME files \in [Cycles -> Slots], NEW c \in Cycles, NEW place \in {"tmp", "final"},
         Remove(c, place)
  PROVE  /\ files' \in [Cycles -> Slots]
         /\ \A p \in {"tmp", "final"} \ {place} : files'[c][p] = files[c][p]
         /\ \A e \in Cycles \ {c} : files'[e] = files[e]
<1> DEFINE d == IF files[c][place] = EmptyDir THEN Nothing ELSE EmptyDir
<1>1. d \in Dirs \cup {Nothing} /\ Put(c, place, d)
  BY EmptyDirIsDir DEF Remove
<1> HIDE DEF d
<1>2. QED
  BY <1>1, PutFile

LEMMA ClearTmpKeeps == IInv /\ ClearTmp => IInv'
<1> SUFFICES ASSUME IInv, ClearTmp PROVE IInv'
  OBVIOUS
<1>1. files \in [Cycles -> Slots] /\ cycle \in Cycles /\ at = "clear tmp"
  BY DEF IInv, Types, Slots, ClearTmp
<1>2. CASE Exists(cycle, "tmp")
  <2>1. files' \in [Cycles -> Slots] /\ at' = "clear tmp"
    BY <1>1, <1>2, RemoveFile DEF ClearTmp
  <2>2. QED
    BY <2>1 DEF IInv, Types, Progress, ClearTmp, Slots
<1>3. CASE ~ Exists(cycle, "tmp")
  <2>1. files' \in [Cycles -> Slots] /\ files'[cycle].tmp = EmptyDir /\ at' = "write model"
    BY <1>1, <1>3, PutFile, EmptyDirIsDir DEF ClearTmp
  <2>2. QED
    BY <2>1, EmptyDirIsDir DEF IInv, Types, Progress, ClearTmp, SavingAt, Slots
<1>4. QED
  BY <1>2, <1>3

LEMMA WriteModelKeeps == IInv /\ WriteModel => IInv'
<1> SUFFICES ASSUME IInv, WriteModel PROVE IInv'
  OBVIOUS
<1> DEFINE d == [files[cycle].tmp EXCEPT !.model = tb]
<1>1. files \in [Cycles -> Slots] /\ cycle \in Cycles /\ files[cycle].tmp \in Dirs
  BY DEF IInv, Types, Progress, Slots, WriteModel
<1>2. d \in Dirs /\ d.model = tb /\ tb # Nothing
  BY <1>1, NothingAssumption DEF IInv, Types, Dirs
<1>3. files' \in [Cycles -> Slots] /\ files'[cycle].tmp = d
  <2>1. Put(cycle, "tmp", d)
    BY DEF WriteModel
  <2> HIDE DEF d
  <2>2. QED
    BY <1>1, <1>2, <2>1, PutFile
<1> HIDE DEF d
<1>4. QED
  BY <1>1, <1>2, <1>3 DEF IInv, Types, Progress, WriteModel, SavingAt, Slots

LEMMA WriteHarnessKeeps == IInv /\ WriteHarness => IInv'
<1> SUFFICES ASSUME IInv, WriteHarness PROVE IInv'
  OBVIOUS
<1> DEFINE d == [files[cycle].tmp EXCEPT !.harness = Harness]
<1>1. /\ files \in [Cycles -> Slots] /\ cycle \in Cycles
      /\ files[cycle].tmp \in Dirs /\ files[cycle].tmp.model # Nothing
  BY DEF IInv, Types, Progress, Slots, WriteHarness
<1>2. Harness \in Harnesses
  BY DEF IInv, Types, Harness, Harnesses
<1>3. d \in Dirs /\ d.model = files[cycle].tmp.model /\ d.harness = Harness
  BY <1>1, <1>2 DEF Dirs
<1>4. files' \in [Cycles -> Slots] /\ files'[cycle].tmp = d
  <2>1. Put(cycle, "tmp", d)
    BY DEF WriteHarness
  <2> HIDE DEF d
  <2>2. QED
    BY <1>1, <1>3, <2>1, PutFile
<1> HIDE DEF d
<1>5. Whole(d)
  BY <1>1, <1>2, <1>3, NothingAssumption DEF Whole
<1>6. QED
  BY <1>1, <1>4, <1>5 DEF IInv, Types, Progress, WriteHarness, SavingAt, Slots

\* What the move does: the whole temporary directory takes the place of none.
LEMMA InstallFacts ==
  ASSUME IInv, Install
  PROVE  /\ Whole(files[cycle].tmp) /\ cycle \in Cycles
         /\ files' \in [Cycles -> Slots]
         /\ \A e \in Cycles \ {cycle} : files'[e] = files[e]
         /\ \/ Exists(cycle, "final") /\ at' = "clear final" /\ files'[cycle].tmp = files[cycle].tmp
            \/ ~ Exists(cycle, "final") /\ at' = "open latest" /\ files'[cycle].final = files[cycle].tmp
<1>1. /\ files \in [Cycles -> Slots] /\ cycle \in Cycles /\ at = "clear final"
      /\ Whole(files[cycle].tmp)
  BY DEF IInv, Types, Progress, Slots, Install
<1>2. CASE Exists(cycle, "final")
  BY <1>1, <1>2, RemoveFile DEF Install
<1>3. CASE ~ Exists(cycle, "final")
  <2>1. files' = [files EXCEPT ![cycle] = [tmp |-> Nothing, final |-> files[cycle].tmp]]
    BY <1>3 DEF Install
  <2>2. [tmp |-> Nothing, final |-> files[cycle].tmp] \in Slots
    BY <1>1 DEF Slots
  <2>3. QED
    BY <1>1, <1>3, <2>1, <2>2 DEF Install
<1>4. QED
  BY <1>2, <1>3

LEMMA InstallKeeps == IInv /\ Install => IInv'
<1> SUFFICES ASSUME IInv, Install PROVE IInv'
  OBVIOUS
<1>1. CASE at' = "clear final"
  BY <1>1, InstallFacts DEF IInv, Types, Progress, Install, Slots, Whole
<1>2. CASE at' = "open latest"
  BY <1>2, InstallFacts DEF IInv, Types, Progress, Install, Slots, SavingAt
<1>3. QED
  BY <1>1, <1>2, InstallFacts

LEMMA LatestKeeps == IInv /\ (OpenLatest \/ WriteLatest) => IInv'
  BY DEF IInv, Types, Progress, OpenLatest, WriteLatest, SavingAt

LEMMA PruneKeeps == IInv /\ Prune => IInv'
<1> SUFFICES ASSUME IInv, Prune PROVE IInv'
  OBVIOUS
<1>1. files \in [Cycles -> Slots] /\ at = "prune" /\ resume \in {"top", "bottom"}
  BY DEF IInv, Types, Slots, Prune
<1>2. files' \in [Cycles -> Slots] /\ at' \in {"prune", "top", "bottom"}
  <2>1. CASE Cardinality(Entries) > checkpoint_keep
    BY <1>1, <2>1, OldestFacts, EntriesFinite, RemoveFile DEF Prune
  <2>2. CASE ~ (Cardinality(Entries) > checkpoint_keep)
    BY <1>1, <2>2 DEF Prune
  <2>3. QED
    BY <2>1, <2>2
<1>3. QED
  BY <1>2 DEF IInv, Types, Progress, Prune, SavingAt, Slots

-----------------------------------------------------------------------------
(* The next run.                                                             *)

LEMMA RestartKeeps == IInv /\ Restart => IInv'
<1> SUFFICES ASSUME IInv, Restart PROVE IInv'
  OBVIOUS
<1>1. cycle' \in Cycles /\ tb' \in Machines /\ host' \in Hosts /\ asked' \subseteq AllEvents
  BY CheckpointsAssumption DEF Restart, Boot, Cycles, Machines, Hosts, AllEvents
<1>2. QED
  BY <1>1 DEF IInv, Types, Progress, Restart

LEMMA RestoreKeeps ==
  ASSUME IInv, NEW c \in Cycles, NEW later \in {{}, LaterEvents}, Restore(c, later)
  PROVE  IInv'
<1> DEFINE saved == files[c].final.harness
           new == {e \in later : e.cycle > saved.current_cycle}
<1>1. files[c].final \in Dirs /\ saved # Nothing /\ files[c].final.model # Nothing
  BY DEF IInv, Types, Restore, Restorable, Whole
<1>2. saved \in Harnesses /\ files[c].final.model \in Machines
  BY <1>1 DEF Dirs
<1>3. new \subseteq AllEvents
  BY DEF AllEvents
<1>4. /\ cycle' = saved.current_cycle + 1 /\ saved.current_cycle < MAX_CYCLES
      /\ host' = [saved.host EXCEPT !.events = @ \cup new]
      /\ asked' = saved.asked \cup new /\ tb' = files[c].final.model /\ at' = "top"
  BY DEF Restore
<1> HIDE DEF saved, new
<1>5. saved.current_cycle \in Cycles /\ saved.host \in Hosts /\ saved.asked \subseteq AllEvents
  BY <1>2 DEF Harnesses
<1>6. cycle' \in Cycles
  BY <1>4, <1>5, CheckpointsAssumption DEF Cycles
<1>7. host' \in Hosts
  BY <1>3, <1>4, <1>5 DEF Hosts
<1>8. asked' \subseteq AllEvents
  BY <1>3, <1>4, <1>5
<1>9. QED
  BY <1>2, <1>4, <1>6, <1>7, <1>8 DEF IInv, Types, Progress, Restore

LEMMA Inductive == IInv /\ [Next]_vars => IInv'
<1> SUFFICES ASSUME IInv, [Next]_vars PROVE IInv'
  OBVIOUS
<1>1. CASE Body \/ NextCycle \/ BeginSave \/ SaveFails \/ Stop \/ Restart
  BY <1>1, BodyKeeps, LoopKeeps, RestartKeeps
<1>2. CASE Save
  BY <1>2, ClearTmpKeeps, WriteModelKeeps, WriteHarnessKeeps, InstallKeeps, LatestKeeps,
     PruneKeeps DEF Save
<1>3. CASE \E c \in Cycles, later \in {{}, LaterEvents} : Restore(c, later)
  BY <1>3, RestoreKeeps
<1>4. CASE UNCHANGED vars
  BY <1>4 DEF vars, IInv, Types, Progress
<1>5. QED
  BY <1>1, <1>2, <1>3, <1>4 DEF Next

LEMMA Invariance == Spec => []IInv
<1>1. Init => IInv
  BY InitGood
<1>2. IInv /\ [Next]_vars => IInv'
  BY Inductive
<1>3. QED
  BY <1>1, <1>2, PTL DEF Spec

-----------------------------------------------------------------------------
(* What becomes of the checkpoint of a cycle.                                *)

\* Only the move and the rotation change a directory with its final name.
LEMMA FinalChanges ==
  ASSUME IInv, [Next]_vars, NEW c \in Cycles, files'[c].final # files[c].final
  PROVE  Install \/ Prune
<1>1. files \in [Cycles -> Slots] /\ cycle \in Cycles
  BY DEF IInv, Types, Slots
<1>2. CASE ClearTmp
  <2>1. files'[c].final = files[c].final
    BY <1>1, <1>2, RemoveFile, PutFile, EmptyDirIsDir DEF ClearTmp
  <2>2. QED
    BY <2>1
<1>3. CASE WriteModel
  BY <1>1, <1>3 DEF WriteModel, Put, Slots
<1>4. CASE WriteHarness
  BY <1>1, <1>4 DEF WriteHarness, Put, Slots
<1>5. CASE UNCHANGED files
  BY <1>5
<1>6. CASE Install \/ Prune
  BY <1>6
<1>7. QED
  BY <1>2, <1>3, <1>4, <1>5, <1>6
  DEF Next, Save, vars, Body, NextCycle, BeginSave, OpenLatest, WriteLatest, SaveFails, Stop,
      Restart, Restore

LEMMA NamedByTheMove ==
  ASSUME IInv, [Next]_vars, NEW c \in Cycles, ~ Exists(c, "final"), Exists(c, "final")'
  PROVE  Whole(files'[c].final)
<1>1. Install \/ Prune
  BY FinalChanges DEF Exists
<1>2. CASE Install
  BY <1>2, InstallFacts DEF Exists
<1>3. CASE Prune
  <2>1. Cardinality(Entries) > checkpoint_keep /\ Remove(Oldest, "final")
    BY <1>3 DEF Prune, Exists
  <2>2. files \in [Cycles -> Slots] /\ Oldest \in Cycles /\ Oldest # c
    BY <2>1, OldestFacts, EntriesFinite DEF IInv, Types, Slots, Entries
  <2>3. files'[c] = files[c]
    BY <2>1, <2>2, RemoveFile
  <2>4. QED
    BY <2>3 DEF Exists
<1>4. QED
  BY <1>1, <1>2, <1>3

LEMMA TakenAway ==
  ASSUME IInv, [Next]_vars, NEW c \in Cycles, Whole(files[c].final), ~ Whole(files'[c].final)
  PROVE  \/ Whole(files[c].tmp)
         \/ Cardinality({d \in Entries : d > c}) >= checkpoint_keep
<1>1. Install \/ Prune
  BY FinalChanges
<1>2. CASE Install
  BY <1>2, InstallFacts
<1>3. CASE Prune
  <2>1. Cardinality(Entries) > checkpoint_keep /\ Remove(Oldest, "final")
    BY <1>3 DEF Prune
  <2>2. files \in [Cycles -> Slots] /\ Oldest \in Cycles
    BY <2>1, OldestFacts, EntriesFinite DEF IInv, Types, Slots
  <2>3. c = Oldest
    BY <2>1, <2>2, RemoveFile
  <2>4. QED
    BY <2>1, <2>3, OldestFacts
<1>4. QED
  BY <1>1, <1>2, <1>3

LEMMA NamesWhatIsThere ==
  ASSUME IInv, [Next]_vars, latest' \notin {latest, Nothing}
  PROVE  Whole(files[latest'].final)
<1>1. WriteLatest
  BY DEF Next, Save, vars, Body, NextCycle, BeginSave, ClearTmp, WriteModel, WriteHarness,
         Install, OpenLatest, Prune, SaveFails, Stop, Restart, Restore
<1>2. QED
  BY <1>1 DEF WriteLatest, IInv, Progress

\* A directory has its final name only once everything is in it, whatever the events, the gap,
\* the rotation and the point at which a run ends: a restore never finds half a checkpoint that
\* a save named (1746-1747).
THEOREM WholeNames == Spec => NamedWhenWhole
<1>1. IInv /\ [Next]_vars =>
        [\A c \in Cycles : ~Exists(c, "final") /\ Exists(c, "final")' => Whole(files[c].final)']_vars
  BY NamedByTheMove
<1>2. QED
  BY <1>1, Invariance, PTL DEF Spec, NamedWhenWhole

\* latest.txt comes to name only what is there and whole, and what it names goes only when its
\* successor is ready or as many as are kept come after it, for any number kept (1638-1655).
THEOREM LatestKept == Spec => LatestIsKept
<1>1. IInv /\ [Next]_vars =>
        [/\ latest' \notin {latest, Nothing} => Whole(files[latest'].final)
         /\ \A c \in Cycles : latest = c /\ Whole(files[c].final) /\ ~Whole(files'[c].final) =>
              \/ Whole(files[c].tmp)
              \/ Cardinality({d \in Entries : d > c}) >= checkpoint_keep]_vars
  <2> SUFFICES ASSUME IInv, [Next]_vars
      PROVE  /\ latest' \notin {latest, Nothing} => Whole(files[latest'].final)
             /\ \A c \in Cycles : latest = c /\ Whole(files[c].final) /\ ~Whole(files'[c].final) =>
                  \/ Whole(files[c].tmp)
                  \/ Cardinality({d \in Entries : d > c}) >= checkpoint_keep
    OBVIOUS
  <2>1. latest' \notin {latest, Nothing} => Whole(files[latest'].final)
    BY NamesWhatIsThere
  <2>2. \A c \in Cycles : latest = c /\ Whole(files[c].final) /\ ~Whole(files'[c].final) =>
          \/ Whole(files[c].tmp)
          \/ Cardinality({d \in Entries : d > c}) >= checkpoint_keep
    BY TakenAway
  <2>3. QED
    BY <2>1, <2>2
<1>2. QED
  BY <1>1, Invariance, PTL DEF Spec, LatestIsKept

-----------------------------------------------------------------------------
(* Induction and recursion over the natural numbers.                         *)

LEMMA Induction ==
  ASSUME NEW S \in SUBSET Nat, 0 \in S, \A n \in S : n + 1 \in S
  PROVE  S = Nat
<1> SUFFICES ASSUME Nat \ S # {} PROVE FALSE
  OBVIOUS
<1>1. PICK c \in Nat \ S : \A d \in Nat \ S : c <= d
  BY LeastCycle
<1>2. c # 0 /\ c - 1 \in Nat
  BY <1>1
<1>3. c - 1 \in S
  BY <1>1, <1>2
<1>4. QED
  BY <1>1, <1>2, <1>3

Iterates(f, V, zero, step) ==
  f \in [Nat -> V] /\ f[0] = zero /\ \A n \in Nat : f[n + 1] = step[<<n, f[n]>>]

LEMMA Recursion ==
  ASSUME NEW V, NEW zero \in V, NEW step \in [Nat \X V -> V]
  PROVE  \E f : Iterates(f, V, zero, step)
<1> DEFINE Upto(f, k) == /\ f \in [Nat -> V] /\ f[0] = zero
                         /\ \A n \in Nat : n < k => f[n + 1] = step[<<n, f[n]>>]
           S == {k \in Nat : \E f : Upto(f, k)}
           G(k) == CHOOSE f : Upto(f, k)
           F == [k \in Nat |-> G(k)[k]]
<1>1. S = Nat
  <2>1. Upto([n \in Nat |-> zero], 0)
    OBVIOUS
  <2>2. 0 \in S
    BY <2>1
  <2>3. ASSUME NEW k \in S PROVE k + 1 \in S
    <3>1. PICK f : Upto(f, k)
      OBVIOUS
    <3> DEFINE g == [f EXCEPT ![k + 1] = step[<<k, f[k]>>]]
    <3>2. Upto(g, k + 1)
      <4>1. k \in Nat /\ f \in [Nat -> V] /\ step[<<k, f[k]>>] \in V
        BY <3>1
      <4>2. g \in [Nat -> V] /\ g[0] = zero /\ g[k + 1] = step[<<k, f[k]>>]
        BY <3>1, <4>1
      <4>3. \A n \in Nat : n < k + 1 => g[n] = f[n]
        BY <4>1
      <4> HIDE DEF g
      <4>4. ASSUME NEW n \in Nat, n < k + 1 PROVE g[n + 1] = step[<<n, g[n]>>]
        <5>1. CASE n = k
          BY <4>1, <4>2, <4>3, <5>1
        <5>2. CASE n < k
          <6>1. g[n + 1] = f[n + 1] /\ g[n] = f[n]
            BY <4>1, <4>3, <5>2
          <6>2. QED
            BY <3>1, <5>2, <6>1
        <5>3. n = k \/ n < k
          BY <4>1, <4>4
        <5>4. QED
          BY <5>1, <5>2, <5>3
      <4>5. QED
        BY <4>2, <4>4
    <3>3. k + 1 \in Nat
      OBVIOUS
    <3> HIDE DEF g, Upto
    <3>4. QED
      BY <3>2, <3>3
  <2>4. S \in SUBSET Nat
    OBVIOUS
  <2> HIDE DEF S
  <2>5. QED
    BY <2>2, <2>3, <2>4, Induction
<1>2. \A k \in Nat : Upto(G(k), k)
  <2> HIDE DEF Upto
  <2>1. \A k \in Nat : \E f : Upto(f, k)
    BY <1>1
  <2>2. QED
    BY <2>1, Zenon
<1> HIDE DEF G, S
<1>3. ASSUME NEW k \in Nat PROVE G(k)[k] = G(k + 1)[k]
  <2> DEFINE T == {n \in Nat : n <= k => G(k)[n] = G(k + 1)[n]}
  <2>1. Upto(G(k), k) /\ Upto(G(k + 1), k + 1)
    BY <1>2
  <2>2. 0 \in T
    BY <2>1
  <2>3. ASSUME NEW n \in T PROVE n + 1 \in T
    <3>1. n \in Nat /\ n + 1 \in Nat
      OBVIOUS
    <3>2. ASSUME n + 1 <= k PROVE G(k)[n + 1] = G(k + 1)[n + 1]
      <4>1. n < k /\ n < k + 1 /\ n <= k
        BY <3>1, <3>2
      <4>2. G(k)[n] = G(k + 1)[n]
        BY <4>1
      <4>3. G(k)[n + 1] = step[<<n, G(k)[n]>>] /\ G(k + 1)[n + 1] = step[<<n, G(k + 1)[n]>>]
        BY <2>1, <3>1, <4>1
      <4>4. QED
        BY <4>2, <4>3
    <3>3. QED
      BY <3>1, <3>2
  <2>4. T = Nat
    BY <2>2, <2>3, Induction
  <2>5. QED
    BY <2>4
<1>4. F \in [Nat -> V] /\ F[0] = zero
  BY <1>2
<1>5. ASSUME NEW n \in Nat PROVE F[n + 1] = step[<<n, F[n]>>]
  <2>1. Upto(G(n + 1), n + 1)
    BY <1>2
  <2>2. G(n + 1)[n + 1] = step[<<n, G(n + 1)[n]>>]
    BY <2>1
  <2>3. F[n] = G(n)[n] /\ F[n + 1] = G(n + 1)[n + 1]
    OBVIOUS
  <2>4. G(n)[n] = G(n + 1)[n]
    BY <1>3
  <2> HIDE DEF F
  <2>5. QED
    BY <2>2, <2>3, <2>4
<1> HIDE DEF F
<1>6. Iterates(F, V, zero, step)
  BY <1>4, <1>5 DEF Iterates
<1>7. QED
  BY <1>6

-----------------------------------------------------------------------------
(* When the bytes go.                                                        *)

Distinct(events) == \A e, f \in events : e.cycle = f.cycle => e = f

LEMMA CyclesAreNat == \A e \in AllEvents : e.cycle \in Nat
  BY CheckpointsAssumption DEF AllEvents

LEMMA LastBytesIs ==
  ASSUME NEW events \in SUBSET AllEvents
  PROVE  /\ LastBytes(events) \in [Nat -> Nat]
         /\ LastBytes(events)[0] = 0
         /\ \A c \in Nat : LastBytes(events)[c + 1] =
              IF \E e \in events : e.cycle = c THEN Goes(c, LastBytes(events)[c])
              ELSE LastBytes(events)[c]
<1> DEFINE Term(last, c) ==
             IF c = 0 THEN 0
             ELSE IF \E e \in events : e.cycle = c - 1 THEN Goes(c - 1, last[c - 1]) ELSE last[c - 1]
           step == [p \in Nat \X Nat |->
                      IF \E e \in events : e.cycle = p[1] THEN Goes(p[1], p[2]) ELSE p[2]]
<1>1. step \in [Nat \X Nat -> Nat]
  BY CheckpointsAssumption DEF Goes
<1>2. PICK f \in [Nat -> Nat] : f[0] = 0 /\ \A n \in Nat : f[n + 1] = step[<<n, f[n]>>]
  <2> HIDE DEF step
  <2>1. 0 \in Nat
    OBVIOUS
  <2>2. \E f : Iterates(f, Nat, 0, step)
    BY <1>1, <2>1, Recursion
  <2>3. QED
    BY <2>2 DEF Iterates
<1>3. \A n \in Nat : f[n + 1] = IF \E e \in events : e.cycle = n THEN Goes(n, f[n]) ELSE f[n]
  <2>1. \A n, m \in Nat : step[<<n, m>>] = IF \E e \in events : e.cycle = n THEN Goes(n, m) ELSE m
    OBVIOUS
  <2> HIDE DEF step
  <2>2. QED
    BY <1>2, <2>1
<1>4. f = [c \in Nat |-> Term(f, c)]
  <2>1. \A c \in Nat : f[c] = Term(f, c)
    <3>1. TAKE c \in Nat
    <3>2. CASE c = 0
      BY <1>2, <3>2
    <3>3. CASE c # 0
      <4>1. c - 1 \in Nat /\ (c - 1) + 1 = c
        BY <3>3
      <4>2. QED
        BY <1>3, <3>3, <4>1
    <3>4. QED
      BY <3>2, <3>3
  <2>2. QED
    BY <1>2, <2>1
<1>5. LastBytes(events) = CHOOSE last : last = [c \in Nat |-> Term(last, c)]
  BY DEF LastBytes
<1> DEFINE L == LastBytes(events)
<1>6. L = [c \in Nat |-> Term(L, c)]
  <2> HIDE DEF Body
  <2>1. QED
    BY <1>4, <1>5, Zenon
<1>7. \A c \in Nat : L[c] = Term(L, c)
  <2> HIDE DEF L, Body
  <2>1. QED
    BY <1>6
<1> HIDE DEF L
<1>8. L[0] = 0
  BY <1>7
<1>9. \A c \in Nat : L[c + 1] = IF \E e \in events : e.cycle = c THEN Goes(c, L[c]) ELSE L[c]
  <2>1. TAKE c \in Nat
  <2>2. c + 1 \in Nat /\ c + 1 # 0 /\ (c + 1) - 1 = c
    OBVIOUS
  <2>3. L[c + 1] = Term(L, c + 1)
    BY <1>7, <2>2
  <2>4. QED
    BY <2>2, <2>3
<1>10. \A c \in Nat : L[c] \in Nat
  <2> DEFINE S == {c \in Nat : L[c] \in Nat}
  <2>1. 0 \in S
    BY <1>8
  <2>2. ASSUME NEW c \in S PROVE c + 1 \in S
    <3>1. c \in Nat /\ c + 1 \in Nat /\ L[c] \in Nat
      OBVIOUS
    <3>2. Goes(c, L[c]) \in Nat
      BY <3>1, CheckpointsAssumption DEF Goes
    <3>3. L[c + 1] \in Nat
      BY <1>9, <3>1, <3>2, Zenon
    <3>4. QED
      BY <3>1, <3>3
  <2>3. S \in SUBSET Nat
    OBVIOUS
  <2>4. S = Nat
    <3> HIDE DEF S
    <3>1. QED
      BY <2>1, <2>2, <2>3, Induction
  <2>5. QED
    BY <2>4
<1>11. L \in [Nat -> Nat]
  <2>1. L = [c \in Nat |-> L[c]]
    <3> HIDE DEF Body
    <3>1. \A x, y : x = [c \in Nat |-> Term(y, c)] => x = [c \in Nat |-> x[c]]
      OBVIOUS
    <3>2. QED
      BY <1>6, <3>1
  <2>2. QED
    BY <1>10, <2>1
<1>12. QED
  BY <1>8, <1>9, <1>11 DEF L

\* The clock in which the byte of an event goes when those of events are all that is asked for.
Time(events, e) == Goes(e.cycle, LastBytes(events)[e.cycle])

\* The last byte before cycle c is one of the events before it, and none of them is later.
LEMMA LastBytesFacts ==
  ASSUME NEW A \in SUBSET AllEvents, NEW c \in Nat
  PROVE  /\ \A e \in A : e.cycle < c => Time(A, e) <= LastBytes(A)[c]
         /\ LastBytes(A)[c] = 0 \/ \E e \in A : e.cycle < c /\ LastBytes(A)[c] = Time(A, e)
<1> DEFINE L == LastBytes(A)
           Good(n) == /\ \A e \in A : e.cycle < n => Goes(e.cycle, L[e.cycle]) <= L[n]
                      /\ L[n] = 0 \/ \E e \in A : e.cycle < n /\ L[n] = Goes(e.cycle, L[e.cycle])
           S == {n \in Nat : Good(n)}
<1>1. /\ L \in [Nat -> Nat] /\ L[0] = 0
      /\ \A n \in Nat : L[n + 1] = IF \E e \in A : e.cycle = n THEN Goes(n, L[n]) ELSE L[n]
  BY LastBytesIs
<1>2. \A e \in A : e.cycle \in Nat
  BY CyclesAreNat
<1>3. \A n, last \in Nat : Goes(n, last) \in Nat /\ Goes(n, last) > last
  BY CheckpointsAssumption DEF Goes
<1> HIDE DEF L
<1>4. 0 \in S
  BY <1>1, <1>2
<1>5. ASSUME NEW n \in S PROVE n + 1 \in S
  <2>1. n \in Nat /\ Good(n) /\ n + 1 \in Nat /\ L[n] \in Nat /\ L[n + 1] \in Nat
    BY <1>1
  <2>2. CASE \E e \in A : e.cycle = n
    <3>1. L[n + 1] = Goes(n, L[n])
      BY <1>1, <2>1, <2>2
    <3>2. L[n + 1] > L[n]
      BY <1>3, <2>1, <3>1
    <3>3. ASSUME NEW e \in A, e.cycle < n + 1 PROVE Goes(e.cycle, L[e.cycle]) <= L[n + 1]
      <4>1. CASE e.cycle = n
        BY <2>1, <3>1, <4>1
      <4>2. CASE e.cycle < n
        <5>1. Goes(e.cycle, L[e.cycle]) <= L[n] /\ Goes(e.cycle, L[e.cycle]) \in Nat
          BY <1>1, <1>2, <1>3, <2>1, <4>2
        <5>2. QED
          BY <2>1, <3>2, <5>1
      <4>3. QED
        BY <1>2, <2>1, <3>3, <4>1, <4>2
    <3>4. PICK e \in A : e.cycle = n
      BY <2>2
    <3>5. e.cycle < n + 1 /\ L[n + 1] = Goes(e.cycle, L[e.cycle])
      BY <2>1, <3>1, <3>4
    <3>6. QED
      BY <2>1, <3>3, <3>5
  <2>3. CASE ~ \E e \in A : e.cycle = n
    <3>1. L[n + 1] = L[n]
      BY <1>1, <2>1, <2>3
    <3>2. \A e \in A : e.cycle < n + 1 <=> e.cycle < n
      BY <1>2, <2>1, <2>3
    <3>3. QED
      BY <2>1, <3>1, <3>2
  <2>4. QED
    BY <2>2, <2>3
<1>6. S \in SUBSET Nat
  OBVIOUS
<1>7. S = Nat
  <2> HIDE DEF S
  <2>1. QED
    BY <1>4, <1>5, <1>6, Induction
<1>8. Good(c)
  BY <1>7
<1>9. QED
  BY <1>8 DEF Time, L

\* What the times are: bytes go no earlier than they are asked for, in the order of their
\* cycles, with more than the gap between two; and a byte that waits goes as soon as it can.
LEMMA TimesFacts ==
  ASSUME NEW A \in SUBSET AllEvents
  PROVE  /\ \A e \in A : Time(A, e) \in Nat /\ e.cycle <= Time(A, e) /\ KEY_GAP < Time(A, e)
         /\ \A e, f \in A : e.cycle < f.cycle => Time(A, e) + KEY_GAP < Time(A, f)
         /\ \A e \in A : \/ Time(A, e) = e.cycle \/ Time(A, e) = KEY_GAP + 1
                         \/ \E f \in A : f.cycle < e.cycle /\ Time(A, e) = Time(A, f) + KEY_GAP + 1
<1>1. LastBytes(A) \in [Nat -> Nat] /\ KEY_GAP \in Nat
  BY LastBytesIs, CheckpointsAssumption
<1>2. \A e \in A : e.cycle \in Nat /\ LastBytes(A)[e.cycle] \in Nat
  BY <1>1, CyclesAreNat
<1>3. \A e \in A : Time(A, e) \in Nat /\ e.cycle <= Time(A, e) /\ KEY_GAP < Time(A, e)
  BY <1>1, <1>2 DEF Time, Goes
<1>4. ASSUME NEW e \in A, NEW f \in A, e.cycle < f.cycle PROVE Time(A, e) + KEY_GAP < Time(A, f)
  <2>1. Time(A, e) <= LastBytes(A)[f.cycle]
    BY <1>2, <1>4, LastBytesFacts
  <2>2. LastBytes(A)[f.cycle] + KEY_GAP < Time(A, f)
    BY <1>1, <1>2 DEF Time, Goes
  <2>3. QED
    BY <1>1, <1>2, <1>3, <2>1, <2>2
<1>5. ASSUME NEW e \in A
      PROVE  \/ Time(A, e) = e.cycle \/ Time(A, e) = KEY_GAP + 1
             \/ \E f \in A : f.cycle < e.cycle /\ Time(A, e) = Time(A, f) + KEY_GAP + 1
  <2>1. Time(A, e) = e.cycle \/ Time(A, e) = LastBytes(A)[e.cycle] + KEY_GAP + 1
    BY DEF Time, Goes
  <2>2. \/ LastBytes(A)[e.cycle] = 0
        \/ \E f \in A : f.cycle < e.cycle /\ LastBytes(A)[e.cycle] = Time(A, f)
    BY <1>2, LastBytesFacts
  <2>3. QED
    BY <1>1, <2>1, <2>2
<1>6. QED
  BY <1>3, <1>4, <1>5

\* Events of cycle k and later change nothing of what goes before.
LEMMA TimesAreLocal ==
  ASSUME NEW A \in SUBSET AllEvents, NEW B \in SUBSET AllEvents, NEW k \in Nat,
         \A e \in AllEvents : e.cycle < k => (e \in A <=> e \in B)
  PROVE  \A e \in AllEvents : e.cycle < k => Time(A, e) = Time(B, e)
<1> DEFINE S == {n \in Nat : n <= k => LastBytes(A)[n] = LastBytes(B)[n]}
<1>1. 0 \in S
  BY LastBytesIs
<1>2. ASSUME NEW n \in S PROVE n + 1 \in S
  <2>1. n \in Nat
    OBVIOUS
  <2>2. ASSUME n + 1 <= k PROVE LastBytes(A)[n + 1] = LastBytes(B)[n + 1]
    <3>1. n < k /\ LastBytes(A)[n] = LastBytes(B)[n]
      BY <2>1, <2>2
    <3>2. (\E e \in A : e.cycle = n) <=> (\E e \in B : e.cycle = n)
      BY <3>1
    <3>3. LastBytes(A)[n + 1] = IF \E e \in A : e.cycle = n THEN Goes(n, LastBytes(A)[n]) ELSE LastBytes(A)[n]
      BY <2>1, LastBytesIs
    <3>4. LastBytes(B)[n + 1] = IF \E e \in B : e.cycle = n THEN Goes(n, LastBytes(B)[n]) ELSE LastBytes(B)[n]
      BY <2>1, LastBytesIs
    <3>5. QED
      BY <3>1, <3>2, <3>3, <3>4, Zenon
  <2>3. QED
    BY <2>1, <2>2
<1>3. S \in SUBSET Nat
  OBVIOUS
<1>4. S = Nat
  <2> HIDE DEF S
  <2>1. QED
    BY <1>1, <1>2, <1>3, Induction
<1>5. QED
  BY <1>4, CyclesAreNat DEF Time

-----------------------------------------------------------------------------
(* A machine and the program beside it, part of the way.                     *)

\* What was asked for is sent, waits or is not due, as its time says.
Replays(machine, program, events) ==
  LET sent == {e \in events : Time(events, e) < machine.clock} IN
  /\ machine.got = {<<e, Time(events, e)>> : e \in sent}
  /\ program.events = {e \in events : e.cycle >= machine.clock}
  /\ program.queue = {e \in events : e.cycle < machine.clock /\ Time(events, e) >= machine.clock}
  /\ \A e \in sent : Time(events, e) <= program.last_byte
  /\ program.last_byte = 0 \/ \E e \in sent : program.last_byte = Time(events, e)

\* The byte of a cycle is the one whose time it is, if there is one.
Pending(A, k) == {e \in A : e.cycle <= k /\ Time(A, e) >= k}
ByteOfCycle(A, k, last_byte) ==
  LET Q == Pending(A, k) IN
  /\ k > last_byte + KEY_GAP /\ Q # {} => First(Q) \in A /\ Time(A, First(Q)) = k
  /\ (\E e \in A : Time(A, e) = k) => k > last_byte + KEY_GAP /\ Q # {}

LEMMA TheByteOfACycle ==
  ASSUME Distinct(AllEvents), NEW A \in SUBSET AllEvents, NEW k \in Nat, NEW machine, NEW program,
         machine.clock = k, Replays(machine, program, A)
  PROVE  ByteOfCycle(A, k, program.last_byte)
<1> DEFINE Q == Pending(A, k)
           t(e) == Time(A, e)
           last == program.last_byte
<1>1. \A e \in A : e.cycle \in Nat /\ t(e) \in Nat /\ e.cycle <= t(e) /\ KEY_GAP < t(e)
  BY TimesFacts, CyclesAreNat
<1>2. \A e, f \in A : e.cycle < f.cycle => t(e) + KEY_GAP < t(f)
  BY TimesFacts
<1>3. \A e \in A : \/ t(e) = e.cycle \/ t(e) = KEY_GAP + 1
                   \/ \E f \in A : f.cycle < e.cycle /\ t(e) = t(f) + KEY_GAP + 1
  BY TimesFacts
<1>4. \A e \in A : t(e) < k => t(e) <= last
  BY DEF Replays
<1>5. last = 0 \/ \E e \in A : t(e) < k /\ last = t(e)
  BY DEF Replays
<1>6. KEY_GAP \in Nat /\ last \in Nat
  BY <1>1, <1>5, CheckpointsAssumption
<1>10. Q = {e \in A : e.cycle <= k /\ t(e) >= k}
  BY DEF Pending
<1> HIDE DEF t, last, Q
<1>7. ASSUME k > last + KEY_GAP, Q # {} PROVE First(Q) \in A /\ t(First(Q)) = k
  <2>1. PICK e \in Q : \A f \in Q : e.cycle <= f.cycle
    <3> DEFINE C == {e.cycle : e \in Q}
    <3>1. C \in SUBSET Nat /\ C # {}
      BY <1>1, <1>7, <1>10
    <3>2. PICK c \in C : \A d \in C : c <= d
      BY <3>1, LeastCycle
    <3>3. QED
      BY <3>2
  <2>2. First(Q) \in Q /\ \A f \in Q : First(Q).cycle <= f.cycle
    BY <2>1 DEF First
  <2> DEFINE e1 == First(Q)
  <2>3. e1 \in A /\ e1.cycle <= k /\ t(e1) >= k /\ t(e1) \in Nat
    BY <1>1, <1>10, <2>2
  <2> HIDE DEF e1
  <2>4. CASE \E f \in A : f.cycle < e1.cycle /\ t(e1) = t(f) + KEY_GAP + 1
    <3>1. PICK f \in A : f.cycle < e1.cycle /\ t(e1) = t(f) + KEY_GAP + 1
      BY <2>4
    <3>2. f \notin Q
      BY <1>1, <2>2, <2>3, <3>1 DEF e1
    <3>3. f.cycle <= k /\ t(f) \in Nat
      BY <1>1, <2>3, <3>1
    <3>4. t(f) < k
      BY <1>10, <3>1, <3>2, <3>3
    <3>5. t(f) <= last
      BY <1>4, <3>4
    <3>6. t(e1) = k
      BY <1>6, <1>7, <2>3, <3>1, <3>3, <3>5
    <3>7. QED
      BY <2>3, <3>6 DEF e1
  <2>5. CASE t(e1) = e1.cycle \/ t(e1) = KEY_GAP + 1
    BY <1>1, <1>6, <1>7, <2>3, <2>5 DEF e1
  <2>6. QED
    BY <1>3, <2>3, <2>4, <2>5
<1>8. ASSUME NEW e \in A, t(e) = k PROVE k > last + KEY_GAP /\ Q # {}
  <2>1. e \in Q
    BY <1>1, <1>8, <1>10
  <2>2. CASE last = 0
    BY <1>1, <1>6, <1>8, <2>1, <2>2
  <2>3. CASE last # 0
    <3>1. PICK f \in A : t(f) < k /\ last = t(f)
      BY <1>5, <2>3
    <3>2. ~ (e.cycle < f.cycle)
      BY <1>1, <1>2, <1>6, <1>8, <3>1
    <3>3. e.cycle # f.cycle
      BY <1>8, <3>1 DEF Distinct
    <3>4. f.cycle < e.cycle
      BY <1>1, <3>2, <3>3
    <3>5. t(f) + KEY_GAP < t(e)
      BY <1>2, <3>4
    <3>6. QED
      BY <1>8, <2>1, <3>1, <3>5
  <2>4. QED
    BY <2>2, <2>3
<1>9. QED
  BY <1>7, <1>8 DEF ByteOfCycle, t, last, Q

\* What the program beside the machine is after a cycle, and the machine.
Waiting(program, k) == program.queue \cup {e \in program.events : e.cycle <= k}
Sending(program, k) == k > program.last_byte + KEY_GAP /\ Waiting(program, k) # {}
NextMachine(machine, program, k) ==
  [clock |-> k + 1,
   got |-> IF Sending(program, k) THEN machine.got \cup {<<First(Waiting(program, k)), k>>}
           ELSE machine.got]
NextProgram(program, k) ==
  [events |-> program.events \ {e \in program.events : e.cycle <= k},
   queue |-> IF Sending(program, k) THEN Waiting(program, k) \ {First(Waiting(program, k))}
             ELSE Waiting(program, k),
   last_byte |-> IF Sending(program, k) THEN k ELSE program.last_byte]

LEMMA CycleReplays ==
  ASSUME Distinct(AllEvents), NEW A \in SUBSET AllEvents, NEW k \in Nat, NEW machine, NEW program,
         machine.clock = k, Replays(machine, program, A)
  PROVE  Replays(NextMachine(machine, program, k), NextProgram(program, k), A)
<1> DEFINE t(e) == Time(A, e)
           Q == Waiting(program, k)
           sends == Sending(program, k)
           head == First(Q)
<1>1. \A e \in A : e.cycle \in Nat /\ t(e) \in Nat /\ e.cycle <= t(e)
  BY TimesFacts, CyclesAreNat
<1>2. /\ machine.got = {<<e, t(e)>> : e \in {e \in A : t(e) < k}}
      /\ program.events = {e \in A : e.cycle >= k}
      /\ program.queue = {e \in A : e.cycle < k /\ t(e) >= k}
      /\ \A e \in A : t(e) < k => t(e) <= program.last_byte
      /\ program.last_byte = 0 \/ \E e \in A : t(e) < k /\ program.last_byte = t(e)
  BY DEF Replays
<1> HIDE DEF t
<1>3. Q = {e \in A : e.cycle <= k /\ t(e) >= k}
  <2>1. \A e \in A : e.cycle = k => t(e) >= k
    BY <1>1
  <2>2. \A e \in A : e.cycle <= k <=> (e.cycle < k \/ e.cycle = k)
    BY <1>1
  <2>3. \A e \in A : e.cycle >= k /\ e.cycle <= k <=> e.cycle = k
    BY <1>1
  <2>4. QED
    BY <1>2, <2>1, <2>2, <2>3 DEF Waiting
<1>4. sends <=> k > program.last_byte + KEY_GAP /\ Q # {}
  BY DEF Sending
<1> HIDE DEF Q, sends
<1>5. /\ sends => head \in A /\ t(head) = k
      /\ (\E e \in A : t(e) = k) => sends
  <2>1. Q = Pending(A, k)
    BY <1>3 DEF Pending, t
  <2>2. ByteOfCycle(A, k, program.last_byte)
    BY TheByteOfACycle
  <2>3. QED
    BY <1>4, <2>1, <2>2 DEF ByteOfCycle, t
<1>6. \A e, f \in A : t(e) = t(f) => e = f
  <2>1. \A e, f \in A : e.cycle < f.cycle => t(e) + KEY_GAP < t(f)
    BY TimesFacts DEF t
  <2>2. TAKE e, f \in A
  <2>3. HAVE t(e) = t(f)
  <2>4. KEY_GAP \in Nat
    BY CheckpointsAssumption
  <2>5. e.cycle = f.cycle
    BY <1>1, <2>1, <2>3, <2>4
  <2>6. QED
    BY <2>5 DEF Distinct
<1> HIDE DEF head
<1>7. \A e \in A : t(e) < k + 1 <=> (t(e) < k \/ t(e) = k)
  BY <1>1
<1>8. \A e \in A : t(e) = k <=> (sends /\ e = head)
  BY <1>5, <1>6
<1> DEFINE sent == {e \in A : t(e) < k + 1}
           M == NextMachine(machine, program, k)
           P == NextProgram(program, k)
<1>9. /\ M.clock = k + 1 /\ M.got = IF sends THEN machine.got \cup {<<head, k>>} ELSE machine.got
      /\ P.events = program.events \ {e \in program.events : e.cycle <= k}
      /\ P.queue = IF sends THEN Q \ {head} ELSE Q
      /\ P.last_byte = IF sends THEN k ELSE program.last_byte
  BY DEF NextMachine, NextProgram, sends, Q, head
<1> HIDE DEF M, P
<1>10. M.got = {<<e, t(e)>> : e \in sent}
  <2>1. CASE sends
    <3>1. sent = {e \in A : t(e) < k} \cup {head} /\ t(head) = k
      BY <1>5, <1>7, <1>8, <2>1
    <3>2. QED
      BY <1>2, <1>9, <2>1, <3>1
  <2>2. CASE ~ sends
    <3>1. sent = {e \in A : t(e) < k}
      BY <1>7, <1>8, <2>2
    <3>2. QED
      BY <1>2, <1>9, <2>2, <3>1
  <2>3. QED
    BY <2>1, <2>2
<1>11. P.events = {e \in A : e.cycle >= k + 1}
  BY <1>1, <1>2, <1>9
<1>12. P.queue = {e \in A : e.cycle < k + 1 /\ t(e) >= k + 1}
  <2>1. \A e \in A : /\ e.cycle < k + 1 <=> e.cycle <= k
                     /\ t(e) >= k + 1 <=> (t(e) >= k /\ t(e) # k)
    BY <1>1
  <2>2. QED
    BY <1>3, <1>8, <1>9, <2>1
<1>13. \A e \in sent : t(e) <= P.last_byte
  <2>1. CASE sends
    BY <1>1, <1>9, <2>1
  <2>2. CASE ~ sends
    BY <1>2, <1>7, <1>8, <1>9, <2>2
  <2>3. QED
    BY <2>1, <2>2
<1>14. P.last_byte = 0 \/ \E e \in sent : P.last_byte = t(e)
  <2>1. CASE sends
    BY <1>5, <1>7, <1>9, <2>1
  <2>2. CASE ~ sends
    BY <1>2, <1>7, <1>9, <2>2
  <2>3. QED
    BY <2>1, <2>2
<1>15. QED
  BY <1>9, <1>10, <1>11, <1>12, <1>13, <1>14 DEF Replays, t, M, P

\* What joins a program that goes on, none of it due yet, changes nothing of what is done.
LEMMA JoiningReplays ==
  ASSUME NEW A \in SUBSET AllEvents, NEW new \in SUBSET AllEvents, NEW k \in Nat,
         \A e \in new : e.cycle >= k, NEW machine, NEW program,
         machine.clock = k, Replays(machine, program, A), NEW joined,
         joined.events = program.events \cup new, joined.queue = program.queue,
         joined.last_byte = program.last_byte
  PROVE  Replays(machine, joined, A \cup new)
<1> DEFINE B == A \cup new
<1>1. B \in SUBSET AllEvents
  OBVIOUS
<1>17. \A e : e \in B <=> e \in A \/ e \in new
  OBVIOUS
<1> HIDE DEF B
<1>2. \A e \in AllEvents : e.cycle \in Nat
  BY CyclesAreNat
<1>3. \A e \in AllEvents : e.cycle < k => (e \in A <=> e \in B)
  BY <1>2, <1>17
<1>4. \A e \in AllEvents : e.cycle < k => Time(A, e) = Time(B, e)
  BY <1>1, <1>3, TimesAreLocal
<1>5. \A e \in A : Time(A, e) \in Nat /\ e.cycle <= Time(A, e)
  BY TimesFacts
<1>6. \A e \in B : Time(B, e) \in Nat /\ e.cycle <= Time(B, e)
  BY <1>1, TimesFacts
<1>7. \A e \in B : e.cycle >= k \/ (e.cycle < k /\ e \in A /\ Time(B, e) = Time(A, e))
  BY <1>1, <1>2, <1>3, <1>4
<1>8. {e \in B : Time(B, e) < k} = {e \in A : Time(A, e) < k}
  <2>1. \A e \in B : Time(B, e) < k => e \in A /\ Time(A, e) < k
    BY <1>1, <1>2, <1>6, <1>7
  <2>2. \A e \in A : Time(A, e) < k => Time(B, e) < k
    BY <1>2, <1>4, <1>5
  <2>3. QED
    BY <1>17, <2>1, <2>2
<1>9. \A e \in A : Time(A, e) < k => Time(B, e) = Time(A, e)
  BY <1>2, <1>4, <1>5
<1>10. /\ machine.got = {<<e, Time(A, e)>> : e \in {e \in A : Time(A, e) < k}}
       /\ program.events = {e \in A : e.cycle >= k}
       /\ program.queue = {e \in A : e.cycle < k /\ Time(A, e) >= k}
       /\ \A e \in {e \in A : Time(A, e) < k} : Time(A, e) <= program.last_byte
       /\ \/ program.last_byte = 0
          \/ \E e \in {e \in A : Time(A, e) < k} : program.last_byte = Time(A, e)
  BY DEF Replays
<1>11. joined.events = {e \in B : e.cycle >= k}
  BY <1>10, <1>17
<1>12. joined.queue = {e \in B : e.cycle < k /\ Time(B, e) >= k}
  <2>1. \A e \in B : e.cycle < k => e \in A /\ Time(B, e) = Time(A, e)
    BY <1>1, <1>2, <1>3, <1>4
  <2>2. QED
    BY <1>4, <1>10, <1>17, <2>1
<1> DEFINE sent == {e \in B : Time(B, e) < k}
<1>13. machine.got = {<<e, Time(B, e)>> : e \in sent}
  BY <1>8, <1>9, <1>10
<1>14. \A e \in sent : Time(B, e) <= joined.last_byte
  BY <1>8, <1>9, <1>10
<1>15. joined.last_byte = 0 \/ \E e \in sent : joined.last_byte = Time(B, e)
  BY <1>8, <1>9, <1>10
<1>16. QED
  BY <1>11, <1>12, <1>13, <1>14, <1>15 DEF Replays, B

\* What a directory has to restore from goes on as it was saved.
Resumable(d) ==
  d # Nothing /\ d.harness # Nothing =>
    /\ d.model \in Machines /\ d.model.clock = d.harness.current_cycle + 1
    /\ Replays(d.model, d.harness.host, d.harness.asked)

\* Where the clock is, and what is on the way into a checkpoint.
InStep ==
  /\ at = "top" => tb.clock = cycle
  /\ at \in SavingAt \cup {"bottom"} => tb.clock = cycle + 1
  /\ at \in SavingAt => resume = "bottom"
  /\ at = "write model" => files[cycle].tmp = EmptyDir
  /\ at = "write harness" => files[cycle].tmp.model = tb

ReplayInv ==
  /\ Replays(tb, host, asked)
  /\ InStep
  /\ \A c \in Cycles : Resumable(files[c].tmp) /\ Resumable(files[c].final)

LEMMA ReplayInit == Init => ReplayInv
<1> SUFFICES ASSUME Init PROVE ReplayInv
  OBVIOUS
<1>1. asked \in SUBSET AllEvents /\ asked = Events
  BY DEF Init, AllEvents
<1>2. Replays(tb, host, asked)
  <2>1. \A e \in asked : Time(asked, e) \in Nat /\ e.cycle \in Nat
    BY <1>1, TimesFacts, CyclesAreNat
  <2>2. /\ tb.clock = 0 /\ tb.got = {} /\ host.events = asked /\ host.queue = {}
        /\ host.last_byte = 0
    BY <1>1 DEF Init
  <2>3. QED
    BY <2>1, <2>2 DEF Replays
<1>3. InStep
  BY DEF InStep, Init, SavingAt
<1>4. QED
  BY <1>2, <1>3 DEF ReplayInv, Resumable, Init

\* No file changes: the directories stay as they are.
LEMMA ReplayStep ==
  ASSUME ReplayInv, UNCHANGED files, Replays(tb, host, asked)', InStep'
  PROVE  ReplayInv'
<1>1. (\A c \in Cycles : Resumable(files[c].tmp) /\ Resumable(files[c].final))'
  BY DEF ReplayInv, Resumable
<1>2. QED
  BY <1>1 DEF ReplayInv

LEMMA BodyReplays == ASSUME Distinct(AllEvents), IInv, ReplayInv, Body PROVE ReplayInv'
<1>1. /\ at = "top" /\ at' = "bottom" /\ cycle' = cycle /\ asked' = asked /\ files' = files
      /\ cycle \in Nat /\ asked \in SUBSET AllEvents
  BY CheckpointsAssumption DEF Body, IInv, Types, Cycles
<1>2. tb.clock = cycle /\ Replays(tb, host, asked)
  BY <1>1 DEF ReplayInv, InStep
<1>3. Queue = Waiting(host, cycle) /\ (Sends <=> Sending(host, cycle))
  BY DEF Queue, Due, Waiting, Sends, Sending
<1>4. tb' = NextMachine(tb, host, cycle) /\ host' = NextProgram(host, cycle)
  BY <1>2, <1>3 DEF Body, NextMachine, NextProgram, Due
<1>5. Replays(NextMachine(tb, host, cycle), NextProgram(host, cycle), asked)
  BY <1>1, <1>2, CycleReplays
<1>6. tb'.clock = cycle + 1
  BY <1>4 DEF NextMachine
<1>7. Replays(tb, host, asked)'
  BY <1>1, <1>4, <1>5
<1>8. InStep'
  BY <1>1, <1>6 DEF InStep, SavingAt
<1>9. QED
  BY <1>1, <1>7, <1>8, ReplayStep

LEMMA LoopReplays ==
  ASSUME ~ControlSaves, IInv, ReplayInv,
         NextCycle \/ BeginSave \/ SaveFails \/ Stop \/ OpenLatest \/ WriteLatest
  PROVE  ReplayInv'
<1>1. UNCHANGED <<tb, host, asked, files>>
  BY DEF NextCycle, BeginSave, SaveFails, Stop, OpenLatest, WriteLatest
<1>2. Replays(tb, host, asked)'
  BY <1>1 DEF ReplayInv
<1>3. InStep'
  <2>1. CASE NextCycle
    BY <2>1 DEF InStep, ReplayInv, NextCycle, SavingAt
  <2>2. CASE BeginSave
    BY <2>2 DEF InStep, ReplayInv, BeginSave, SavingAt
  <2>3. CASE SaveFails
    BY <2>3 DEF InStep, ReplayInv, SaveFails, SavingAt
  <2>4. CASE Stop
    BY <2>4 DEF InStep, Stop, SavingAt
  <2>5. CASE OpenLatest
    BY <2>5 DEF InStep, ReplayInv, OpenLatest, SavingAt
  <2>6. CASE WriteLatest
    BY <2>6 DEF InStep, ReplayInv, WriteLatest, SavingAt
  <2>7. QED
    BY <2>1, <2>2, <2>3, <2>4, <2>5, <2>6
<1>4. QED
  BY <1>1, <1>2, <1>3, ReplayStep

\* One directory changes.
LEMMA ReplayPut ==
  ASSUME IInv, ReplayInv, UNCHANGED <<tb, host, asked>>, InStep', NEW c \in Cycles,
         NEW place \in {"tmp", "final"}, files' \in [Cycles -> Slots],
         \A p \in {"tmp", "final"} \ {place} : files'[c][p] = files[c][p],
         \A e \in Cycles \ {c} : files'[e] = files[e],
         Resumable(files'[c][place])
  PROVE  ReplayInv'
<1>1. Replays(tb, host, asked)'
  BY DEF ReplayInv
<1>2. ASSUME NEW e \in Cycles PROVE Resumable(files'[e].tmp) /\ Resumable(files'[e].final)
  <2>1. Resumable(files[e].tmp) /\ Resumable(files[e].final)
    BY DEF ReplayInv
  <2>2. CASE e # c
    BY <2>1, <2>2
  <2>3. CASE e = c
    <3>1. CASE place = "tmp"
      BY <2>1, <2>3, <3>1
    <3>2. CASE place = "final"
      BY <2>1, <2>3, <3>2
    <3>3. QED
      BY <3>1, <3>2
  <2>4. QED
    BY <2>2, <2>3
<1>3. (\A e \in Cycles : Resumable(files[e].tmp) /\ Resumable(files[e].final))'
  BY <1>2 DEF Resumable
<1>4. QED
  BY <1>1, <1>3 DEF ReplayInv

\* What is spoilt, or not there, is nothing to go on from.
LEMMA RemovedFile ==
  ASSUME files \in [Cycles -> Slots], NEW c \in Cycles, NEW place \in {"tmp", "final"},
         Remove(c, place)
  PROVE  files'[c][place] \in {EmptyDir, Nothing}
<1> DEFINE d == IF files[c][place] = EmptyDir THEN Nothing ELSE EmptyDir
<1>1. d \in Dirs \cup {Nothing} /\ Put(c, place, d) /\ d \in {EmptyDir, Nothing}
  BY EmptyDirIsDir DEF Remove
<1> HIDE DEF d
<1>2. QED
  BY <1>1, PutFile

LEMMA EmptyResumable == Resumable(EmptyDir) /\ Resumable(Nothing)
  BY DEF Resumable, EmptyDir

LEMMA ClearTmpReplays == ASSUME IInv, ReplayInv, ClearTmp PROVE ReplayInv'
<1>1. /\ files \in [Cycles -> Slots] /\ cycle \in Cycles /\ at = "clear tmp"
      /\ UNCHANGED <<resume, cycle, tb, host, asked>>
  BY DEF IInv, Types, Slots, ClearTmp
<1>2. tb.clock = cycle + 1 /\ resume = "bottom"
  BY <1>1 DEF ReplayInv, InStep, SavingAt
<1>3. CASE Exists(cycle, "tmp")
  <2>1. Remove(cycle, "tmp") /\ at' = at
    BY <1>3 DEF ClearTmp
  <2>2. InStep'
    BY <1>1, <1>2, <2>1 DEF InStep
  <2>3. Resumable(files'[cycle].tmp)
    BY <1>1, <2>1, RemovedFile, EmptyResumable
  <2>4. QED
    BY <1>1, <2>1, <2>2, <2>3, RemoveFile, ReplayPut
<1>4. CASE ~ Exists(cycle, "tmp")
  <2>1. Put(cycle, "tmp", EmptyDir) /\ at' = "write model"
    BY <1>4 DEF ClearTmp
  <2>2. /\ files' \in [Cycles -> Slots] /\ files'[cycle].tmp = EmptyDir
        /\ \A p \in {"tmp", "final"} \ {"tmp"} : files'[cycle][p] = files[cycle][p]
        /\ \A e \in Cycles \ {cycle} : files'[e] = files[e]
    BY <1>1, <2>1, PutFile, EmptyDirIsDir
  <2>3. InStep'
    BY <1>1, <1>2, <2>1, <2>2 DEF InStep
  <2>4. Resumable(files'[cycle].tmp)
    BY <2>2, EmptyResumable
  <2>5. QED
    BY <1>1, <2>2, <2>3, <2>4, ReplayPut
<1>5. QED
  BY <1>3, <1>4

LEMMA WriteModelReplays == ASSUME IInv, ReplayInv, WriteModel PROVE ReplayInv'
<1> DEFINE d == [files[cycle].tmp EXCEPT !.model = tb]
<1>1. /\ files \in [Cycles -> Slots] /\ cycle \in Cycles /\ at = "write model" /\ tb \in Machines
      /\ at' = "write harness" /\ UNCHANGED <<resume, cycle, tb, host, asked>>
      /\ Put(cycle, "tmp", d)
  BY DEF IInv, Types, Slots, WriteModel
<1>2. tb.clock = cycle + 1 /\ resume = "bottom" /\ files[cycle].tmp = EmptyDir
  BY <1>1 DEF ReplayInv, InStep, SavingAt
<1>8. tb \in Machines /\ files[cycle].tmp = [model |-> Nothing, harness |-> Nothing]
  BY <1>1, <1>2 DEF EmptyDir
<1>3. d \in Dirs /\ d.model = tb /\ d.harness = Nothing
  BY <1>8 DEF Dirs
<1> HIDE DEF d
<1>4. /\ files' \in [Cycles -> Slots] /\ files'[cycle].tmp = d
      /\ \A p \in {"tmp", "final"} \ {"tmp"} : files'[cycle][p] = files[cycle][p]
      /\ \A e \in Cycles \ {cycle} : files'[e] = files[e]
  BY <1>1, <1>3, PutFile
<1>5. InStep'
  BY <1>1, <1>2, <1>3, <1>4 DEF InStep
<1>6. Resumable(files'[cycle].tmp)
  BY <1>3, <1>4 DEF Resumable
<1>7. QED
  BY <1>1, <1>4, <1>5, <1>6, ReplayPut

LEMMA WriteHarnessReplays == ASSUME IInv, ReplayInv, WriteHarness PROVE ReplayInv'
<1> DEFINE d == [files[cycle].tmp EXCEPT !.harness = Harness]
<1>1. /\ files \in [Cycles -> Slots] /\ cycle \in Cycles /\ at = "write harness"
      /\ tb \in Machines /\ at' = "clear final" /\ UNCHANGED <<resume, cycle, tb, host, asked>>
      /\ Put(cycle, "tmp", d) /\ files[cycle].tmp \in Dirs /\ Harness \in Harnesses
  BY DEF IInv, Types, Progress, Slots, WriteHarness, Harness, Harnesses
<1>2. /\ tb.clock = cycle + 1 /\ resume = "bottom" /\ files[cycle].tmp.model = tb
      /\ Replays(tb, host, asked)
  BY <1>1 DEF ReplayInv, InStep, SavingAt
<1>3. d \in Dirs /\ d.model = tb /\ d.harness = Harness
  BY <1>1, <1>2 DEF Dirs
<1>4. Harness.current_cycle = cycle /\ Harness.host = host /\ Harness.asked = asked
  BY DEF Harness
<1> HIDE DEF d
<1>5. /\ files' \in [Cycles -> Slots] /\ files'[cycle].tmp = d
      /\ \A p \in {"tmp", "final"} \ {"tmp"} : files'[cycle][p] = files[cycle][p]
      /\ \A e \in Cycles \ {cycle} : files'[e] = files[e]
  BY <1>1, <1>3, PutFile
<1>6. InStep'
  BY <1>1, <1>2 DEF InStep
<1>7. Resumable(files'[cycle].tmp)
  BY <1>1, <1>2, <1>3, <1>4, <1>5 DEF Resumable
<1>8. QED
  BY <1>1, <1>5, <1>6, <1>7, ReplayPut

LEMMA InstallReplays == ASSUME IInv, ReplayInv, Install PROVE ReplayInv'
<1>1. /\ files \in [Cycles -> Slots] /\ cycle \in Cycles /\ at = "clear final"
      /\ UNCHANGED <<resume, cycle, tb, host, asked>>
  BY DEF IInv, Types, Slots, Install
<1>2. tb.clock = cycle + 1 /\ resume = "bottom"
  BY <1>1 DEF ReplayInv, InStep, SavingAt
<1>3. CASE Exists(cycle, "final")
  <2>1. Remove(cycle, "final") /\ at' = at
    BY <1>3 DEF Install
  <2>2. InStep'
    BY <1>1, <1>2, <2>1 DEF InStep
  <2>3. Resumable(files'[cycle].final)
    BY <1>1, <2>1, RemovedFile, EmptyResumable
  <2>4. QED
    BY <1>1, <2>1, <2>2, <2>3, RemoveFile, ReplayPut
<1>4. CASE ~ Exists(cycle, "final")
  <2>1. /\ files' = [files EXCEPT ![cycle] = [tmp |-> Nothing, final |-> files[cycle].tmp]]
        /\ at' = "open latest"
    BY <1>4 DEF Install
  <2>2. InStep'
    BY <1>1, <1>2, <2>1 DEF InStep
  <2>3. \A c \in Cycles : Resumable(files[c].tmp) /\ Resumable(files[c].final)
    BY DEF ReplayInv
  <2>4. files'[cycle].tmp = Nothing /\ files'[cycle].final = files[cycle].tmp
    BY <1>1, <2>1
  <2>5. \A e \in Cycles : e # cycle => files'[e] = files[e]
    BY <1>1, <2>1
  <2>6. \A c \in Cycles : Resumable(files'[c].tmp) /\ Resumable(files'[c].final)
    BY <1>1, <2>3, <2>4, <2>5, EmptyResumable
  <2>7. (\A c \in Cycles : Resumable(files[c].tmp) /\ Resumable(files[c].final))'
    BY <2>6 DEF Resumable
  <2>8. QED
    BY <1>1, <2>2, <2>7 DEF ReplayInv
<1>5. QED
  BY <1>3, <1>4

LEMMA PruneReplays == ASSUME IInv, ReplayInv, Prune PROVE ReplayInv'
<1>1. /\ files \in [Cycles -> Slots] /\ cycle \in Cycles /\ at = "prune"
      /\ UNCHANGED <<resume, cycle, tb, host, asked>>
  BY DEF IInv, Types, Slots, Prune
<1>2. tb.clock = cycle + 1 /\ resume = "bottom"
  BY <1>1 DEF ReplayInv, InStep, SavingAt
<1>3. InStep'
  BY <1>1, <1>2 DEF InStep, Prune, SavingAt
<1>4. CASE Cardinality(Entries) > checkpoint_keep
  <2>1. Remove(Oldest, "final") /\ Oldest \in Cycles
    BY <1>4, OldestFacts, EntriesFinite DEF Prune
  <2>2. Resumable(files'[Oldest].final)
    BY <1>1, <2>1, RemovedFile, EmptyResumable
  <2>3. QED
    BY <1>1, <1>3, <2>1, <2>2, RemoveFile, ReplayPut
<1>5. CASE ~ (Cardinality(Entries) > checkpoint_keep)
  <2>1. UNCHANGED files
    BY <1>5 DEF Prune
  <2>2. Replays(tb, host, asked)'
    BY <1>1 DEF ReplayInv
  <2>3. QED
    BY <1>3, <2>1, <2>2, ReplayStep
<1>6. QED
  BY <1>4, <1>5

LEMMA RestartReplays == ASSUME ReplayInv, Restart PROVE ReplayInv'
<1>1. /\ at' = "top" /\ tb' = [clock |-> 0, got |-> {}] /\ cycle' = 0 /\ files' = files
      /\ host' = [events |-> Events, queue |-> {}, last_byte |-> 0] /\ asked' = Events
  BY DEF Restart, Boot
<1>2. Replays(tb', host', Events)
  <2>1. Events \in SUBSET AllEvents
    BY DEF AllEvents
  <2>2. \A e \in Events : Time(Events, e) \in Nat /\ e.cycle \in Nat
    BY <2>1, TimesFacts, CyclesAreNat
  <2>3. /\ tb'.clock = 0 /\ tb'.got = {} /\ host'.events = Events /\ host'.queue = {}
        /\ host'.last_byte = 0
    BY <1>1
  <2>4. QED
    BY <2>2, <2>3 DEF Replays
<1>3. Replays(tb, host, asked)'
  BY <1>1, <1>2
<1>4. InStep'
  BY <1>1 DEF InStep, SavingAt
<1>5. QED
  BY <1>1, <1>3, <1>4, ReplayStep

LEMMA RestoreReplays ==
  ASSUME IInv, ReplayInv, NEW c \in Cycles, NEW later \in {{}, LaterEvents}, Restore(c, later)
  PROVE  ReplayInv'
<1> DEFINE saved == files[c].final.harness
           model == files[c].final.model
           new == {e \in later : e.cycle > saved.current_cycle}
<1>1. files[c].final \in Dirs /\ files[c].final # Nothing /\ saved # Nothing
  BY DEF IInv, Types, Restore, Restorable, Whole
<1>2. /\ model \in Machines /\ model.clock = saved.current_cycle + 1
      /\ Replays(model, saved.host, saved.asked)
  BY <1>1 DEF ReplayInv, Resumable
<1>3. saved \in Harnesses
  BY <1>1 DEF Dirs
<1>4. /\ cycle' = saved.current_cycle + 1 /\ at' = "top" /\ files' = files
      /\ host' = [saved.host EXCEPT !.events = @ \cup new]
      /\ asked' = saved.asked \cup new /\ tb' = model
  BY DEF Restore
<1>5. new \in SUBSET AllEvents
  BY DEF AllEvents
<1>6. saved.current_cycle \in Nat /\ saved.host \in Hosts /\ saved.asked \in SUBSET AllEvents
  BY <1>3, CheckpointsAssumption DEF Harnesses, Cycles
<1>7. \A e \in new : e.cycle >= model.clock
  BY <1>2, <1>5, <1>6, CyclesAreNat
<1> HIDE DEF saved, model, new
<1>8. /\ host'.events = saved.host.events \cup new /\ host'.queue = saved.host.queue
      /\ host'.last_byte = saved.host.last_byte
  BY <1>4, <1>6 DEF Hosts
<1>9. model.clock \in Nat
  BY <1>2, <1>6
<1>10. Replays(model, host', saved.asked \cup new)
  <2>1. ASSUME NEW k \in Nat, model.clock = k
        PROVE  Replays(model, host', saved.asked \cup new)
    <3>1. \A e \in new : e.cycle >= k
      BY <1>7, <2>1
    <3>2. QED
      BY <1>2, <1>5, <1>6, <1>8, <2>1, <3>1, JoiningReplays
  <2>2. QED
    BY <1>9, <2>1
<1>11. Replays(tb, host, asked)'
  BY <1>4, <1>10
<1>12. InStep'
  BY <1>2, <1>4 DEF InStep, SavingAt
<1>13. QED
  BY <1>4, <1>11, <1>12, ReplayStep

LEMMA ReplayInductive ==
  ASSUME ~ControlSaves, Distinct(AllEvents)
  PROVE  IInv /\ ReplayInv /\ [Next]_vars => ReplayInv'
<1> SUFFICES ASSUME IInv, ReplayInv, [Next]_vars PROVE ReplayInv'
  OBVIOUS
<1>1. CASE Body
  BY <1>1, BodyReplays
<1>2. CASE NextCycle \/ BeginSave \/ SaveFails \/ Stop
  BY <1>2, LoopReplays
<1>3. CASE Restart
  BY <1>3, RestartReplays
<1>4. CASE Save
  BY <1>4, ClearTmpReplays, WriteModelReplays, WriteHarnessReplays, InstallReplays, LoopReplays,
     PruneReplays DEF Save
<1>5. CASE \E c \in Cycles, later \in {{}, LaterEvents} : Restore(c, later)
  BY <1>5, RestoreReplays
<1>6. CASE UNCHANGED vars
  <2>1. UNCHANGED <<at, resume, cycle, tb, host, asked, files>>
    BY <1>6 DEF vars
  <2>2. Replays(tb, host, asked)' /\ InStep'
    BY <2>1 DEF ReplayInv, InStep
  <2>3. QED
    BY <2>1, <2>2, ReplayStep
<1>7. QED
  BY <1>1, <1>2, <1>3, <1>4, <1>5, <1>6 DEF Next

\* A run that goes on from a checkpoint gets every byte once and in the clock in which the run
\* that was never interrupted would have got it, for any events of different cycles, any gap and
\* any number of runs that end at any point: when checkpoints are taken at the end of a cycle
\* (1445-1464, 1676-1733, 1776-1867).
THEOREM Replayed ==
  ASSUME ~ControlSaves, Distinct(AllEvents)
  PROVE  Spec => []ReplaysExactly
<1>1. Init => IInv /\ ReplayInv
  BY InitGood, ReplayInit
<1>2. (IInv /\ ReplayInv) /\ [Next]_vars => (IInv /\ ReplayInv)'
  BY Inductive, ReplayInductive
<1>3. IInv /\ ReplayInv => ReplaysExactly
  <2> SUFFICES ASSUME IInv, ReplayInv PROVE ReplaysExactly
    OBVIOUS
  <2>1. \A e \in asked : SendTimes[e] = Time(asked, e)
    BY DEF SendTimes, Time
  <2>2. tb.got = {<<e, Time(asked, e)>> : e \in {f \in asked : Time(asked, f) < tb.clock}}
    BY DEF ReplayInv, Replays
  <2>3. {f \in asked : SendTimes[f] < tb.clock} = {f \in asked : Time(asked, f) < tb.clock}
    BY <2>1
  <2>4. QED
    BY <2>1, <2>2, <2>3 DEF ReplaysExactly
<1>4. QED
  BY <1>1, <1>2, <1>3, PTL DEF Spec
=============================================================================
