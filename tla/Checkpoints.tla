---------------------------- MODULE Checkpoints ----------------------------
(* The checkpoints of the simulator (src/verilator/main.cpp): the main loop   *)
(* with its scheduled key events, save_checkpoint() with the files it writes, *)
(* moves and removes, prune_checkpoints(), and a later run that starts anew   *)
(* or from a checkpoint.  The process may end between any two file            *)
(* operations.  The simulated machine is the history of the bytes it got,     *)
(* each with the clock it got it in: it is deterministic.                     *)
EXTENDS Naturals, FiniteSets

CONSTANTS Events,           \* what --key-at asks for: [name, cycle]
          LaterEvents,      \* what the command line of a restored run may add
          checkpoint_keep,
          KEY_GAP,          \* cycles between two bytes (100000 in the code)
          ControlSaves,     \* checkpoints of the control socket, at the top of a cycle
          MAX_CYCLES, MAX_RUNS,  \* bounds of the model
          Nothing           \* no directory, no file, an empty file

ASSUME CheckpointsAssumption ==
  /\ Events \subseteq [name : STRING, cycle : Nat] /\ LaterEvents \subseteq [name : STRING, cycle : Nat]
  /\ checkpoint_keep \in Nat \ {0} /\ KEY_GAP \in Nat
  /\ MAX_CYCLES \in Nat /\ MAX_RUNS \in Nat
  /\ ControlSaves \in BOOLEAN

VARIABLES
  at,        \* where the main program is
  resume,    \* where it goes on after a checkpoint
  run,       \* how many times it has been started
  cycle,     \* the loop's counter
  tb,        \* the machine: [clock, got], the clocks it has done, the bytes with theirs
  host,      \* what harness.bin has of the program: [events, queue, last_byte]
  asked,     \* every event asked for by the runs that led here
  files,     \* the files of a checkpoint directory, by cycle and by "tmp" or "final"
  latest     \* latest.txt

vars == <<at, resume, run, cycle, tb, host, asked, files, latest>>

Cycles == 0..MAX_CYCLES
EmptyDir == [model |-> Nothing, harness |-> Nothing]

\* What the two files of a checkpoint hold.
AllEvents == Events \cup LaterEvents
Machines == [clock : Nat, got : SUBSET (AllEvents \X Nat)]
Hosts == [events : SUBSET AllEvents, queue : SUBSET AllEvents, last_byte : Nat]
Harnesses == [current_cycle : Cycles, host : Hosts, asked : SUBSET AllEvents]
Dirs == [model : Machines \cup {Nothing}, harness : Harnesses \cup {Nothing}]

ASSUME NothingAssumption == Nothing \notin Machines \cup Harnesses \cup Dirs

Exists(c, place) == files[c][place] # Nothing
Whole(d) == d # Nothing /\ d.model # Nothing /\ d.harness # Nothing

Boot(events) ==
  /\ cycle' = 0 /\ tb' = [clock |-> 0, got |-> {}]
  /\ host' = [events |-> events, queue |-> {}, last_byte |-> 0] /\ asked' = events

Init ==
  /\ at = "top" /\ resume = "top" /\ run = 1
  /\ cycle = 0 /\ tb = [clock |-> 0, got |-> {}]
  /\ host = [events |-> Events, queue |-> {}, last_byte |-> 0] /\ asked = Events
  /\ files = [c \in Cycles |-> [tmp |-> Nothing, final |-> Nothing]] /\ latest = Nothing

-----------------------------------------------------------------------------
(* A cycle of the main loop: the events that are due join the queue, whose     *)
(* first byte goes to the keyboard when the last one is long enough ago.       *)

Due == {e \in host.events : e.cycle <= cycle}
Queue == host.queue \cup Due
First(q) == CHOOSE e \in q : \A f \in q : e.cycle <= f.cycle
Sends == cycle > host.last_byte + KEY_GAP /\ Queue # {}

Body ==
  /\ at = "top" /\ at' = "bottom"
  /\ host' = [events |-> host.events \ Due,
              queue |-> IF Sends THEN Queue \ {First(Queue)} ELSE Queue,
              last_byte |-> IF Sends THEN cycle ELSE host.last_byte]
  /\ tb' = [clock |-> tb.clock + 1,
            got |-> IF Sends THEN tb.got \cup {<<First(Queue), tb.clock>>} ELSE tb.got]
  /\ UNCHANGED <<resume, run, cycle, asked, files, latest>>

NextCycle ==
  /\ at = "bottom" /\ cycle < MAX_CYCLES
  /\ at' = "top" /\ cycle' = cycle + 1
  /\ UNCHANGED <<resume, run, tb, host, asked, files, latest>>

-----------------------------------------------------------------------------
(* save_checkpoint(cycle): at the end of a cycle, every interval or for the    *)
(* hot key; at its beginning, for the control socket.                          *)

BeginSave ==
  /\ at \in {"bottom"} \cup (IF ControlSaves THEN {"top"} ELSE {})
  /\ at' = "clear tmp" /\ resume' = at
  /\ UNCHANGED <<run, cycle, tb, host, asked, files, latest>>

Put(c, place, d) == files' = [files EXCEPT ![c][place] = d]

\* remove_all: the files of a directory, whose first already spoils it, then the directory.
Remove(c, place) == Put(c, place, IF files[c][place] = EmptyDir THEN Nothing ELSE EmptyDir)

ClearTmp ==
  /\ at = "clear tmp"
  /\ IF Exists(cycle, "tmp") THEN Remove(cycle, "tmp") /\ UNCHANGED at
     ELSE Put(cycle, "tmp", EmptyDir) /\ at' = "write model"
  /\ UNCHANGED <<resume, run, cycle, tb, host, asked, latest>>

\* Mutant: the directory gets its final name before the program's own state is in it.
WriteModel_Only ==
  /\ at = "write model" /\ at' = "clear final"
  /\ Put(cycle, "tmp", [files[cycle].tmp EXCEPT !.model = tb])
  /\ UNCHANGED <<resume, run, cycle, tb, host, asked, latest>>

WriteModel ==
  /\ at = "write model" /\ at' = "write harness"
  /\ Put(cycle, "tmp", [files[cycle].tmp EXCEPT !.model = tb])
  /\ UNCHANGED <<resume, run, cycle, tb, host, asked, latest>>

Harness == [current_cycle |-> cycle, host |-> host, asked |-> asked]

WriteHarness ==
  /\ at = "write harness" /\ at' = "clear final"
  /\ Put(cycle, "tmp", [files[cycle].tmp EXCEPT !.harness = Harness])
  /\ UNCHANGED <<resume, run, cycle, tb, host, asked, latest>>

\* remove_all(final_dir); rename(tmp_dir, final_dir)
Install ==
  /\ at = "clear final"
  /\ IF Exists(cycle, "final") THEN Remove(cycle, "final") /\ UNCHANGED at
     ELSE /\ files' = [files EXCEPT ![cycle] = [tmp |-> Nothing, final |-> @.tmp]]
          /\ at' = "open latest"
  /\ UNCHANGED <<resume, run, cycle, tb, host, asked, latest>>

OpenLatest ==
  /\ at = "open latest" /\ at' = "write latest" /\ latest' = Nothing
  /\ UNCHANGED <<resume, run, cycle, tb, host, asked, files>>

WriteLatest ==
  /\ at = "write latest" /\ at' = "prune" /\ latest' = cycle
  /\ UNCHANGED <<resume, run, cycle, tb, host, asked, files>>

\* Directories by name, and so by cycle: the first go until checkpoint_keep are left.
Entries == {c \in Cycles : Exists(c, "final")}

\* Mutant: the rotation sorts the other way round.
Oldest_Newest == CHOOSE c \in Entries : \A d \in Entries : d <= c

Oldest == CHOOSE c \in Entries : \A d \in Entries : c <= d

Prune ==
  /\ at = "prune"
  /\ IF Cardinality(Entries) > checkpoint_keep THEN Remove(Oldest, "final") /\ UNCHANGED at
     ELSE at' = resume /\ UNCHANGED files
  /\ UNCHANGED <<resume, run, cycle, tb, host, asked, latest>>

\* A file operation throws, a removal at its first file: a checkpoint of the interval ends
\* the run, one of the hot key or the socket is given up.
SaveFails ==
  /\ \/ at = "clear tmp"
     \/ at = "clear final" /\ Whole(files[cycle].final)
     \/ at = "prune" /\ Cardinality(Entries) > checkpoint_keep /\ Whole(files[Oldest].final)
  /\ at' \in (IF resume = "bottom" THEN {resume, "ended"} ELSE {resume})
  /\ UNCHANGED <<resume, run, cycle, tb, host, asked, files, latest>>

Save == ClearTmp \/ WriteModel \/ WriteHarness \/ Install \/ OpenLatest \/ WriteLatest \/ Prune

-----------------------------------------------------------------------------
(* The end of a run, wanted or not, and the next one.                          *)

Stop ==
  /\ at # "ended" /\ at' = "ended"
  /\ UNCHANGED <<resume, run, cycle, tb, host, asked, files, latest>>

Restart ==
  /\ at = "ended" /\ run < MAX_RUNS
  /\ run' = run + 1 /\ at' = "top" /\ Boot(Events)
  /\ UNCHANGED <<resume, files, latest>>

\* resolve_restore_path(): a checkpoint is named itself, or the directory of them all, whose
\* latest.txt names it. One that is not whole is refused.
Restorable == {c \in Cycles : Whole(files[c].final)}

\* Mutant: the loop goes on with the cycle that was saved at its end.
Restore_SameCycle(c, later) ==
  LET saved == files[c].final.harness
      new == {e \in later : e.cycle > saved.current_cycle}
  IN /\ at = "ended" /\ run < MAX_RUNS /\ c \in Restorable
     /\ saved.current_cycle < MAX_CYCLES
     /\ run' = run + 1 /\ at' = "top"
     /\ tb' = files[c].final.model
     /\ host' = [saved.host EXCEPT !.events = @ \cup new]
     /\ asked' = saved.asked \cup new
     /\ cycle' = saved.current_cycle
     /\ UNCHANGED <<resume, files, latest>>

\* restore_checkpoint(): events of the command line join the saved ones that are still due
\* when they are later than the checkpoint; the loop goes on with the cycle after it.
Restore(c, later) ==
  LET saved == files[c].final.harness
      new == {e \in later : e.cycle > saved.current_cycle}
  IN /\ at = "ended" /\ run < MAX_RUNS /\ c \in Restorable
     /\ saved.current_cycle < MAX_CYCLES
     /\ run' = run + 1 /\ at' = "top"
     /\ tb' = files[c].final.model
     /\ host' = [saved.host EXCEPT !.events = @ \cup new]
     /\ asked' = saved.asked \cup new
     /\ cycle' = saved.current_cycle + 1
     /\ UNCHANGED <<resume, files, latest>>

Next == \/ Body \/ NextCycle \/ BeginSave \/ Save \/ SaveFails \/ Stop
        \/ Restart \/ \E c \in Cycles, later \in {{}, LaterEvents} : Restore(c, later)

Spec == Init /\ [][Next]_vars

-----------------------------------------------------------------------------
(* What is promised.                                                         *)

\* latest.txt comes to name only a checkpoint that is there and whole, and the one it names is
\* taken away only when one of the same cycle is ready to replace it, or by the rotation when
\* as many as are kept are ahead of it, which a run that died before it named them left
\* behind (1638-1655, 1746-1752).
LatestIsKept ==
  [][/\ latest' \notin {latest, Nothing} => Whole(files[latest'].final)
     /\ \A c \in Cycles : latest = c /\ Whole(files[c].final) /\ ~Whole(files'[c].final) =>
          \/ Whole(files[c].tmp)
          \/ Cardinality({d \in Entries : d > c}) >= checkpoint_keep]_vars

\* A directory gets its final name only with everything in it (1746-1747).
NamedWhenWhole ==
  [][\A c \in Cycles : ~Exists(c, "final") /\ Exists(c, "final")' => Whole(files[c].final)']_vars

\* The clock in which the byte of an event of cycle c goes to the machine, when the last one went
\* in clock last; the last one of the events before cycle c; and the clock of each event, when
\* no run ever ended.
Goes(c, last) == IF c > last + KEY_GAP THEN c ELSE last + KEY_GAP + 1
LastBytes(events) ==
  LET last[c \in Nat] ==
        IF c = 0 THEN 0
        ELSE IF \E e \in events : e.cycle = c - 1 THEN Goes(c - 1, last[c - 1]) ELSE last[c - 1]
  IN last
SendTimes == [e \in asked |-> Goes(e.cycle, LastBytes(asked)[e.cycle])]

\* A run that goes on from a checkpoint does what the first would have done: every byte goes to
\* the machine once, in the clock it was asked for (1445-1464, 1676-1733, 1776-1867).
ReplaysExactly ==
  tb.got = {<<e, SendTimes[e]>> : e \in {f \in asked : SendTimes[f] < tb.clock}}
=============================================================================
