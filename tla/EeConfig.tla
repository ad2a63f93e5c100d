------------------------------ MODULE EeConfig ------------------------------
(***************************************************************************)
(* Configuring a device: the host's tools write its EEPROM byte by byte,   *)
(* a tool may die after any byte, the device may be restarted after any    *)
(* byte, and reads its identity from the EEPROM when it starts.  Nothing   *)
(* keeps the debug shell from erasing or testing the EEPROM meanwhile: its *)
(* calls of the driver come between the tool's, or overlap with them.      *)
(***************************************************************************)
EXTENDS EeMap

CONSTANTS
  Jobs,        \* what the tools are used for: records [tool, ...], see Calls
  Garbled,     \* the memories that two overlapping calls may leave
  MaxJobs,     \* bound on the number of jobs begun
  MaxCommands  \* bound on the number of shell commands given

VARIABLES
  mem,         \* the cells
  job,         \* the last job begun, or NoJob
  todo,        \* the driver calls it has yet to make
  begun,       \* the number of jobs begun
  shell,       \* the driver calls that the shell's command has yet to make
  given,       \* the number of shell commands given
  deaf,        \* whether overlapping calls have left the chip without its write-enable
               \* latch while the driver takes it for set
  device,      \* what the device read when it last started
  fresh,       \* whether MAGIC was missing when the job began
  meddled,     \* whether the shell has programmed cells in the middle of the job,
               \* two calls have overlapped since it began, or it began with a deaf chip
  wrote        \* the strings that a "strings" job has written and neither a later job
               \* nor the shell has touched; Unknown when there are none

host == <<job, todo, begun, fresh>>
vars == <<mem, host, shell, given, deaf, device, meddled, wrote>>

Unknown == <<>>
NoJob == [tool |-> "none"]

\* The option -s2 of setupUSB sets s1.
SetupS1(j) == IF "s2" \in DOMAIN j THEN j.s2 ELSE j.s1

\* Mutant: MAGIC first.
setupMagicFirst(j) ==
  writeEE(0, Byte(MAGIC)) \o writeEE(1, LE16(j.vid) \o LE16(j.pid))
    \o StringWrites(j.strings, 1) \o StringWrites(j.strings, 2) \o StringWrites(j.strings, 3)
    \o writeEE(14, Byte(SetupS1(j))) \o writeEE(15, Byte(1))

\* setupUSB: strings even if empty, and MAGIC last.
setupUSB(j) ==
  writeEE(1, LE16(j.vid) \o LE16(j.pid))
    \o StringWrites(j.strings, 1) \o StringWrites(j.strings, 2) \o StringWrites(j.strings, 3)
    \o writeEE(14, Byte(SetupS1(j))) \o writeEE(15, Byte(1))
    \o writeEE(0, Byte(MAGIC))

\* The buttons of AttenSwitchTool.
AllStrings(j) == <<<<>>, j.prod, j.serial, j.extra>>
writeVidPid_clicked(j)   == eeMagic(MAGIC) \o eeVidPid(j.vid, j.pid)
writeStrings_clicked(j)  == writeEEStrings(AllStrings(j))
writePolarity_clicked(j) == eePolarity(j.s1, j.s2)

Writes(j) ==
  CASE j.tool = "setup"    -> setupUSB(j)
    [] j.tool = "vidpid"   -> writeVidPid_clicked(j)
    [] j.tool = "strings"  -> writeStrings_clicked(j)
    [] j.tool = "polarity" -> writePolarity_clicked(j)

\* A VID or PID has 16 bits, and 0 stands for none.
Ids == 1 .. 65535

\* A job whose identity the EEPROM and the device's buffers can hold: neither the
\* tools nor the device check it.
Held(strs, n) ==
  /\ \A i \in 1 .. n : strs[i] \in Seq(Bytes) /\ Len(strs[i]) < 256
  /\ \A i \in 1 .. 3 : Len(strs[i]) < Capacity[i]
  /\ StrAddr(strs, n + 1) <= EepromSize
Fits(j) ==
  \/ /\ j.tool = "setup" /\ j.vid \in Ids /\ j.pid \in Ids /\ SetupS1(j) \in {0, 1}
     /\ Held(j.strings, 3)
  \/ j.tool = "vidpid" /\ j.vid \in Nat /\ j.pid \in Nat
  \/ j.tool = "strings" /\ Held(AllStrings(j), 4)
  \/ j.tool \in {"polarity", "erase"}

ASSUME JobsAssumption == /\ MaxJobs \in Nat /\ MaxCommands \in Nat
                         /\ \A j \in Jobs : Fits(j)
                         /\ Garbled \subseteq [Cells -> Bytes]

WriteCall(w) == [op |-> "WRITE", addr |-> w[1], data |-> w[2]]
ReadCall(a) == [op |-> "READ", addr |-> a, data |-> Erased]
EraseCall(op, a) == [op |-> op, addr |-> a, data |-> Erased]

Calls(j) ==
  IF j.tool = "erase" THEN <<EraseCall("ERAL", 0)>>
  ELSE LET w == Writes(j) IN [k \in DOMAIN w |-> WriteCall(w[k])]

\* The calls of the shell's commands: eraseee and testee.
eeprom9366_test ==
  <<EraseCall("ERAL", 0), ReadCall(16), WriteCall(<<16, 65>>), ReadCall(16), ReadCall(17),
    WriteCall(<<17, 1>>), WriteCall(<<18, 2>>), WriteCall(<<19, 3>>),
    ReadCall(16), ReadCall(17), ReadCall(18), ReadCall(19), ReadCall(20),
    EraseCall("ERASE", 16), ReadCall(16)>>
Commands == {<<EraseCall("ERAL", 0)>>, eeprom9366_test}

Init ==
  /\ mem = AllErased
  /\ job = NoJob /\ todo = <<>> /\ begun = 0
  /\ shell = <<>> /\ given = 0 /\ deaf = FALSE
  /\ device = readEEprom(mem)
  /\ fresh = TRUE /\ meddled = FALSE
  /\ wrote = Unknown

\* The tools find devices of the one VID they know.  setupUSB also asks for the PID
\* and the serial number of one that is not configured, and writes nothing without it.
Reaches(j) ==
  /\ device.vid = DefaultVid
  /\ j.tool = "setup" => device.pid = Default.pid /\ device.strings[3] = Default.strings[3]

\* One tool at a time: a tool claims the interface.
Begin(j) ==
  /\ todo = <<>> /\ Reaches(j)
  /\ begun < MaxJobs /\ begun' = begun + 1
  /\ job' = j /\ todo' = Calls(j)
  /\ fresh' = (mem[0] # MAGIC)
  /\ meddled' = deaf
  /\ wrote' = IF j.tool \in {"setup", "strings", "erase"} THEN Unknown ELSE wrote
  /\ UNCHANGED <<mem, shell, given, deaf, device>>

\* cmd_eraseee or cmd_testee, in the middle of a job or not
Command(c) ==
  /\ shell = <<>> /\ shell' = c
  /\ given < MaxCommands /\ given' = given + 1
  /\ UNCHANGED <<mem, host, deaf, device, meddled, wrote>>

\* What a call leaves: writeEnable sends nothing when the driver takes the chip for
\* enabled, and a deaf chip ignores every call until the device is restarted.
Left(c) == IF deaf THEN mem ELSE After(mem, c)

\* One turn of writeEE's loop, or the erase button's command.
DriverCall ==
  /\ todo # <<>> /\ todo' = Tail(todo)
  /\ mem' = Left(Head(todo))
  /\ wrote' = IF Len(todo) = 1 /\ job.tool = "strings" /\ ~meddled
                THEN AllStrings(job) ELSE wrote
  /\ UNCHANGED <<job, begun, shell, given, deaf, device, fresh, meddled>>

\* One call of the shell's command.
ShellCall ==
  /\ shell # <<>> /\ shell' = Tail(shell)
  /\ mem' = Left(Head(shell))
  /\ wrote' = IF Programs(Head(shell)) THEN Unknown ELSE wrote
  /\ meddled' = (meddled \/ (Programs(Head(shell)) /\ todo # <<>>))
  /\ UNCHANGED <<host, given, deaf, device>>

\* A call of the shell is in the driver together with calls of a tool, be they of
\* the job or the reads that the tools make at any time: their bytes mix.
Rest(calls) == IF calls = <<>> THEN {calls} ELSE {calls, Tail(calls)}
Overlap ==
  /\ shell # <<>> /\ shell' \in Rest(shell) /\ todo' \in Rest(todo)
  /\ mem' \in Garbled
  /\ deaf' \in BOOLEAN /\ meddled' = TRUE /\ wrote' = Unknown
  /\ UNCHANGED <<job, begun, given, device, fresh>>

ToolDies ==
  /\ todo # <<>> /\ todo' = <<>>
  /\ UNCHANGED <<mem, job, begun, shell, given, deaf, device, fresh, meddled, wrote>>

\* The device is restarted: a tool in the middle of a job loses its connection.
Reboot ==
  /\ device' = readEEprom(mem)
  /\ todo' = <<>> /\ shell' = <<>> /\ deaf' = FALSE
  /\ UNCHANGED <<mem, job, begun, given, fresh, meddled, wrote>>

Next == \/ \E j \in Jobs : Begin(j)
        \/ \E c \in Commands : Command(c)
        \/ DriverCall \/ ShellCall \/ Overlap \/ ToolDies \/ Reboot
Spec == Init /\ [][Next]_vars

-----------------------------------------------------------------------------
\* Every variable stays in its range.
TypeOK ==
  /\ mem \in [Cells -> Bytes]
  /\ job \in Jobs \cup {NoJob} /\ begun \in 0 .. MaxJobs /\ given \in 0 .. MaxCommands
  /\ fresh \in BOOLEAN /\ meddled \in BOOLEAN /\ deaf \in BOOLEAN
  /\ \A k \in DOMAIN todo : todo[k] \in CallRecords
  /\ \A k \in DOMAIN shell : shell[k] \in CallRecords
  /\ device.vid \in Ids /\ device.pid \in Ids
  /\ device.s1 \in {0, 1} /\ device.s2 \in {0, 1} /\ device.overrun \in BOOLEAN

\* The identity that a setupUSB job asks for, with the polarities s1 and s2.
StringOr(j, i) == IF j.strings[i] = <<>> THEN Default.strings[i] ELSE j.strings[i]
Wanted(j, s1, s2) ==
  [vid |-> j.vid, pid |-> j.pid, strings |-> [i \in 1 .. 3 |-> StringOr(j, i)],
   s1 |-> s1, s2 |-> s2, overrun |-> FALSE]

\* What it must come to: a polarity not asked for is 1.  With -s2 the device does not
\* get the polarities asked for, a departure of setupUSB: nothing is claimed of them.
Outcomes(j) ==
  IF "s2" \in DOMAIN j THEN {Wanted(j, a, b) : a \in {0, 1}, b \in {0, 1}}
  ELSE {Wanted(j, j.s1, 1)}

\* setupUSB writes MAGIC last: a device that had none comes up either with its
\* defaults or with everything the job asked for, after whichever byte the tool
\* dies or the device is restarted, however many attempts died before, and
\* whatever the shell does before the job and after it.  Nothing holds the shell
\* off in the middle of the job: then nothing is claimed.
SetupIsAllOrNothing ==
  [][job.tool = "setup" /\ fresh /\ ~meddled =>
       device' \in {device, Default} \cup Outcomes(job)]_vars

\* Strings that a job has written, undisturbed by the shell, are the strings that
\* the host reads back and that the device takes at its next start, until a job
\* that writes strings or erases begins or the shell programs a cell; no other
\* button disturbs them.  validStr takes no string that ends in the last cell:
\* those are left to the device.
StringsReadBack ==
  wrote # Unknown =>
    /\ StrAddr(wrote, 5) < EepromSize => readEEStrings(mem) = wrote
    /\ mem[0] = MAGIC =>
         \A i \in 2 .. 3 : readEEprom(mem).strings[i] =
                             IF wrote[i] = <<>> THEN Default.strings[i] ELSE wrote[i]
=============================================================================
