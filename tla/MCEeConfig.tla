----------------------------- MODULE MCEeConfig -----------------------------
(* The jobs of the run of EeConfig.  The longest strings together take all  *)
(* three cells that the EEPROM of the run has for them, and so are not read *)
(* back; the others leave a cell.                                           *)
EXTENDS EeConfig, TLC

AllBytes == 0 .. 255

SetupJob(pid, prod, serial, s1) ==
  [tool |-> "setup", vid |-> DefaultVid, pid |-> pid, strings |-> <<<<>>, prod, serial>>, s1 |-> s1]
SetupJobs == {SetupJob(258, <<66>>, <<68>>, 1), SetupJob(4, <<>>, <<>>, 1) @@ [s2 |-> 0]}

StringJob(prod, serial, extra) ==
  [tool |-> "strings", prod |-> prod, serial |-> serial, extra |-> extra]
StringJobs == {StringJob(<<66>>, <<>>, <<69>>), StringJob(<<>>, <<67>>, <<69, 70>>)}
VidPidJobs == [tool : {"vidpid"}, vid : {0}, pid : {2}]
PolarityJobs == [tool : {"polarity"}, s1 : {0}, s2 : {1}]
EraseJob == [tool |-> "erase"]
AllJobs == {EraseJob} \cup SetupJobs \cup StringJobs \cup VidPidJobs \cup PolarityJobs

\* What overlapping calls leave: MAGIC over cells that say nothing, or noise.
Noise == {[AllErased EXCEPT ![0] = MAGIC]}
=============================================================================
