---------------------------- MODULE MCFanDaemon ----------------------------
(* Instances of FanDaemon: a machine with a CPU fan and two system fans. *)
EXTENDS FanDaemon

MCTargets == {"cpu", "sys"}
MCOutputs == [cpu |-> <<"pwm2">>, sys |-> <<"pwm3", "pwm4">>]
\* A machine with one system fan, for the questions about time.
MCTwoOutputs == [cpu |-> <<"pwm2">>, sys |-> <<"pwm3">>]
MCRoute == <<[name |-> "cpu", channel |-> "cpu"], [name |-> "sys", channel |-> "system"]>>

\* A machine with a single target of two outputs, for the questions about faults.
MCSys == {"sys"}
MCSysOutputs == [sys |-> <<"pwm3", "pwm4">>]
MCSysRoute == <<[name |-> "sys", channel |-> "system"]>>

MCConfig == load_config([profile |-> "stock-6800", interval_seconds |-> 2,
                         downshift_delay_seconds |-> 3])

MCQuickConfig == [MCConfig EXCEPT !.downshift_delay_seconds = 1]

Reading(cpu, hdd) == [cpu |-> cpu, hdd |-> hdd, ssd |-> NoReading]
\* A cool machine, hot disks only, and a lost CPU sensor.
MCSnapshots == {Reading(30, 30), Reading(30, 60), Reading(NoReading, 30)}
MCTwoSnapshots == {Reading(30, 30), Reading(NoReading, 30)}
=============================================================================
