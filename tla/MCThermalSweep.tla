--------------------------- MODULE MCThermalSweep ---------------------------
(* Instances of ThermalSweep: every shipped profile and two custom files. *)
EXTENDS ThermalSweep

StockFile(p) == [profile |-> p]
MCFiles == {StockFile(p) : p \in StockProfiles}
           \cup {[profile |-> "custom"],
                 [profile |-> "custom", minimum_pwm |-> 41, failsafe_pwm |-> 200,
                  require_storage_sensor |-> TRUE,
                  cpu |-> Thresholds(10, 11, 12, 13, 125), pwm |-> Points(41, 41, 43, 255)]}

\* Every degree the shipped CPU curves bend in, and the ends of the range; the
\* storage sensors visit an idle, a sloping and the top part of every curve.
MCCpu == {0, 1, 125} \cup 24..97
MCHdd == {20, 44, 90}
MCSsd == {30, 57, 90}
\* A name the code takes for the CPU's and one it does not.
MCNames == {"coretemp", "acpitz"}
=============================================================================
