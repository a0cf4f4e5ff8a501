--------------------------- MODULE MCExitSchedule ---------------------------
(* Instances of ExitSchedule for TLC. *)
EXTENDS ExitSchedule

MCRequests == [total : {11}, isPrivate : BOOLEAN]

=============================================================================
