-------------------------- MODULE MCEmergencyTiming --------------------------
(* The HTTP application: half an hour at a time, and descriptions that      *)
(* mention no subtype, one that is shorter, one that is longer and both.    *)
EXTENDS EmergencyTiming

MCOverride == {0, 12}
MCMention == {{}, {80}, {150}, {80, 130}}
MCBirthAge == {-100, 0, 7, 240}
=============================================================================
