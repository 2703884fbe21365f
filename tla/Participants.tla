----------------------------- MODULE Participants -----------------------------
(* Who takes part, under the names that all the processes use.              *)

CONSTANTS
  Vehicle,     (* the vehicles that may ever report                        *)
  Emergency,   (* the emergencies that may ever be reported                *)
  None         (* Python's None                                            *)
=============================================================================
