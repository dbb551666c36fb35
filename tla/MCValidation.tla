---------------------------- MODULE MCValidation ----------------------------
(***************************************************************************)
(* The validation pipeline for TLC: every profile at the levels that       *)
(* differ for it, every combination of stores, time stamp, path, service   *)
(* and revocation.  The level "Forensic" is treated as "Extended" is, and  *)
(* is tried in the profile that has requirements of its own there.         *)
(***************************************************************************)
EXTENDS Validation

MCContexts ==
    [profile : Profiles, level : {"Basic", "Standard", "Extended"}]
        \cup {[profile |-> "UkraineLegal", level |-> "Forensic"]}

MCCoSigned ==
    {[profile |-> "Compatibility", level |-> "Standard"],
     [profile |-> "UkraineLegal", level |-> "Extended"]}
=============================================================================
