----------------------------- MODULE MCApplyJob -----------------------------
EXTENDS ApplyJob

\* What SUPERVISED does, MANUAL may do.
MCModes    == {"auto", "manual"}
MCLandings == {"linkedin", "workday", "board", "form"}
=============================================================================
