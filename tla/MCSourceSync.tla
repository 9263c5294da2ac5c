---------------------------- MODULE MCSourceSync ----------------------------
(* SourceSync for TLC: a text without chunks, one with one and one with two;
   one adapter of each kind that the loop can tell apart. *)
EXTENDS SourceSync
CONSTANTS empty, short, long, placeholder
MCSize == [t \in {empty, short, long, placeholder} |->
             CASE t = empty -> 0 [] t = long -> 2 [] OTHER -> 1]
MCProviders == {GitHub, GoogleDrive, Jira, OneDrive, MsTeams, Outlook}
=============================================================================
