------------------------------ MODULE StartUp ------------------------------
(***************************************************************************)
(* onStartUp of Servers A, Q and P.  The servers start on their own; the   *)
(* three are put together here because they read lines in the same way.    *)
(***************************************************************************)
EXTENDS MembersFile, QuotesFile, PortfoliosFile

startUpVars == <<fileVars, loginInfo, quotes, portfolioVars>>

StartUpInit == FileInit /\ MembersInit /\ QuotesInit /\ PortfoliosInit

StartUpNext ==
  \/ ReadMember /\ UNCHANGED <<quotes, portfolioVars>>
  \/ ReadQuotes /\ UNCHANGED <<loginInfo, portfolioVars>>
  \/ ReadPortfolios /\ UNCHANGED <<loginInfo, quotes>>

StartUpSpec == StartUpInit /\ [][StartUpNext]_startUpVars

----------------------------------------------------------------------------
(* What a server serves is what its file says, whatever blanks, empty      *)
(* lines, repeated names and unreadable numbers are in it: each member,    *)
(* each price and each position, under the name it belongs to (onStartUp   *)
(* of the three servers).                                                  *)
FilesAreRead == MembersAreListed /\ PricesAreListed /\ NoEmptyList /\ EachOwnsTheirs
=============================================================================
