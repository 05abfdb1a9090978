-------------------------- MODULE MCConsoleSession --------------------------
(* One account, an auditor's, in all the tabs of the browser.              *)
EXTENDS ConsoleSession

CONSTANTS guest
MCUser == {guest}
MCAdmins == {}
=============================================================================
