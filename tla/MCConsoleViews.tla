--------------------------- MODULE MCConsoleViews ---------------------------
(* Two versions of the data, two calls of a list at once, four steps.     *)
EXTENDS ConsoleViews
=============================================================================
