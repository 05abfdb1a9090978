---------------------------- MODULE RevisionLog -----------------------------
(***************************************************************************)
(* What the configuration center promises its operators: an append-only    *)
(* history of documents and a data plane that always runs one of them,     *)
(* whole, under the number it was stored with, and only moves forward.     *)
(* After a restart it resumes on the newest document, or stays down.       *)
(***************************************************************************)
EXTENDS Naturals, Sequences

CONSTANTS
  Document,  \* the documents that may be published
  First      \* the document imported at installation

VARIABLES
  log,      \* the documents published, oldest first
  running   \* what the data plane runs: [rev, cfg], rev = 0 while it is down

Down == [rev |-> 0, cfg |-> First]
Entry(r) == [rev |-> r, cfg |-> log[r]]

LogInit == log = <<First>> /\ running = Entry(1)

\* A document joins the history; the plane follows later, or not at all.
PublishEntry ==
  /\ \E d \in Document : log' = Append(log, d)
  /\ UNCHANGED running

\* The plane moves to a newer document.
Advance ==
  /\ running.rev # 0
  /\ \E r \in (running.rev + 1)..Len(log) : running' = Entry(r)
  /\ UNCHANGED log

\* The process stops, and comes back on the newest document.
Stop == running.rev # 0 /\ running' = Down /\ UNCHANGED log
Resume == running.rev = 0 /\ running' = Entry(Len(log)) /\ UNCHANGED log

LogNext == PublishEntry \/ Advance \/ Stop \/ Resume
LogSpec == LogInit /\ [][LogNext]_<<log, running>>
=============================================================================
