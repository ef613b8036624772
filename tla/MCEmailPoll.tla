----------------------------- MODULE MCEmailPoll -----------------------------
(* INBOX alone receives up to four messages, or two and Sent one, while a   *)
(* poll or reconciliation fails or the process crashes; a cleanup runs, with *)
(* no such failure, beside up to two messages of INBOX or one in each       *)
(* folder.  The second message of INBOX is refused by the processor each    *)
(* time, the fourth cannot be parsed.                                       *)
EXTENDS EmailPoll

UpTo(inbox, sent, failures, cleanups) ==
  [Inbox : 0 .. inbox, Sent : 0 .. sent, failures : 0 .. failures, cleanups : 0 .. cleanups]
MCScope == UpTo(4, 0, 1, 0) \cup UpTo(2, 1, 1, 0) \cup UpTo(2, 0, 0, 1) \cup UpTo(1, 1, 0, 1)
MCUnparsable == {<<"Inbox", 4>>}
MCNeverStored == {<<"Inbox", 2>>}
=============================================================================
