-------------------------- MODULE MCEmailThreading --------------------------
(* Account a writes to p (root), who answers (reply) and also writes in     *)
(* another thread (other); q takes the first thread up in a mail with       *)
(* References but no In-Reply-To (fork).  Account b has a mail of p that    *)
(* starts the same thread (copy).  A last mail of p to a names no thread    *)
(* (bare).                                                                  *)
EXTENDS EmailThreading, TLC

MCMails == {"root", "reply", "fork", "other", "copy", "bare"}
MCAccounts == {"a", "b"}
MCThreads == {"t1", "t2"}
MCPeers == {"p", "q"}
MCSubjects == {"s1", "s2"}
H(a, t, root, out, p, cites, s) ==
  [account |-> a, thread |-> t, root |-> root, out |-> out, peer |-> p, cites |-> cites, subject |-> s]
MCHead == [m \in MCMails |->
  CASE m = "root"  -> H("a", "t1", TRUE, TRUE, "p", {}, "s1")
    [] m = "reply" -> H("a", "t1", FALSE, FALSE, "p", {"root"}, "s1")
    [] m = "fork"  -> H("a", "t1", TRUE, FALSE, "q", {"root"}, "s1")
    [] m = "other" -> H("a", "t2", FALSE, FALSE, "p", {}, "s2")
    [] m = "copy"  -> H("b", "t1", TRUE, FALSE, "p", {}, "s1")
    [] m = "bare"  -> H("a", NoThread, TRUE, FALSE, "p", {}, "s2")]

WorkerSymmetry == Permutations(Workers)
=============================================================================
