----------------------------- MODULE MCLldpCrawl -----------------------------
(* A core switch, a switch x that is reachable at two addresses, both of which  *)
(* the core reports, and a router r that is documented but never logged in to.  *)
EXTENDS LldpCrawl

CONSTANTS core, x, r, a0, a1, a2, a3, d1, mc, mx, my

MCBoxOf == [a \in Addrs |-> CASE a = a0 -> core [] a = a3 -> r [] OTHER -> x]
MCMacsOf == [b \in Boxes |-> CASE b = core -> <<mc>> [] b = x -> <<mx, my>> [] OTHER -> <<>>]
MCSees == [b \in Boxes |-> IF b = core THEN <<a1, a2, a3>> ELSE <<a0>>]

\* The first seed is the core, which a person named or discovery found, or a person's
\* device for x without the name it sends; a site that is not found may be found later.
\* Devices are interchangeable.
MCInit ==
  /\ Init
  /\ \/ nb.on[a0] = d1 /\ (nb.kind[d1] = "human") = (nb.name[d1] = core)
     \/ nb.on[a1] = d1 /\ nb.kind[d1] = "human" /\ nb.name[d1] = None
  /\ resolved \/ nb.name[d1] = core
MCSpec == MCInit /\ [][Next]_vars /\ WF_vars(CrawlStep)

\* the first seed is x at one of its addresses
MCInitX == Init /\ nb.on[a1] = d1
MCSpecX == MCInitX /\ [][Next]_vars /\ WF_vars(CrawlStep)
================================================================================
