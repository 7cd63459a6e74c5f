----------------------------- MODULE MCWebConfig -----------------------------
(* WebConfig for TLC: an instance with one site and two Proxmox hosts, and an *)
(* export at hand that comes from itself in another order, from another       *)
(* instance, from a first-schema or from a newer one.                         *)
EXTENDS WebConfig

CONSTANTS h1, h2, p1, p2, u1, u2, home, lab, Home, HOME, Lab

MCIds == {home, lab}
MCNames == {Home, HOME, Lab}
MCSlug == [x \in MCNames |-> IF x = Lab THEN lab ELSE home]
MCHostRows == {<<h1>>, <<h2, h1>>, <<h1, h1>>}
MCProfileRows == {<<p1>>, <<p2, p1>>}

Old(h, u) == [home |-> h, url |-> u, n |-> 0]
Lone(h) == Old(h, NoServer)
Row(k, s) == [key |-> k, secret |-> s]

HomeSite == [name |-> Home, url |-> u1, tech |-> Old(<<"tech", home>>, u1),
             lldp |-> Lone(<<"lldp", home>>),
             px |-> <<Row(h1, Lone(<<"px", home, h1>>)), Row(h2, Lone(<<"px", home, h2>>))>>]
Here == [sites |-> [i \in {home} |-> HomeSite], url |-> u1, token |-> Old(<<"netbox">>, u1),
         creds |-> <<Row(p1, Lone(<<"cred", p1>>)), Row(p2, Blank)>>]

\* Another instance, with another NetBox and a lab this one does not have
LabSite == [name |-> Lab, url |-> NoServer, tech |-> NoServer, lldp |-> Blank,
            px |-> <<Row(h2, Lone(<<"px", lab, h2>>))>>]
There == [sites |-> [i \in {home, lab} |-> IF i = lab THEN LabSite
                       ELSE [HomeSite EXCEPT !.px = <<@[2], @[1]>>]],
          url |-> u2, token |-> Old(<<"netbox">>, u2),
          creds |-> <<Row(p2, Lone(<<"cred", p2>>))>>]

\* A configuration of the first schema, and what it amounts to
Flat == [keys |-> TRUE, name |-> HOME, server |-> u2, tech |-> Old(<<"tech", home>>, u2),
         px |-> <<Row(h2, Lone(<<"px", home, h2>>))>>, url |-> u1, token |-> Blank, creds |-> <<>>]

MCFiles == {NoFile,
  [schema |-> 2, redacted |-> TRUE, config |-> Redact(There), of |-> There],
  [schema |-> 3, redacted |-> FALSE, config |-> There, of |-> There],
  [schema |-> 1, redacted |-> FALSE, config |-> Flat, of |-> Migrate(Flat)]}

MCInit ==
  /\ cfg = Here /\ file \in MCFiles
  /\ unresolved = {} /\ last = "none" /\ typed = 0 /\ saves = 0
MCSpec == MCInit /\ [][Next]_vars
=============================================================================
