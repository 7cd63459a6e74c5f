---------------------------- MODULE WebConfigProofs ----------------------------
(* Theorems about WebConfig, for any sites, hosts, profiles, forms and files.  *)
EXTENDS WebConfig, TLAPS

(* Rows *)

\* A function on 1..n is a sequence
LEMMA FunctionIsSeq ==
  ASSUME NEW S, NEW n \in Nat, NEW f \in [1..n -> S]
  PROVE  f \in Seq(S)
  OBVIOUS

\* ... and the other way round
LEMMA SeqIsFunction ==
  ASSUME NEW S, NEW f \in Seq(S)
  PROVE  /\ Len(f) \in Nat /\ DOMAIN f = 1..Len(f) /\ f \in [1..Len(f) -> S]
         /\ \A i \in DOMAIN f : f[i] \in S
  OBVIOUS

\* ... so rows are a function on 1..n
LEMMA RowsAre ==
  ASSUME NEW K, NEW S, NEW rows, rows \in RowsOf(K, S)
  PROVE  /\ Len(rows) \in Nat /\ DOMAIN rows = 1..Len(rows)
         /\ rows \in [1..Len(rows) -> [key: K, secret: S]]
         /\ \A i \in DOMAIN rows : /\ rows[i] \in [key: K, secret: S]
                                   /\ rows[i].key \in K /\ rows[i].secret \in S
  <1>1. rows \in Seq([key: K, secret: S])
    BY DEF RowsOf
  <1>2. /\ Len(rows) \in Nat /\ DOMAIN rows = 1..Len(rows)
        /\ rows \in [1..Len(rows) -> [key: K, secret: S]]
    BY <1>1, SeqIsFunction
  <1>3. \A i \in DOMAIN rows : rows[i] \in [key: K, secret: S]
    BY <1>1, SeqIsFunction
  <1> QED BY <1>2, <1>3

\* Rows whose secrets are replaced are rows with the same keys
LEMMA MappedRows ==
  ASSUME NEW K, NEW S, NEW T, NEW rows \in RowsOf(K, S), NEW g \in [DOMAIN rows -> T]
  PROVE  LET new == [i \in DOMAIN rows |-> [rows[i] EXCEPT !.secret = g[i]]]
         IN /\ new \in RowsOf(K, T) /\ DOMAIN new = DOMAIN rows
            /\ \A i \in DOMAIN rows : new[i].key = rows[i].key /\ new[i].secret = g[i]
  <1> DEFINE new == [i \in DOMAIN rows |-> [rows[i] EXCEPT !.secret = g[i]]]
  <1>1. Len(rows) \in Nat /\ rows \in [1..Len(rows) -> [key: K, secret: S]]
    BY RowsAre
  <1>2. new \in [1..Len(rows) -> [key: K, secret: T]]
    <2>1. DOMAIN rows = 1..Len(rows)
      BY <1>1
    <2>2. ASSUME NEW i \in DOMAIN rows
          PROVE  [rows[i] EXCEPT !.secret = g[i]] \in [key: K, secret: T]
      <3>1. rows[i] \in [key: K, secret: S] /\ g[i] \in T
        BY <1>1, <2>1, <2>2
      <3> QED BY <3>1
    <2> QED BY <2>1, <2>2
  <1>3. new \in RowsOf(K, T)
    BY <1>1, <1>2, FunctionIsSeq DEF RowsOf
  <1> QED BY <1>1, <1>3

\* What a lookup finds is the secret of a row with that key
LEMMA Found ==
  ASSUME NEW K, NEW S, NEW rows \in RowsOf(K, S), NEW k, NEW s,
         s = FirstOf(rows, k) \/ s = LastOf(rows, k)
  PROVE  s = Blank \/ \E i \in DOMAIN rows : rows[i].key = k /\ s = rows[i].secret
                                            /\ rows[i].secret \in S
  <1>1. \A i \in DOMAIN rows : rows[i].secret \in S
    BY RowsAre
  <1>2. ASSUME NEW I, I \subseteq Matches(rows, k)
        PROVE  \/ TheSecret(rows, I) = Blank
               \/ \E i \in Matches(rows, k) : TheSecret(rows, I) = rows[i].secret
    <2>1. CASE I = {}
      BY <2>1 DEF TheSecret
    <2>2. CASE I # {}
      <3>1. (CHOOSE i \in I : TRUE) \in I
        BY <2>2
      <3> QED BY <1>2, <2>2, <3>1 DEF TheSecret
    <2> QED BY <2>1, <2>2
  <1>3. s = Blank \/ \E i \in Matches(rows, k) : s = rows[i].secret
    <2>1. CASE s = FirstOf(rows, k)
      <3> DEFINE I == {i \in Matches(rows, k) : \A j \in Matches(rows, k) : i <= j}
      <3>1. I \subseteq Matches(rows, k)
        OBVIOUS
      <3>2. s = TheSecret(rows, I)
        BY <2>1 DEF FirstOf
      <3> HIDE DEF I
      <3> QED BY <1>2, <3>1, <3>2
    <2>2. CASE s = LastOf(rows, k)
      <3> DEFINE I == {i \in Matches(rows, k) : \A j \in Matches(rows, k) : j <= i}
      <3>1. I \subseteq Matches(rows, k)
        OBVIOUS
      <3>2. s = TheSecret(rows, I)
        BY <2>2 DEF LastOf
      <3> HIDE DEF I
      <3> QED BY <1>2, <3>1, <3>2
    <2> QED BY <2>1, <2>2
  <1> QED BY <1>1, <1>3 DEF Matches

----------------------------------------------------------------------------
(* Forms *)

\* A secret that may be stored at a place: blank or typed for it
Proper(s, home) == s \in Stored /\ (s = Blank \/ s.home = home)

\* Rows that people may have stored, each row proper
ProperRows(rows, K, homes) ==
  rows \in RowsOf(K, Stored) /\ \A i \in DOMAIN rows : Proper(rows[i].secret, homes[rows[i].key])

\* ... in the words of the specification
LEMMA ProperIsAtHome ==
  ASSUME NEW K, NEW homes, NEW rows, rows \in RowsOf(K, Stored)
  PROVE  RowsAtHome(rows, homes) <=> ProperRows(rows, K, homes)
  <1>1. \A i \in DOMAIN rows : rows[i].secret \in Stored
    BY RowsAre
  <1>2. Redacted \notin Stored
    BY WebConfigAssumption DEF Stored
  <1> QED BY <1>1, <1>2 DEF RowsAtHome, ProperRows, Proper

\* What is typed is proper where it is typed
LEMMA TypedIsProper ==
  ASSUME NEW at, NEW w, NEW home \in Homes, NEW url \in Urls \cup {NoServer}, typed \in Nat
  PROVE  LET t == Typed(at, w, home, url)
         IN /\ Proper(t, home) /\ (t = Blank \/ t.n > typed)
            /\ t = Blank \/ t.url = url
  <1>1. [home |-> home, url |-> url, n |-> typed + 1] \in Secret
    BY DEF Secret
  <1> QED BY <1>1 DEF Typed, Proper, Stored

\* ... and so is what a field keeps
LEMMA OrIsProper ==
  ASSUME NEW a, NEW b, NEW home, Proper(a, home), Proper(b, home)
  PROVE  Proper(Or(a, b), home)
  BY DEF Or

\* The rows of a form have the form's keys; each secret is typed now or is the
\* stored one of that key
LEMMA FormRowsAre ==
  ASSUME NEW K, NEW homes \in [K -> Homes], NEW keys \in Seq(K), NEW at,
         NEW stored, ProperRows(stored, K, homes), typed \in Nat
  PROVE  LET new == FormRows(keys, homes, at, stored)
         IN /\ ProperRows(new, K, homes) /\ DOMAIN new = DOMAIN keys
            /\ \A i \in DOMAIN new :
                 \/ new[i].secret = Blank \/ new[i].secret.n > typed
                 \/ \E j \in DOMAIN stored : new[i].secret = stored[j].secret
  <1> DEFINE secret(i) == Or(Typed(at, i, homes[keys[i]], NoServer), LastOf(stored, keys[i]))
             new == [i \in DOMAIN keys |-> [key |-> keys[i], secret |-> secret(i)]]
  <1>1. new = FormRows(keys, homes, at, stored)
    BY DEF FormRows
  <1>2. /\ Len(keys) \in Nat /\ DOMAIN keys = 1..Len(keys)
        /\ \A i \in DOMAIN keys : keys[i] \in K
    BY SeqIsFunction
  <1>3. ASSUME NEW i \in DOMAIN keys
        PROVE  /\ Proper(secret(i), homes[keys[i]])
               /\ \/ secret(i) = Blank \/ secret(i).n > typed
                  \/ \E j \in DOMAIN stored : secret(i) = stored[j].secret
    <2> DEFINE t == Typed(at, i, homes[keys[i]], NoServer)
               l == LastOf(stored, keys[i])
    <2>1. homes[keys[i]] \in Homes
      BY <1>2
    <2>2. Proper(t, homes[keys[i]]) /\ (t = Blank \/ t.n > typed)
      BY <2>1, TypedIsProper
    <2>3. stored \in RowsOf(K, Stored)
      BY DEF ProperRows
    <2>4. l = Blank \/ \E j \in DOMAIN stored : stored[j].key = keys[i] /\ l = stored[j].secret
      BY <2>3, Found
    <2>5. Proper(l, homes[keys[i]])
      <3>1. Proper(Blank, homes[keys[i]])
        BY DEF Proper, Stored
      <3> QED BY <2>4, <3>1 DEF ProperRows
    <2> HIDE DEF t, l
    <2>6. secret(i) = t \/ secret(i) = l
      BY DEF Or, t, l
    <2> QED BY <2>2, <2>4, <2>5, <2>6
  <1> HIDE DEF secret
  <1>4. new \in RowsOf(K, Stored)
    <2>1. \A i \in DOMAIN keys : secret(i) \in Stored
      BY <1>3 DEF Proper
    <2>2. new \in [1..Len(keys) -> [key: K, secret: Stored]]
      BY <1>2, <2>1
    <2> QED BY <1>2, <2>2, FunctionIsSeq DEF RowsOf
  <1>5. ProperRows(new, K, homes)
    BY <1>3, <1>4 DEF ProperRows
  <1> QED BY <1>1, <1>3, <1>5

\* The homes of a site's hosts, and of the credential profiles
HostHomes(i) == [h \in Hosts |-> <<"px", i, h>>]
CredHomes == [p \in Profiles |-> <<"cred", p>>]

LEMMA HomesAreHomes ==
  /\ <<"netbox">> \in Homes /\ CredHomes \in [Profiles -> Homes]
  /\ \A i \in Ids : /\ <<"tech", i>> \in Homes /\ <<"lldp", i>> \in Homes
                    /\ HostHomes(i) \in [Hosts -> Homes]
  BY DEF Homes, HostHomes, CredHomes

\* A site, or none, with proper secrets
ProperSite(s, i) ==
  /\ s.tech = NoServer \/ Proper(s.tech, <<"tech", i>>)
  /\ Proper(s.lldp, <<"lldp", i>>)
  /\ ProperRows(s.px, Hosts, HostHomes(i))

\* A configuration with proper secrets: what the theorems show of the one in force
ProperConfig(c) ==
  /\ DOMAIN c = {"sites", "url", "token", "creds"} /\ c.url \in Urls
  /\ DOMAIN c.sites \subseteq Ids /\ c.sites \in [DOMAIN c.sites -> SiteOf(Stored)]
  /\ \A i \in DOMAIN c.sites : ProperSite(c.sites[i], i)
  /\ Proper(c.token, <<"netbox">>)
  /\ ProperRows(c.creds, Profiles, CredHomes)

\* ... which is its type and that every secret is at home
LEMMA ProperIsTypedAtHome ==
  ASSUME NEW c
  PROVE  ProperConfig(c) <=> IsConfig(c, Stored) /\ AtHome(c)
  <1>1. Redacted \notin Stored /\ NoServer \notin Stored
    BY WebConfigAssumption DEF Stored
  <1>2. ASSUME IsConfig(c, Stored)
        PROVE  AtHome(c) <=> /\ \A i \in DOMAIN c.sites : ProperSite(c.sites[i], i)
                             /\ Proper(c.token, <<"netbox">>)
                             /\ ProperRows(c.creds, Profiles, CredHomes)
    <2>1. RowsAtHome(c.creds, CredHomes) <=> ProperRows(c.creds, Profiles, CredHomes)
      BY <1>2, ProperIsAtHome DEF IsConfig
    <2>2. ASSUME NEW i \in DOMAIN c.sites
          PROVE  ProperSite(c.sites[i], i) <=>
                   /\ c.sites[i].tech \in {Blank, Redacted, NoServer}
                        \/ c.sites[i].tech.home = <<"tech", i>>
                   /\ c.sites[i].lldp \in {Blank, Redacted}
                        \/ c.sites[i].lldp.home = <<"lldp", i>>
                   /\ RowsAtHome(c.sites[i].px, HostHomes(i))
      <3>1. c.sites[i] \in SiteOf(Stored)
        BY <1>2 DEF IsConfig
      <3>2. /\ c.sites[i].tech \in Stored \cup {NoServer} /\ c.sites[i].lldp \in Stored
            /\ c.sites[i].px \in RowsOf(Hosts, Stored)
        BY <3>1 DEF SiteOf
      <3>3. RowsAtHome(c.sites[i].px, HostHomes(i)) <=> ProperRows(c.sites[i].px, Hosts, HostHomes(i))
        BY <3>2, ProperIsAtHome
      <3> QED BY <1>1, <3>2, <3>3 DEF ProperSite, Proper
    <2>3. Proper(c.token, <<"netbox">>) <=>
            c.token \in {Blank, Redacted} \/ c.token.home = <<"netbox">>
      BY <1>1, <1>2 DEF IsConfig, Proper
    <2> QED BY <2>1, <2>2, <2>3 DEF AtHome, CredHomes, HostHomes
  <1>3. ProperConfig(c) => IsConfig(c, Stored)
    BY DEF ProperConfig, IsConfig, Proper, ProperRows
  <1>4. IsConfig(c, Stored) => DOMAIN c = {"sites", "url", "token", "creds"} /\ c.url \in Urls
                               /\ DOMAIN c.sites \subseteq Ids
                               /\ c.sites \in [DOMAIN c.sites -> SiteOf(Stored)]
    BY DEF IsConfig
  <1> QED BY <1>2, <1>3, <1>4 DEF ProperConfig

\* A site that is not there has none
LEMMA NoneIsProper ==
  ASSUME NEW i
  PROVE  ProperSite(NoSecrets, i)
  <1>1. <<>> \in RowsOf(Hosts, Stored) /\ DOMAIN <<>> = {}
    BY DEF RowsOf
  <1> QED BY <1>1 DEF NoSecrets, ProperSite, Proper, ProperRows, Stored

\* A form gives a site proper secrets
LEMMA FormSiteIsProper ==
  ASSUME NEW id \in Ids, NEW existing, ProperSite(existing, id), NEW name \in Names,
         NEW server \in Urls \cup {NoServer}, NEW hosts \in Seq(Hosts), NEW at, typed \in Nat
  PROVE  LET new == SiteFromForm(id, existing, name, server, hosts, at)
         IN new \in SiteOf(Stored) /\ ProperSite(new, id)
  <1> DEFINE tech == IF server = NoServer THEN NoServer
                     ELSE Or(Typed(at, TechField, <<"tech", id>>, server),
                             IF existing.tech = NoServer THEN Blank ELSE existing.tech)
             lldp == Or(Typed(at, LldpField, <<"lldp", id>>, NoServer), existing.lldp)
             px == FormRows(hosts, HostHomes(id), at, existing.px)
  <1>1. SiteFromForm(id, existing, name, server, hosts, at)
          = [name |-> name, url |-> server, tech |-> tech, lldp |-> lldp, px |-> px]
    BY DEF SiteFromForm, HostHomes
  <1>2. tech = NoServer \/ Proper(tech, <<"tech", id>>)
    <2> DEFINE old == IF existing.tech = NoServer THEN Blank ELSE existing.tech
    <2>1. Proper(old, <<"tech", id>>)
      BY DEF ProperSite, Proper, Stored
    <2>2. Proper(Typed(at, TechField, <<"tech", id>>, server), <<"tech", id>>)
      BY HomesAreHomes, TypedIsProper
    <2> HIDE DEF old
    <2>3. Proper(Or(Typed(at, TechField, <<"tech", id>>, server), old), <<"tech", id>>)
      BY <2>1, <2>2, OrIsProper
    <2> QED BY <2>3 DEF old
  <1>3. Proper(lldp, <<"lldp", id>>)
    <2>1. Proper(Typed(at, LldpField, <<"lldp", id>>, NoServer), <<"lldp", id>>)
      BY HomesAreHomes, TypedIsProper
    <2> QED BY <2>1, OrIsProper DEF ProperSite
  <1>4. ProperRows(px, Hosts, HostHomes(id))
    BY HomesAreHomes, FormRowsAre DEF ProperSite
  <1> HIDE DEF tech, lldp, px
  <1>5. [name |-> name, url |-> server, tech |-> tech, lldp |-> lldp, px |-> px] \in SiteOf(Stored)
    BY <1>2, <1>3, <1>4 DEF SiteOf, Proper, ProperRows
  <1> QED BY <1>1, <1>2, <1>3, <1>4, <1>5 DEF ProperSite

\* A submitted form counts what was typed
LEMMA SubmitCounts ==
  ASSUME NEW at, typed \in 0..MaxTyped, saves \in 0..MaxSaves, Submit(at)
  PROVE  typed' \in 0..MaxTyped /\ saves' \in 0..MaxSaves
  BY WebConfigAssumption DEF Submit

\* A configuration with other sites
LEMMA OtherSites ==
  ASSUME NEW c, ProperConfig(c), NEW I, I \subseteq Ids, NEW sites \in [I -> SiteOf(Stored)],
         \A i \in I : ProperSite(sites[i], i)
  PROVE  ProperConfig([c EXCEPT !.sites = sites])
  <1> DEFINE new == [c EXCEPT !.sites = sites]
  <1>1. /\ DOMAIN new = {"sites", "url", "token", "creds"} /\ new.sites = sites
        /\ new.url = c.url /\ new.token = c.token /\ new.creds = c.creds
    BY DEF ProperConfig
  <1> HIDE DEF new
  <1>2. ProperConfig(new)
    BY <1>1 DEF ProperConfig
  <1> QED BY <1>2 DEF new

LEMMA SaveSiteProper ==
  ASSUME ProperConfig(cfg), typed \in Nat, NEW target \in Ids \cup {New}, NEW name \in Names,
         NEW server \in Urls \cup {NoServer}, NEW hosts \in HostRows, NEW at,
         SaveSite(target, name, server, hosts, at)
  PROVE  ProperConfig(cfg')
  <1> DEFINE exists == target \in DOMAIN cfg.sites
             id == IF exists THEN target ELSE Slug[name]
             others == DOMAIN cfg.sites \ {id, target}
             existing == IF exists THEN cfg.sites[target] ELSE NoSecrets
             site == SiteFromForm(id, existing, name, server, hosts, at)
             sites == [i \in others \cup {id} |-> IF i = id THEN site ELSE cfg.sites[i]]
  <1>1. id \in Ids /\ others \cup {id} \subseteq Ids
    BY WebConfigAssumption DEF ProperConfig
  <1>2. ProperSite(existing, id)
    BY NoneIsProper DEF ProperConfig
  <1>3. site \in SiteOf(Stored) /\ ProperSite(site, id)
    <2> HIDE DEF id, existing
    <2>1. hosts \in Seq(Hosts)
      BY WebConfigAssumption
    <2> QED BY <1>1, <1>2, <2>1, FormSiteIsProper
  <1>4. cfg' = [cfg EXCEPT !.sites = sites]
    BY DEF SaveSite
  <1> HIDE DEF site, id
  <1>5. /\ sites \in [others \cup {id} -> SiteOf(Stored)]
        /\ \A i \in others \cup {id} : ProperSite(sites[i], i)
    BY <1>3 DEF ProperConfig
  <1> HIDE DEF sites, others
  <1> QED BY <1>1, <1>4, <1>5, OtherSites

LEMMA DeleteSiteProper ==
  ASSUME ProperConfig(cfg), NEW i \in Ids, DeleteSite(i)
  PROVE  ProperConfig(cfg')
  <1> DEFINE I == DOMAIN cfg.sites \ {i}
             sites == [j \in I |-> cfg.sites[j]]
  <1>1. cfg' = [cfg EXCEPT !.sites = sites]
    BY DEF DeleteSite
  <1>2. /\ I \subseteq Ids /\ sites \in [I -> SiteOf(Stored)]
        /\ \A j \in I : ProperSite(sites[j], j)
    BY DEF ProperConfig
  <1> HIDE DEF sites, I
  <1> QED BY <1>1, <1>2, OtherSites

LEMMA SaveSettingsProper ==
  ASSUME ProperConfig(cfg), typed \in Nat, NEW url \in Urls, NEW profiles \in ProfileRows, NEW at,
         SaveSettings(url, profiles, at)
  PROVE  ProperConfig(cfg')
  <1> DEFINE token == Or(Typed(at, TokenField, <<"netbox">>, url), cfg.token)
             creds == FormRows(profiles, CredHomes, at, cfg.creds)
  <1>1. Proper(token, <<"netbox">>)
    <2>1. Proper(Typed(at, TokenField, <<"netbox">>, url), <<"netbox">>)
      BY HomesAreHomes, TypedIsProper
    <2> QED BY <2>1, OrIsProper DEF ProperConfig
  <1>2. ProperRows(creds, Profiles, CredHomes)
    <2>1. profiles \in Seq(Profiles)
      BY WebConfigAssumption
    <2> QED BY <2>1, HomesAreHomes, FormRowsAre DEF ProperConfig
  <1>3. cfg' = [cfg EXCEPT !.url = url, !.token = token, !.creds = creds]
    BY DEF SaveSettings, CredHomes
  <1> HIDE DEF token, creds
  <1>4. /\ DOMAIN cfg' = {"sites", "url", "token", "creds"} /\ cfg'.sites = cfg.sites
        /\ cfg'.url = url /\ cfg'.token = token /\ cfg'.creds = creds
    BY <1>3 DEF ProperConfig
  <1> QED BY <1>1, <1>2, <1>4 DEF ProperConfig

----------------------------------------------------------------------------
(* Exports and imports *)

\* What a file carries in the place of a secret
Carried == Stored \cup {Redacted}

\* Hiding or keeping secrets leaves a configuration that a file may carry
LEMMA RowsAreCarried ==
  ASSUME NEW K, NEW homes, NEW rows, ProperRows(rows, K, homes)
  PROVE  /\ rows \in RowsOf(K, Carried) /\ RowsAtHome(rows, homes)
         /\ HiddenRows(rows) \in RowsOf(K, Carried) /\ RowsAtHome(HiddenRows(rows), homes)
         /\ DOMAIN HiddenRows(rows) = DOMAIN rows
         /\ \A i \in DOMAIN rows : /\ HiddenRows(rows)[i].key = rows[i].key
                                   /\ HiddenRows(rows)[i].secret = Hidden(rows[i].secret)
  <1> DEFINE g == [i \in DOMAIN rows |-> Hidden(rows[i].secret)]
             h == [i \in DOMAIN rows |-> rows[i].secret]
             new == [i \in DOMAIN rows |-> [rows[i] EXCEPT !.secret = g[i]]]
  <1>1. rows \in RowsOf(K, Stored)
    BY DEF ProperRows
  <1>2. new = HiddenRows(rows)
    BY DEF HiddenRows
  <1>3. \A i \in DOMAIN rows : rows[i].secret \in Stored /\ g[i] \in {Blank, NoServer, Redacted}
    BY <1>1, RowsAre DEF Hidden
  <1>4. g \in [DOMAIN rows -> Carried]
    BY <1>3, WebConfigAssumption DEF Carried, Stored, Hidden
  <1>5. rows \in RowsOf(K, Carried)
    <2>1. rows \in [1..Len(rows) -> [key: K, secret: Carried]] /\ Len(rows) \in Nat
      BY <1>1, RowsAre DEF Carried
    <2> QED BY <2>1, FunctionIsSeq DEF RowsOf
  <1>6. /\ new \in RowsOf(K, Carried) /\ DOMAIN new = DOMAIN rows
        /\ \A i \in DOMAIN rows : new[i].key = rows[i].key /\ new[i].secret = g[i]
    <2> HIDE DEF g
    <2> QED BY <1>1, <1>4, MappedRows
  <1>7. RowsAtHome(rows, homes)
    BY <1>1, ProperIsAtHome
  <1>8. RowsAtHome(new, homes)
    BY <1>3, <1>6, <1>4, WebConfigAssumption DEF RowsAtHome, Hidden, Stored
  <1> QED BY <1>2, <1>5, <1>6, <1>7, <1>8

\* The sites of a file
CarriedSite(s, i) ==
  /\ s \in SiteOf(Carried)
  /\ s.tech \in {Blank, Redacted, NoServer} \/ s.tech.home = <<"tech", i>>
  /\ s.lldp \in {Blank, Redacted} \/ s.lldp.home = <<"lldp", i>>
  /\ RowsAtHome(s.px, HostHomes(i))

LEMMA SitesAreCarried ==
  ASSUME NEW i, NEW s, s \in SiteOf(Stored), ProperSite(s, i)
  PROVE  /\ CarriedSite(s, i) /\ CarriedSite(HiddenSite(s), i)
         /\ HiddenSite(s).tech = Hidden(s.tech) /\ HiddenSite(s).lldp = Hidden(s.lldp)
         /\ HiddenSite(s).px = HiddenRows(s.px)
  <1>1. s.tech \in Stored \cup {NoServer} /\ s.lldp \in Stored /\ s.px \in RowsOf(Hosts, Stored)
    BY DEF SiteOf
  <1>2. /\ s.px \in RowsOf(Hosts, Carried) /\ RowsAtHome(s.px, HostHomes(i))
        /\ HiddenRows(s.px) \in RowsOf(Hosts, Carried) /\ RowsAtHome(HiddenRows(s.px), HostHomes(i))
    BY RowsAreCarried DEF ProperSite
  <1>3. CarriedSite(s, i)
    BY <1>1, <1>2 DEF CarriedSite, SiteOf, Carried, ProperSite, Proper
  <1>4. /\ Hidden(s.tech) \in {Blank, Redacted, NoServer} /\ Hidden(s.lldp) \in {Blank, Redacted}
    BY <1>1, WebConfigAssumption DEF Hidden, Stored
  <1>5. /\ HiddenSite(s) \in SiteOf(Carried) /\ HiddenSite(s).tech = Hidden(s.tech)
        /\ HiddenSite(s).lldp = Hidden(s.lldp) /\ HiddenSite(s).px = HiddenRows(s.px)
    <2> DEFINE t == Hidden(s.tech)
               l == Hidden(s.lldp)
               p == HiddenRows(s.px)
               R == RowsOf(Hosts, Carried)
    <2>1. HiddenSite(s) = [s EXCEPT !.tech = t, !.lldp = l, !.px = p]
      BY DEF HiddenSite
    <2> HIDE DEF t, l, p, R
    <2>2. t \in Carried \cup {NoServer} /\ l \in Carried /\ p \in R
      BY <1>2, <1>4 DEF t, l, p, R, Carried, Stored
    <2>3. /\ HiddenSite(s) \in [name: Names, url: Urls \cup {NoServer},
                                tech: Carried \cup {NoServer}, lldp: Carried, px: R]
          /\ HiddenSite(s).tech = t /\ HiddenSite(s).lldp = l /\ HiddenSite(s).px = p
      BY <2>1, <2>2 DEF SiteOf
    <2> QED BY <2>3 DEF t, l, p, R, SiteOf
  <1> QED BY <1>2, <1>3, <1>4, <1>5 DEF CarriedSite

\* The configuration of a file
CarriedConfig(c) ==
  /\ DOMAIN c = {"sites", "url", "token", "creds"} /\ c.url \in Urls
  /\ DOMAIN c.sites \subseteq Ids /\ c.sites \in [DOMAIN c.sites -> SiteOf(Carried)]
  /\ \A i \in DOMAIN c.sites : CarriedSite(c.sites[i], i)
  /\ c.token \in Carried /\ (c.token \in {Blank, Redacted} \/ c.token.home = <<"netbox">>)
  /\ c.creds \in RowsOf(Profiles, Carried) /\ RowsAtHome(c.creds, CredHomes)

LEMMA ConfigIsCarried ==
  ASSUME NEW c, ProperConfig(c)
  PROVE  CarriedConfig(c) /\ CarriedConfig(Redact(c))
  <1>1. \A i \in DOMAIN c.sites : /\ CarriedSite(c.sites[i], i)
                                  /\ CarriedSite(HiddenSite(c.sites[i]), i)
    BY SitesAreCarried DEF ProperConfig
  <1>2. /\ c.creds \in RowsOf(Profiles, Carried) /\ RowsAtHome(c.creds, CredHomes)
        /\ HiddenRows(c.creds) \in RowsOf(Profiles, Carried)
        /\ RowsAtHome(HiddenRows(c.creds), CredHomes)
    BY RowsAreCarried DEF ProperConfig
  <1>3. c.token \in Carried /\ Hidden(c.token) \in {Blank, Redacted}
    BY WebConfigAssumption DEF ProperConfig, Proper, Carried, Hidden, Stored
  <1>4. c.sites \in [DOMAIN c.sites -> SiteOf(Carried)]
    BY <1>1 DEF CarriedSite, ProperConfig
  <1>5. CarriedConfig(c)
    BY <1>1, <1>2, <1>3, <1>4 DEF CarriedConfig, ProperConfig, Proper
  <1>6. CarriedConfig(Redact(c))
    BY <1>1, <1>2, <1>3 DEF CarriedConfig, CarriedSite, ProperConfig, Redact, Carried, Stored
  <1> QED BY <1>5, <1>6

\* A leaf of the merge: the sentinel gives way to the instance's own secret
LEMMA ResolveIsProper ==
  ASSUME NEW home, NEW s, NEW own, own = NoServer \/ Proper(own, home)
  PROVE  /\ s \in Carried /\ (s \in {Blank, Redacted} \/ s.home = home)
              => Proper(Resolve(s, own), home)
         /\ s = NoServer => Resolve(s, own) = NoServer
  <1>1. Proper(Blank, home)
    BY DEF Proper, Stored
  <1>2. NoServer # Redacted
    BY WebConfigAssumption
  <1>3. CASE s = Redacted
    BY <1>1, <1>2, <1>3 DEF Resolve
  <1>4. CASE s # Redacted
    BY <1>4 DEF Resolve, Proper, Carried
  <1> QED BY <1>3, <1>4

\* The merged rows have the file's keys and the file's secrets or the instance's
LEMMA MergedRowsAre ==
  ASSUME NEW K, NEW homes, NEW rows, rows \in RowsOf(K, Carried), RowsAtHome(rows, homes),
         NEW own, ProperRows(own, K, homes)
  PROVE  /\ ProperRows(MergeRows(rows, own), K, homes)
         /\ DOMAIN MergeRows(rows, own) = DOMAIN rows
         /\ \A i \in DOMAIN rows :
              /\ MergeRows(rows, own)[i].key = rows[i].key
              /\ MergeRows(rows, own)[i].secret
                   = Resolve(rows[i].secret, FirstOf(own, rows[i].key))
  <1> DEFINE first(i) == FirstOf(own, rows[i].key)
             g == [i \in DOMAIN rows |-> Resolve(rows[i].secret, first(i))]
             new == [i \in DOMAIN rows |-> [rows[i] EXCEPT !.secret = g[i]]]
  <1>1. new = MergeRows(rows, own)
    BY DEF MergeRows
  <1>2. own \in RowsOf(K, Stored)
    BY DEF ProperRows
  <1>3. ASSUME NEW i \in DOMAIN rows
        PROVE  Proper(g[i], homes[rows[i].key])
    <2>1. first(i) = Blank \/ \E j \in DOMAIN own : own[j].key = rows[i].key /\ first(i) = own[j].secret
      BY <1>2, Found
    <2>2. Proper(first(i), homes[rows[i].key])
      <3>1. Proper(Blank, homes[rows[i].key])
        BY DEF Proper, Stored
      <3> QED BY <2>1, <3>1 DEF ProperRows
    <2>3. rows[i].secret \in Carried
      BY RowsAre
    <2>4. rows[i].secret \in {Blank, Redacted} \/ rows[i].secret.home = homes[rows[i].key]
      BY DEF RowsAtHome
    <2> HIDE DEF first
    <2> QED BY <2>2, <2>3, <2>4, ResolveIsProper
  <1>4. g \in [DOMAIN rows -> Stored]
    <2> HIDE DEF first
    <2>1. \A i \in DOMAIN rows : g[i] \in Stored
      BY <1>3 DEF Proper
    <2> QED BY <2>1
  <1>5. /\ new \in RowsOf(K, Stored) /\ DOMAIN new = DOMAIN rows
        /\ \A i \in DOMAIN rows : new[i].key = rows[i].key /\ new[i].secret = g[i]
    <2> HIDE DEF g
    <2> QED BY <1>4, MappedRows
  <1>6. ProperRows(new, K, homes)
    <2> HIDE DEF g, new
    <2> QED BY <1>3, <1>5 DEF ProperRows
  <1> QED BY <1>1, <1>5, <1>6

\* A merged site
LEMMA MergedSiteIs ==
  ASSUME NEW i, NEW s, CarriedSite(s, i), NEW own, ProperSite(own, i)
  PROVE  /\ MergeSite(s, own) \in SiteOf(Stored) /\ ProperSite(MergeSite(s, own), i)
         /\ MergeSite(s, own).tech = Resolve(s.tech, own.tech)
         /\ MergeSite(s, own).lldp = Resolve(s.lldp, own.lldp)
         /\ MergeSite(s, own).px = MergeRows(s.px, own.px)
  <1> DEFINE t == Resolve(s.tech, own.tech)
             l == Resolve(s.lldp, own.lldp)
             p == MergeRows(s.px, own.px)
             R == RowsOf(Hosts, Stored)
  <1>1. /\ s \in SiteOf(Carried) /\ s.tech \in Carried \cup {NoServer} /\ s.lldp \in Carried
        /\ s.px \in RowsOf(Hosts, Carried)
    BY DEF CarriedSite, SiteOf
  <1>2. t = NoServer \/ Proper(t, <<"tech", i>>)
    BY <1>1, ResolveIsProper DEF CarriedSite, ProperSite
  <1>3. Proper(l, <<"lldp", i>>)
    BY <1>1, ResolveIsProper DEF CarriedSite, ProperSite
  <1>4. ProperRows(p, Hosts, HostHomes(i))
    BY <1>1, MergedRowsAre DEF CarriedSite, ProperSite
  <1>5. MergeSite(s, own) = [s EXCEPT !.tech = t, !.lldp = l, !.px = p]
    BY DEF MergeSite
  <1> HIDE DEF t, l, p, R
  <1>6. t \in Stored \cup {NoServer} /\ l \in Stored /\ p \in R
    BY <1>2, <1>3, <1>4 DEF Proper, ProperRows, R
  <1>7. /\ MergeSite(s, own) \in [name: Names, url: Urls \cup {NoServer},
                                    tech: Stored \cup {NoServer}, lldp: Stored, px: R]
        /\ MergeSite(s, own).tech = t /\ MergeSite(s, own).lldp = l /\ MergeSite(s, own).px = p
    BY <1>1, <1>5, <1>6 DEF SiteOf
  <1>8. MergeSite(s, own) \in SiteOf(Stored)
    BY <1>7 DEF SiteOf, R
  <1>9. ProperSite(MergeSite(s, own), i)
    BY <1>2, <1>3, <1>4, <1>7 DEF ProperSite
  <1> QED BY <1>7, <1>8, <1>9 DEF t, l, p

\* What stands in for a site the instance does not have
LEMMA SiteAtIsProper ==
  ASSUME NEW c, ProperConfig(c), NEW i
  PROVE  ProperSite(SiteAt(c, i), i)
  BY NoneIsProper DEF SiteAt, ProperConfig

\* A merged configuration is proper, and what is reported are places of secrets
LEMMA MergedIsProper ==
  ASSUME NEW raw, CarriedConfig(raw), NEW own, ProperConfig(own)
  PROVE  ProperConfig(Merge(raw, own)) /\ Blanked(raw, own) \subseteq Homes
  <1>1. \A i \in DOMAIN raw.sites :
          /\ MergeSite(raw.sites[i], SiteAt(own, i)) \in SiteOf(Stored)
          /\ ProperSite(MergeSite(raw.sites[i], SiteAt(own, i)), i)
    BY SiteAtIsProper, MergedSiteIs DEF CarriedConfig
  <1>2. Proper(Resolve(raw.token, own.token), <<"netbox">>)
    BY ResolveIsProper DEF CarriedConfig, ProperConfig
  <1>3. ProperRows(MergeRows(raw.creds, own.creds), Profiles, CredHomes)
    BY MergedRowsAre DEF CarriedConfig, ProperConfig
  <1>4. ProperConfig(Merge(raw, own))
    BY <1>1, <1>2, <1>3 DEF ProperConfig, CarriedConfig, Merge
  <1>5. ASSUME NEW K, NEW rows, rows \in RowsOf(K, Carried), NEW o
        PROVE  BlankedRows(rows, o) \subseteq K
    <2>1. \A i \in DOMAIN rows : rows[i].key \in K
      BY <1>5, RowsAre
    <2> QED BY <2>1 DEF BlankedRows
  <1>6. BlankedRows(raw.creds, own.creds) \subseteq Profiles
    BY <1>5 DEF CarriedConfig
  <1>7. \A i \in DOMAIN raw.sites :
          i \in Ids /\ BlankedRows(raw.sites[i].px, SiteAt(own, i).px) \subseteq Hosts
    <2>1. \A i \in DOMAIN raw.sites : i \in Ids /\ raw.sites[i].px \in RowsOf(Hosts, Carried)
      BY DEF CarriedConfig, CarriedSite, SiteOf
    <2> QED BY <1>5, <2>1
  <1>8. Blanked(raw, own) \subseteq Homes
    <2>1. ASSUME NEW i \in DOMAIN raw.sites
          PROVE  BlankedSite(i, raw.sites[i], SiteAt(own, i)) \subseteq Homes
      <3>1. \A h \in BlankedRows(raw.sites[i].px, SiteAt(own, i).px) : <<"px", i, h>> \in Homes
        BY <1>7 DEF Homes
      <3>2. <<"tech", i>> \in Homes /\ <<"lldp", i>> \in Homes
        BY <1>7, HomesAreHomes
      <3> QED BY <3>1, <3>2 DEF BlankedSite
    <2>2. \A p \in BlankedRows(raw.creds, own.creds) : <<"cred", p>> \in Homes
      BY <1>6 DEF Homes
    <2> QED BY <2>1, <2>2, HomesAreHomes DEF Blanked
  <1> QED BY <1>4, <1>8

----------------------------------------------------------------------------
(* The inductive invariant *)

\* A file that can be imported carries the configuration it was made from,
\* whole or with its secrets hidden
FileInv ==
  file # NoFile =>
    /\ IsFile(file) /\ ProperConfig(file.of)
    /\ file.schema <= Schema =>
         Migrated(file) = IF file.redacted THEN Redact(file.of) ELSE file.of

IInv ==
  /\ ProperConfig(cfg) /\ FileInv
  /\ unresolved \subseteq Homes /\ last \in Outcomes
  /\ typed \in 0..MaxTyped /\ saves \in 0..MaxSaves

LEMMA IInvIsEnough == IInv => TypeOK /\ AtHome(cfg)
  BY ProperIsTypedAtHome DEF IInv, FileInv, TypeOK

LEMMA InitIInv == Init => IInv
  <1> SUFFICES ASSUME Init PROVE IInv
    OBVIOUS
  <1>1. ProperConfig(cfg)
    BY ProperIsTypedAtHome DEF Init
  <1>2. ASSUME file # NoFile
        PROVE  /\ IsFile(file) /\ ProperConfig(file.of)
               /\ file.schema <= Schema =>
                    Migrated(file) = IF file.redacted THEN Redact(file.of) ELSE file.of
    <2>1. IsFile(file) /\ IsConfig(file.of, Stored) /\ AtHome(file.of)
      BY <1>2 DEF Init, IsFile
    <2>2. ProperConfig(file.of)
      BY <2>1, ProperIsTypedAtHome
    <2>3. CASE file.schema = 1
      <3>1. file.of = Migrate(file.config) /\ ~file.redacted
        BY <1>2, <2>3 DEF Init
      <3> QED BY <2>1, <2>2, <2>3, <3>1 DEF Migrated, Schema
    <2>4. CASE file.schema # 1
      <3>1. file.config = IF file.redacted THEN Redact(file.of) ELSE file.of
        BY <1>2, <2>4 DEF Init
      <3>2. file.schema \in 1..(Schema + 1)
        BY <2>1 DEF IsFile
      <3> QED BY <2>1, <2>2, <2>4, <3>1, <3>2 DEF Migrated, Schema
    <2> QED BY <2>3, <2>4
  <1>3. /\ unresolved \subseteq Homes /\ last \in Outcomes
        /\ typed \in 0..MaxTyped /\ saves \in 0..MaxSaves
    BY WebConfigAssumption DEF Init, Outcomes
  <1> QED BY <1>1, <1>2, <1>3 DEF IInv, FileInv

\* An exported file satisfies its part of the invariant
LEMMA ExportedFile ==
  ASSUME ProperConfig(cfg), NEW redacted \in BOOLEAN, Export(redacted)
  PROVE  FileInv'
  <1> DEFINE c == IF redacted THEN Redact(cfg) ELSE cfg
  <1>1. file' = [schema |-> Schema, redacted |-> redacted, config |-> c, of |-> cfg]
    BY DEF Export, FileOf
  <1>2. CarriedConfig(c)
    BY ConfigIsCarried
  <1>3. IsConfig(c, Stored \cup {Redacted})
    BY <1>2 DEF CarriedConfig, IsConfig, Carried
  <1>4. IsConfig(cfg, Stored)
    BY ProperIsTypedAtHome
  <1> HIDE DEF c
  <1>5. IsFile(file')
    BY <1>1, <1>3, <1>4 DEF IsFile, Schema
  <1>6. Migrated(file') = c
    BY <1>1 DEF Migrated, Schema
  <1> QED BY <1>1, <1>5, <1>6 DEF FileInv, c

\* What an import puts in force
LEMMA ImportedConfig ==
  ASSUME IInv, Import
  PROVE  /\ CarriedConfig(Migrated(file)) /\ cfg' = Merge(Migrated(file), cfg)
         /\ unresolved' = Blanked(Migrated(file), cfg)
         /\ ProperConfig(cfg') /\ unresolved' \subseteq Homes
  <1>1. /\ cfg' = Merge(Migrated(file), cfg) /\ unresolved' = Blanked(Migrated(file), cfg)
        /\ file # NoFile /\ file.schema <= Schema
    BY DEF Import, ImportConfig
  <1>2. CarriedConfig(Migrated(file))
    BY <1>1, ConfigIsCarried DEF IInv, FileInv
  <1> QED BY <1>1, <1>2, MergedIsProper DEF IInv

LEMMA NextIInv == IInv /\ [Next]_vars => IInv'
  <1> SUFFICES ASSUME IInv, [Next]_vars PROVE IInv'
    OBVIOUS
  <1> USE DEF IInv
  <1>0. typed \in Nat
    BY WebConfigAssumption
  <1>1. ASSUME NEW target \in Ids \cup {New}, NEW name \in Names, NEW server \in Urls \cup {NoServer},
               NEW hosts \in HostRows, NEW at, SaveSite(target, name, server, hosts, at)
        PROVE  IInv'
    <2>1. ProperConfig(cfg')
      BY <1>0, <1>1, SaveSiteProper
    <2>2. Submit(at) /\ last' \in {"edited", "created"}
      BY <1>1 DEF SaveSite
    <2> QED BY <2>1, <2>2, SubmitCounts DEF Submit, FileInv, Outcomes
  <1>2. ASSUME NEW i \in Ids, DeleteSite(i)
        PROVE  IInv'
    <2>1. ProperConfig(cfg')
      BY <1>2, DeleteSiteProper
    <2>2. Submit(Nowhere) /\ last' = "deleted"
      BY <1>2 DEF DeleteSite
    <2> QED BY <2>1, <2>2, SubmitCounts DEF Submit, FileInv, Outcomes
  <1>3. ASSUME NEW url \in Urls, NEW profiles \in ProfileRows, NEW at, SaveSettings(url, profiles, at)
        PROVE  IInv'
    <2>1. ProperConfig(cfg')
      BY <1>0, <1>3, SaveSettingsProper
    <2>2. Submit(at) /\ last' = "settings"
      BY <1>3 DEF SaveSettings
    <2> QED BY <2>1, <2>2, SubmitCounts DEF Submit, FileInv, Outcomes
  <1>4. ASSUME NEW redacted \in BOOLEAN, Export(redacted)
        PROVE  IInv'
    <2>1. FileInv'
      BY <1>4, ExportedFile
    <2> QED BY <1>4, <2>1 DEF Export, Outcomes
  <1>5. CASE Import
    BY <1>5, ImportedConfig DEF Import, FileInv, Outcomes
  <1>6. CASE Refuse
    BY <1>6 DEF Refuse, FileInv, Outcomes
  <1>7. CASE UNCHANGED vars
    BY <1>7 DEF vars, FileInv
  <1> QED BY <1>1, <1>2, <1>3, <1>4, <1>5, <1>6, <1>7 DEF Next

\* The invariant holds always
LEMMA IInvAlways == Spec => []IInv
  BY InitIInv, NextIInv, PTL DEF Spec

\* Every configuration in force, every file and every report has its form: what
\* the forms, the export, the migration and the merge make is a configuration.
THEOREM TypeCorrect == Spec => []TypeOK
  BY IInvAlways, IInvIsEnough, PTL

----------------------------------------------------------------------------
(* Where secrets come from *)

\* A site, a configuration has s somewhere
SiteHas(x, s) == s = x.tech \/ s = x.lldp \/ \E j \in DOMAIN x.px : s = x.px[j].secret
Has(c, s) == \/ s = c.token \/ \E j \in DOMAIN c.creds : s = c.creds[j].secret
             \/ \E i \in DOMAIN c.sites : SiteHas(c.sites[i], s)

LEMMA SecretsAre ==
  ASSUME NEW c, NEW s
  PROVE  s \in Secrets(c) <=> Has(c, s) /\ s \notin {Blank, Redacted, NoServer}
  <1>1. s \in UNION {{c.sites[i].tech, c.sites[i].lldp} \cup RowSecrets(c.sites[i].px) :
                      i \in DOMAIN c.sites}
          <=> \E i \in DOMAIN c.sites : s \in {c.sites[i].tech, c.sites[i].lldp}
                                                \cup RowSecrets(c.sites[i].px)
    OBVIOUS
  <1>2. \A rows : s \in RowSecrets(rows) <=> \E j \in DOMAIN rows : s = rows[j].secret
    BY DEF RowSecrets
  <1> QED BY <1>1, <1>2 DEF Secrets, Has, SiteHas

\* A form's site has what is typed now and what the site had
LEMMA FormSiteHas ==
  ASSUME NEW id \in Ids, NEW existing, ProperSite(existing, id), NEW name,
         NEW server \in Urls \cup {NoServer}, NEW hosts \in Seq(Hosts), NEW at, typed \in Nat, NEW s
  PROVE  LET new == SiteFromForm(id, existing, name, server, hosts, at)
         IN SiteHas(new, s) => s \in {Blank, NoServer} \/ s.n > typed \/ SiteHas(existing, s)
  <1> DEFINE new == SiteFromForm(id, existing, name, server, hosts, at)
             t == Typed(at, TechField, <<"tech", id>>, server)
             l == Typed(at, LldpField, <<"lldp", id>>, NoServer)
  <1>1. (t = Blank \/ t.n > typed) /\ (l = Blank \/ l.n > typed)
    <2>1. <<"tech", id>> \in Homes /\ <<"lldp", id>> \in Homes
      BY HomesAreHomes
    <2> QED BY <2>1, TypedIsProper
  <1>2. /\ new.px = FormRows(hosts, HostHomes(id), at, existing.px)
        /\ new.lldp = Or(l, existing.lldp)
        /\ new.tech = IF server = NoServer THEN NoServer
                      ELSE Or(t, IF existing.tech = NoServer THEN Blank ELSE existing.tech)
    BY DEF SiteFromForm, HostHomes
  <1> HIDE DEF t, l, new
  <1>3. CASE s = new.tech
    BY <1>1, <1>2, <1>3 DEF Or, SiteHas
  <1>4. CASE s = new.lldp
    BY <1>1, <1>2, <1>4 DEF Or, SiteHas
  <1>5. CASE \E j \in DOMAIN new.px : s = new.px[j].secret
    <2>1. ProperRows(existing.px, Hosts, HostHomes(id)) /\ HostHomes(id) \in [Hosts -> Homes]
      BY HomesAreHomes DEF ProperSite
    <2>2. \A j \in DOMAIN new.px :
            \/ new.px[j].secret = Blank \/ new.px[j].secret.n > typed
            \/ \E k \in DOMAIN existing.px : new.px[j].secret = existing.px[k].secret
      BY <1>2, <2>1, FormRowsAre
    <2> QED BY <1>5, <2>2 DEF SiteHas
  <1> QED BY <1>3, <1>4, <1>5 DEF new, SiteHas

LEMMA SaveSiteHas ==
  ASSUME ProperConfig(cfg), typed \in Nat, NEW target \in Ids \cup {New}, NEW name \in Names,
         NEW server \in Urls \cup {NoServer}, NEW hosts \in HostRows, NEW at,
         SaveSite(target, name, server, hosts, at), NEW s, Has(cfg', s)
  PROVE  s \in {Blank, NoServer} \/ s.n > typed \/ Has(cfg, s)
  <1> DEFINE exists == target \in DOMAIN cfg.sites
             id == IF exists THEN target ELSE Slug[name]
             others == DOMAIN cfg.sites \ {id, target}
             existing == IF exists THEN cfg.sites[target] ELSE NoSecrets
             site == SiteFromForm(id, existing, name, server, hosts, at)
             sites == [i \in others \cup {id} |-> IF i = id THEN site ELSE cfg.sites[i]]
  <1>1. id \in Ids
    BY WebConfigAssumption DEF ProperConfig
  <1>2. ProperSite(existing, id)
    BY NoneIsProper DEF ProperConfig
  <1>3. SiteHas(existing, s) => s \in {Blank, NoServer} \/ Has(cfg, s)
    <2>1. CASE exists
      BY <2>1 DEF Has
    <2>2. CASE ~exists
      <3>1. DOMAIN <<>> = {}
        OBVIOUS
      <3> QED BY <2>2, <3>1 DEF NoSecrets, SiteHas
    <2> QED BY <2>1, <2>2
  <1>4. cfg' = [cfg EXCEPT !.sites = sites]
    BY DEF SaveSite
  <1>5. hosts \in Seq(Hosts)
    BY WebConfigAssumption
  <1> HIDE DEF id, existing
  <1>6. SiteHas(site, s) => s \in {Blank, NoServer} \/ s.n > typed \/ SiteHas(existing, s)
    BY <1>1, <1>2, <1>5, FormSiteHas
  <1> HIDE DEF site
  <1>7. /\ cfg'.token = cfg.token /\ cfg'.creds = cfg.creds /\ cfg'.sites = sites
    BY <1>4 DEF ProperConfig
  <1>8. ASSUME NEW i \in DOMAIN sites, SiteHas(sites[i], s)
        PROVE  s \in {Blank, NoServer} \/ s.n > typed \/ Has(cfg, s)
    <2>1. CASE i = id
      <3>1. sites[i] = site
        BY <2>1
      <3> HIDE DEF sites
      <3> QED BY <1>3, <1>6, <1>8, <3>1
    <2>2. CASE i # id
      <3>1. sites[i] = cfg.sites[i] /\ i \in DOMAIN cfg.sites
        BY <2>2
      <3> HIDE DEF sites
      <3> QED BY <1>8, <3>1 DEF Has
    <2> QED BY <2>1, <2>2
  <1> HIDE DEF sites
  <1> QED BY <1>7, <1>8 DEF Has

LEMMA DeleteSiteHas ==
  ASSUME ProperConfig(cfg), NEW i \in Ids, DeleteSite(i), NEW s, Has(cfg', s)
  PROVE  Has(cfg, s)
  <1>1. /\ cfg'.token = cfg.token /\ cfg'.creds = cfg.creds
        /\ cfg'.sites = [j \in DOMAIN cfg.sites \ {i} |-> cfg.sites[j]]
    BY DEF DeleteSite, ProperConfig
  <1>2. \A j \in DOMAIN cfg'.sites : j \in DOMAIN cfg.sites /\ cfg'.sites[j] = cfg.sites[j]
    BY <1>1
  <1> QED BY <1>1, <1>2 DEF Has

LEMMA SaveSettingsHas ==
  ASSUME ProperConfig(cfg), typed \in Nat, NEW url \in Urls, NEW profiles \in ProfileRows, NEW at,
         SaveSettings(url, profiles, at), NEW s, Has(cfg', s)
  PROVE  s = Blank \/ s.n > typed \/ Has(cfg, s)
  <1> DEFINE t == Typed(at, TokenField, <<"netbox">>, url)
             token == Or(t, cfg.token)
             creds == FormRows(profiles, CredHomes, at, cfg.creds)
  <1>1. t = Blank \/ t.n > typed
    BY HomesAreHomes, TypedIsProper
  <1>2. \A j \in DOMAIN creds :
          \/ creds[j].secret = Blank \/ creds[j].secret.n > typed
          \/ \E k \in DOMAIN cfg.creds : creds[j].secret = cfg.creds[k].secret
    <2>1. profiles \in Seq(Profiles)
      BY WebConfigAssumption
    <2> QED BY <2>1, HomesAreHomes, FormRowsAre DEF ProperConfig
  <1>3. cfg' = [cfg EXCEPT !.url = url, !.token = token, !.creds = creds]
    BY DEF SaveSettings, CredHomes
  <1>4. token = t \/ token = cfg.token
    BY DEF Or
  <1> HIDE DEF t, token, creds
  <1>5. cfg'.sites = cfg.sites /\ cfg'.token = token /\ cfg'.creds = creds
    BY <1>3 DEF ProperConfig
  <1> QED BY <1>1, <1>2, <1>4, <1>5 DEF Has

\* The merge has what the file has, the sentinel apart, and what the instance has
LEMMA ResolveIs ==
  ASSUME NEW s, NEW own
  PROVE  Resolve(s, own) \in {Blank, own} \/ (Resolve(s, own) = s /\ s # Redacted)
  BY DEF Resolve

LEMMA MergedRowsHave ==
  ASSUME NEW K, NEW homes, NEW rows, rows \in RowsOf(K, Carried), RowsAtHome(rows, homes),
         NEW own, ProperRows(own, K, homes), NEW i \in DOMAIN MergeRows(rows, own),
         NEW s, s = MergeRows(rows, own)[i].secret
  PROVE  \/ s = Blank \/ \E j \in DOMAIN own : s = own[j].secret
         \/ s # Redacted /\ i \in DOMAIN rows /\ s = rows[i].secret
  <1> DEFINE f == FirstOf(own, rows[i].key)
  <1>1. i \in DOMAIN rows /\ s = Resolve(rows[i].secret, f)
    BY MergedRowsAre
  <1>2. f = Blank \/ \E j \in DOMAIN own : f = own[j].secret
    BY Found DEF ProperRows
  <1> HIDE DEF f
  <1> QED BY <1>1, <1>2, ResolveIs

LEMMA MergeHas ==
  ASSUME NEW raw, CarriedConfig(raw), NEW own, ProperConfig(own),
         NEW s, Has(Merge(raw, own), s)
  PROVE  s \in {Blank, NoServer} \/ Has(own, s) \/ (s # Redacted /\ Has(raw, s))
  <1> DEFINE new == Merge(raw, own)
  <1>1. /\ new.token = Resolve(raw.token, own.token)
        /\ new.creds = MergeRows(raw.creds, own.creds)
        /\ DOMAIN new.sites = DOMAIN raw.sites
        /\ \A i \in DOMAIN raw.sites : new.sites[i] = MergeSite(raw.sites[i], SiteAt(own, i))
    BY DEF Merge
  <1>2. CASE s = new.token
    BY <1>1, <1>2, ResolveIs DEF Has
  <1>3. CASE \E j \in DOMAIN new.creds : s = new.creds[j].secret
    <2>1. PICK j \in DOMAIN new.creds : s = new.creds[j].secret
      BY <1>3
    <2>2. \/ s = Blank \/ \E k \in DOMAIN own.creds : s = own.creds[k].secret
          \/ s # Redacted /\ j \in DOMAIN raw.creds /\ s = raw.creds[j].secret
      BY <1>1, <2>1, MergedRowsHave DEF CarriedConfig, ProperConfig
    <2> QED BY <2>2 DEF Has
  <1>4. ASSUME NEW i \in DOMAIN raw.sites,
               SiteHas(new.sites[i], s)
        PROVE  s \in {Blank, NoServer} \/ Has(own, s) \/ (s # Redacted /\ Has(raw, s))
    <2> DEFINE x == raw.sites[i]
               o == SiteAt(own, i)
    <2>1. CarriedSite(x, i) /\ ProperSite(o, i)
      BY SiteAtIsProper DEF CarriedConfig
    <2>2. SiteHas(o, s) => s \in {Blank, NoServer} \/ Has(own, s)
      <3>1. DOMAIN <<>> = {}
        OBVIOUS
      <3>2. SiteHas(NoSecrets, s) => s \in {Blank, NoServer}
        BY <3>1 DEF NoSecrets, SiteHas
      <3> QED BY <3>2 DEF SiteAt, Has
    <2>3. SiteHas(x, s) => Has(raw, s)
      BY DEF Has
    <2> HIDE DEF x, o
    <2>4. /\ new.sites[i].tech = Resolve(x.tech, o.tech)
          /\ new.sites[i].lldp = Resolve(x.lldp, o.lldp)
          /\ new.sites[i].px = MergeRows(x.px, o.px)
      BY <1>1, <2>1, MergedSiteIs DEF x, o
    <2>5. CASE s \in {new.sites[i].tech, new.sites[i].lldp}
      <3> HIDE DEF new
      <3> QED BY <2>2, <2>3, <2>4, <2>5, ResolveIs DEF SiteHas
    <2>6. CASE \E j \in DOMAIN new.sites[i].px : s = new.sites[i].px[j].secret
      <3> HIDE DEF new
      <3>1. x.px \in RowsOf(Hosts, Carried) /\ RowsAtHome(x.px, HostHomes(i))
            /\ ProperRows(o.px, Hosts, HostHomes(i))
        BY <2>1 DEF CarriedSite, SiteOf, ProperSite
      <3>2. \/ s = Blank \/ \E k \in DOMAIN o.px : s = o.px[k].secret
            \/ s # Redacted /\ \E j \in DOMAIN x.px : s = x.px[j].secret
        BY <2>4, <2>6, <3>1, MergedRowsHave
      <3> QED BY <2>2, <2>3, <3>2 DEF SiteHas
    <2> QED BY <1>4, <2>5, <2>6 DEF SiteHas
  <1> QED BY <1>1, <1>2, <1>3, <1>4 DEF Has

\* A redacted configuration has no secret
LEMMA RedactHasNone ==
  ASSUME NEW c, ProperConfig(c), NEW s, Has(Redact(c), s)
  PROVE  s \in {Blank, Redacted, NoServer}
  <1> DEFINE new == Redact(c)
             None == {Blank, Redacted, NoServer}
  <1>1. \A x : Hidden(x) \in None
    BY DEF Hidden
  <1>2. /\ new.token = Hidden(c.token) /\ new.creds = HiddenRows(c.creds)
        /\ new.sites = [i \in DOMAIN c.sites |-> HiddenSite(c.sites[i])]
    BY DEF Redact
  <1>3. \A K, homes, rows : ProperRows(rows, K, homes) =>
          \A j \in DOMAIN HiddenRows(rows) : HiddenRows(rows)[j].secret \in None
    BY <1>1, RowsAreCarried
  <1>4. ASSUME NEW i \in DOMAIN c.sites
        PROVE  SiteHas(HiddenSite(c.sites[i]), s) => s \in None
    <2>1. c.sites[i] \in SiteOf(Stored) /\ ProperSite(c.sites[i], i)
      BY DEF ProperConfig
    <2>2. ProperRows(c.sites[i].px, Hosts, HostHomes(i))
      BY <2>1 DEF ProperSite
    <2>3. \A j \in DOMAIN HiddenSite(c.sites[i]).px : HiddenSite(c.sites[i]).px[j].secret \in None
      BY <1>3, <2>1, <2>2, SitesAreCarried
    <2>4. HiddenSite(c.sites[i]).tech \in None /\ HiddenSite(c.sites[i]).lldp \in None
      BY <1>1, <2>1, SitesAreCarried
    <2> QED BY <2>3, <2>4 DEF SiteHas
  <1>5. \A j \in DOMAIN new.creds : new.creds[j].secret \in None
    BY <1>2, <1>3 DEF ProperConfig
  <1>6. new.token \in None
    BY <1>1, <1>2
  <1>7. \A i \in DOMAIN new.sites : SiteHas(new.sites[i], s) => s \in None
    BY <1>2, <1>4
  <1> HIDE DEF new
  <1> QED BY <1>5, <1>6, <1>7 DEF Has, new

\* A secret comes into force by being typed or by the import of a file that was
\* exported with it: nothing brings back one that has been replaced or removed.
THEOREM NothingComesBack == Spec => TypedOrRestored
  <1> DEFINE From(s) == \/ s.n > typed
                        \/ last' = "imported" /\ ~file.redacted /\ s \in Secrets(file.of)
  <1>1. ASSUME IInv, Next, NEW s \in Secrets(cfg') \ Secrets(cfg)
        PROVE  From(s)
    <2> USE DEF IInv
    <2>1. typed \in Nat
      BY <1>1, WebConfigAssumption
    <2>2. Has(cfg', s) /\ ~Has(cfg, s) /\ s \notin {Blank, Redacted, NoServer}
      BY <1>1, SecretsAre
    <2>3. ASSUME NEW target \in Ids \cup {New}, NEW name \in Names, NEW server \in Urls \cup {NoServer},
                 NEW hosts \in HostRows, NEW at, SaveSite(target, name, server, hosts, at)
          PROVE  From(s)
      BY <1>1, <2>1, <2>2, <2>3, SaveSiteHas
    <2>4. ASSUME NEW i \in Ids, DeleteSite(i)
          PROVE  From(s)
      BY <1>1, <2>2, <2>4, DeleteSiteHas
    <2>5. ASSUME NEW url \in Urls, NEW profiles \in ProfileRows, NEW at, SaveSettings(url, profiles, at)
          PROVE  From(s)
      BY <1>1, <2>1, <2>2, <2>5, SaveSettingsHas
    <2>6. CASE Import
      <3>1. CarriedConfig(Migrated(file)) /\ cfg' = Merge(Migrated(file), cfg)
        BY <1>1, <2>6, ImportedConfig
      <3>2. Has(Migrated(file), s)
        BY <1>1, <2>2, <3>1, MergeHas
      <3>3. /\ last' = "imported" /\ ProperConfig(file.of)
            /\ Migrated(file) = IF file.redacted THEN Redact(file.of) ELSE file.of
        BY <1>1, <2>6 DEF Import, FileInv
      <3>4. ~file.redacted
        BY <2>2, <3>2, <3>3, RedactHasNone
      <3> QED BY <2>2, <3>2, <3>3, <3>4, SecretsAre
    <2>7. CASE Refuse \/ \E redacted \in BOOLEAN : Export(redacted)
      BY <2>2, <2>7 DEF Refuse, Export
    <2> QED BY <1>1, <2>3, <2>4, <2>5, <2>6, <2>7 DEF Next
  <1>2. IInv /\ [Next]_vars => [\A s \in Secrets(cfg') \ Secrets(cfg) : From(s)]_vars
    BY <1>1
  <1> QED BY <1>2, IInvAlways, PTL DEF Spec, TypedOrRestored

----------------------------------------------------------------------------
(* What is lost *)

\* A leaf that an import loses carries the sentinel and has no counterpart
LEMMA LostIsBlanked ==
  ASSUME NEW s, s # Redacted, NEW r \in {s, Hidden(s)}, NEW own, Lost(s, Resolve(r, own))
  PROVE  r = Redacted /\ own \in {Blank, NoServer}
  BY WebConfigAssumption DEF Lost, Hidden, Resolve

\* ... and so does a row
LEMMA LostRowsAreBlanked ==
  ASSUME NEW K, NEW homes, NEW from, ProperRows(from, K, homes),
         NEW rows \in {from, HiddenRows(from)}, NEW own, ProperRows(own, K, homes)
  PROVE  LostRows(from, MergeRows(rows, own)) \subseteq BlankedRows(rows, own)
  <1> DEFINE new == MergeRows(rows, own)
  <1>1. /\ rows \in RowsOf(K, Carried) /\ RowsAtHome(rows, homes) /\ DOMAIN rows = DOMAIN from
        /\ \A i \in DOMAIN from : /\ rows[i].key = from[i].key
                                  /\ rows[i].secret \in {from[i].secret, Hidden(from[i].secret)}
    BY RowsAreCarried
  <1>2. \A i \in DOMAIN rows :
          new[i].secret = Resolve(rows[i].secret, FirstOf(own, rows[i].key))
    BY <1>1, MergedRowsAre
  <1> HIDE DEF new
  <1>3. ASSUME NEW i \in DOMAIN from, Lost(from[i].secret, new[i].secret)
        PROVE  from[i].key \in BlankedRows(rows, own)
    <2> DEFINE f == FirstOf(own, rows[i].key)
               a == from[i].secret
               r == rows[i].secret
    <2>1. f \in Stored
      BY Found DEF ProperRows, Stored
    <2>2. a \in Stored /\ r \in {a, Hidden(a)} /\ Lost(a, Resolve(r, f))
      BY <1>1, <1>2, <1>3 DEF ProperRows, Proper
    <2>3. Redacted \notin Stored /\ NoServer \notin Stored
      BY WebConfigAssumption DEF Stored
    <2>4. r = Redacted /\ f = Blank
      <3> HIDE DEF f, a, r
      <3> QED BY <2>1, <2>2, <2>3, LostIsBlanked
    <2> QED BY <1>1, <2>4 DEF BlankedRows
  <1> QED BY <1>3 DEF LostRows, new

\* Whatever secret of the exported configuration an import loses, it reports.
THEOREM LossIsShown == Spec => LostIsReported
  <1> DEFINE Reported ==
        LET from == file.of
        IN /\ Lost(from.token, cfg'.token) => <<"netbox">> \in unresolved'
           /\ \A p \in LostRows(from.creds, cfg'.creds) : <<"cred", p>> \in unresolved'
           /\ \A i \in DOMAIN from.sites :
                /\ Lost(from.sites[i].tech, cfg'.sites[i].tech) => <<"tech", i>> \in unresolved'
                /\ Lost(from.sites[i].lldp, cfg'.sites[i].lldp) => <<"lldp", i>> \in unresolved'
                /\ \A h \in LostRows(from.sites[i].px, cfg'.sites[i].px) :
                     <<"px", i, h>> \in unresolved'
  <1>1. ASSUME IInv, Import
        PROVE  Reported
    <2> DEFINE from == file.of
               raw == Migrated(file)
    <2>1. /\ CarriedConfig(raw) /\ cfg' = Merge(raw, cfg) /\ unresolved' = Blanked(raw, cfg)
          /\ ProperConfig(cfg)
      BY <1>1, ImportedConfig DEF IInv
    <2>2. ProperConfig(from) /\ raw \in {from, Redact(from)}
      BY <1>1 DEF IInv, FileInv, Import
    <2> HIDE DEF from, raw
    <2>3. Redacted \notin Stored
      BY WebConfigAssumption DEF Stored
    <2>4. Lost(from.token, cfg'.token) => <<"netbox">> \in unresolved'
      <3>1. raw.token \in {from.token, Hidden(from.token)} /\ from.token # Redacted
        BY <2>2, <2>3 DEF Redact, ProperConfig, Proper
      <3>2. cfg'.token = Resolve(raw.token, cfg.token)
        BY <2>1 DEF Merge
      <3>3. Lost(from.token, cfg'.token) => IsBlanked(raw.token, cfg.token)
        BY <3>1, <3>2, LostIsBlanked DEF IsBlanked
      <3> QED BY <2>1, <3>3 DEF Blanked
    <2>5. \A p \in LostRows(from.creds, cfg'.creds) : <<"cred", p>> \in unresolved'
      <3>1. raw.creds \in {from.creds, HiddenRows(from.creds)}
        BY <2>2 DEF Redact
      <3>2. cfg'.creds = MergeRows(raw.creds, cfg.creds)
        BY <2>1 DEF Merge
      <3>3. LostRows(from.creds, cfg'.creds) \subseteq BlankedRows(raw.creds, cfg.creds)
        BY <2>1, <2>2, <3>1, <3>2, LostRowsAreBlanked DEF ProperConfig
      <3> QED BY <2>1, <3>3 DEF Blanked
    <2>6. ASSUME NEW i \in DOMAIN from.sites
          PROVE  /\ Lost(from.sites[i].tech, cfg'.sites[i].tech) => <<"tech", i>> \in unresolved'
                 /\ Lost(from.sites[i].lldp, cfg'.sites[i].lldp) => <<"lldp", i>> \in unresolved'
                 /\ \A h \in LostRows(from.sites[i].px, cfg'.sites[i].px) :
                      <<"px", i, h>> \in unresolved'
      <3> DEFINE s == from.sites[i]
                 r == raw.sites[i]
                 o == SiteAt(cfg, i)
                 t == cfg'.sites[i]
      <3>1. s \in SiteOf(Stored) /\ ProperSite(s, i)
        BY <2>2 DEF ProperConfig
      <3>2. /\ i \in DOMAIN raw.sites /\ r.tech \in {s.tech, Hidden(s.tech)}
            /\ r.lldp \in {s.lldp, Hidden(s.lldp)} /\ r.px \in {s.px, HiddenRows(s.px)}
        <4>1. raw = from \/ (DOMAIN raw.sites = DOMAIN from.sites /\ r = HiddenSite(s))
          BY <2>2 DEF Redact
        <4> HIDE DEF s, r
        <4> QED BY <3>1, <4>1, SitesAreCarried DEF s, r
      <3>3. CarriedSite(r, i) /\ ProperSite(o, i)
        BY <2>1, <3>2, SiteAtIsProper DEF CarriedConfig
      <3>4. t = MergeSite(r, o)
        BY <2>1, <3>2 DEF Merge
      <3>5. BlankedSite(i, r, o) \subseteq unresolved'
        BY <2>1, <3>2 DEF Blanked
      <3>6. /\ s.tech # Redacted /\ s.lldp # Redacted /\ ProperRows(s.px, Hosts, HostHomes(i))
            /\ ProperRows(o.px, Hosts, HostHomes(i))
        BY <2>3, <3>1, <3>3, WebConfigAssumption DEF ProperSite, Proper
      <3> HIDE DEF s, r, o, t
      <3>7. /\ t.tech = Resolve(r.tech, o.tech) /\ t.lldp = Resolve(r.lldp, o.lldp)
            /\ t.px = MergeRows(r.px, o.px)
        BY <3>3, <3>4, MergedSiteIs
      <3>8. Lost(s.tech, t.tech) => IsBlanked(r.tech, o.tech)
        BY <3>2, <3>6, <3>7, LostIsBlanked DEF IsBlanked
      <3>9. Lost(s.lldp, t.lldp) => IsBlanked(r.lldp, o.lldp)
        BY <3>2, <3>6, <3>7, LostIsBlanked DEF IsBlanked
      <3>10. LostRows(s.px, t.px) \subseteq BlankedRows(r.px, o.px)
        BY <3>2, <3>6, <3>7, LostRowsAreBlanked
      <3> QED BY <3>5, <3>8, <3>9, <3>10 DEF BlankedSite, s, t
    <2> QED BY <2>4, <2>5, <2>6 DEF from
  <1>2. ASSUME Next, last' = "imported"
        PROVE  Import
    BY <1>2 DEF Next, SaveSite, DeleteSite, SaveSettings, Export, Refuse
  <1>3. IInv /\ [Next]_vars => [last' = "imported" => Reported]_vars
    BY <1>1, <1>2
  <1> QED BY <1>3, IInvAlways, PTL DEF Spec, LostIsReported

----------------------------------------------------------------------------
(* What edits keep *)

\* A blank field keeps the secret, another replaces it
LEMMA OrKeeps ==
  ASSUME NEW t, t = Blank \/ t.n > typed, NEW s
  PROVE  Kept(s, Or(t, s))
  BY DEF Or, Kept

\* ... in a row as well, wherever the row goes
LEMMA FormRowsKeep ==
  ASSUME NEW K, NEW homes \in [K -> Homes], NEW keys \in Seq(K), NEW at,
         NEW stored, ProperRows(stored, K, homes), typed \in Nat
  PROVE  RowsKept(stored, FormRows(keys, homes, at, stored))
  <1> DEFINE new == FormRows(keys, homes, at, stored)
  <1>1. SUFFICES ASSUME NEW i \in DOMAIN stored, NEW j \in Matches(new, stored[i].key),
                        Matches(stored, stored[i].key) = {i}
                 PROVE  Kept(stored[i].secret, new[j].secret)
    BY DEF RowsKept
  <1> DEFINE k == stored[i].key
             t == Typed(at, j, homes[k], NoServer)
  <1>2. j \in DOMAIN keys /\ keys[j] = k /\ new[j].secret = Or(t, LastOf(stored, k))
    BY DEF FormRows, Matches
  <1>3. k \in K /\ i \in Nat
    BY SeqIsFunction, RowsAre DEF ProperRows
  <1>4. t = Blank \/ t.n > typed
    BY <1>3, TypedIsProper
  <1>5. LastOf(stored, k) = stored[i].secret
    <2>1. {x \in Matches(stored, k) : \A y \in Matches(stored, k) : y <= x} = {i}
      BY <1>1, <1>3
    <2> QED BY <2>1 DEF LastOf, TheSecret
  <1> HIDE DEF t, new
  <1> QED BY <1>2, <1>4, <1>5, OrKeeps

\* A secret, or row, that stays as it is, is kept
LEMMA SameIsKept ==
  ASSUME NEW s
  PROVE  Kept(s, s)
  BY DEF Kept

LEMMA SameRowsAreKept ==
  ASSUME NEW rows
  PROVE  RowsKept(rows, rows)
  <1>1. SUFFICES ASSUME NEW i \in DOMAIN rows, NEW j \in Matches(rows, rows[i].key),
                        Matches(rows, rows[i].key) = {i}
                 PROVE  Kept(rows[i].secret, rows[j].secret)
    BY DEF RowsKept
  <1>2. j = i
    BY <1>1
  <1> QED BY <1>2, SameIsKept

\* An edit of a site or of the settings loses no secret of what stays.
THEOREM EditsLoseNothing == Spec => EditsKeepSecrets
  <1> DEFINE SiteKept(i) == /\ i \in DOMAIN cfg'.sites
                            /\ Kept(cfg.sites[i].tech, cfg'.sites[i].tech)
                            /\ Kept(cfg.sites[i].lldp, cfg'.sites[i].lldp)
                            /\ RowsKept(cfg.sites[i].px, cfg'.sites[i].px)
             AllKept == /\ Kept(cfg.token, cfg'.token) /\ RowsKept(cfg.creds, cfg'.creds)
                        /\ \A i \in DOMAIN cfg.sites : SiteKept(i)
  <1>1. ASSUME IInv, NEW target \in Ids \cup {New}, NEW name \in Names, NEW server \in Urls \cup {NoServer},
               NEW hosts \in HostRows, NEW at, SaveSite(target, name, server, hosts, at),
               last' = "edited"
        PROVE  AllKept
    <2> DEFINE old == cfg.sites[target]
               site == SiteFromForm(target, old, name, server, hosts, at)
               tech == Typed(at, TechField, <<"tech", target>>, server)
               lldp == Typed(at, LldpField, <<"lldp", target>>, NoServer)
    <2>1. ProperConfig(cfg) /\ target \in DOMAIN cfg.sites /\ target \in Ids /\ typed \in Nat
      BY <1>1, WebConfigAssumption DEF SaveSite, IInv, ProperConfig
    <2>2. /\ cfg'.token = cfg.token /\ cfg'.creds = cfg.creds
          /\ cfg'.sites = [i \in DOMAIN cfg.sites |-> IF i = target THEN site ELSE cfg.sites[i]]
      <3>1. (DOMAIN cfg.sites \ {target, target}) \cup {target} = DOMAIN cfg.sites
        BY <2>1
      <3> HIDE DEF site
      <3>2. cfg' = [cfg EXCEPT !.sites =
                      [i \in DOMAIN cfg.sites |-> IF i = target THEN site ELSE cfg.sites[i]]]
        BY <1>1, <2>1, <3>1 DEF SaveSite, site
      <3> QED BY <2>1, <3>2 DEF ProperConfig
    <2>3. (tech = Blank \/ tech.n > typed) /\ (lldp = Blank \/ lldp.n > typed)
      <3>1. <<"tech", target>> \in Homes /\ <<"lldp", target>> \in Homes
        BY <2>1, HomesAreHomes
      <3> QED BY <2>1, <3>1, TypedIsProper
    <2>4. Kept(old.tech, site.tech)
      <3>1. site.tech = IF server = NoServer THEN NoServer
                        ELSE Or(tech, IF old.tech = NoServer THEN Blank ELSE old.tech)
        BY DEF SiteFromForm
      <3> HIDE DEF tech, site
      <3> QED BY <2>3, <3>1 DEF Kept, Or
    <2>5. Kept(old.lldp, site.lldp)
      <3>1. site.lldp = Or(lldp, old.lldp)
        BY DEF SiteFromForm
      <3> HIDE DEF lldp, site
      <3> QED BY <2>3, <3>1, OrKeeps
    <2>6. RowsKept(old.px, site.px)
      <3>1. site.px = FormRows(hosts, HostHomes(target), at, old.px)
        BY DEF SiteFromForm, HostHomes
      <3>2. hosts \in Seq(Hosts) /\ HostHomes(target) \in [Hosts -> Homes]
        BY <2>1, WebConfigAssumption, HomesAreHomes
      <3>3. ProperRows(old.px, Hosts, HostHomes(target))
        BY <2>1 DEF ProperConfig, ProperSite
      <3> HIDE DEF site, old
      <3> QED BY <2>1, <3>1, <3>2, <3>3, FormRowsKeep
    <2> HIDE DEF site
    <2>7. \A i \in DOMAIN cfg.sites : SiteKept(i)
      BY <2>2, <2>4, <2>5, <2>6, SameIsKept, SameRowsAreKept
    <2> QED BY <2>2, <2>7, SameIsKept, SameRowsAreKept
  <1>2. ASSUME IInv, NEW url \in Urls, NEW profiles \in ProfileRows, NEW at, SaveSettings(url, profiles, at)
        PROVE  AllKept
    <2> DEFINE t == Typed(at, TokenField, <<"netbox">>, url)
               creds == FormRows(profiles, CredHomes, at, cfg.creds)
    <2>1. ProperConfig(cfg) /\ typed \in Nat /\ profiles \in Seq(Profiles)
      BY <1>2, WebConfigAssumption DEF IInv
    <2>2. t = Blank \/ t.n > typed
      BY <2>1, HomesAreHomes, TypedIsProper
    <2>3. RowsKept(cfg.creds, creds)
      BY <2>1, HomesAreHomes, FormRowsKeep DEF ProperConfig
    <2>4. cfg' = [cfg EXCEPT !.url = url, !.token = Or(t, cfg.token), !.creds = creds]
      BY <1>2 DEF SaveSettings, CredHomes
    <2> HIDE DEF t, creds
    <2>5. cfg'.sites = cfg.sites /\ cfg'.token = Or(t, cfg.token) /\ cfg'.creds = creds
      BY <2>1, <2>4 DEF ProperConfig
    <2>6. \A i \in DOMAIN cfg.sites : SiteKept(i)
      BY <2>5, SameIsKept, SameRowsAreKept
    <2> QED BY <2>2, <2>3, <2>5, <2>6, OrKeeps
  <1>3. ASSUME IInv, Next, last' \in {"edited", "settings"}
        PROVE  AllKept
    <2>1. ASSUME NEW target \in Ids \cup {New}, NEW name \in Names, NEW server \in Urls \cup {NoServer},
                 NEW hosts \in HostRows, NEW at, SaveSite(target, name, server, hosts, at)
          PROVE  AllKept
      <3>1. last' = "edited"
        BY <1>3, <2>1 DEF SaveSite
      <3> HIDE DEF AllKept
      <3> QED BY <1>1, <1>3, <2>1, <3>1
    <2>2. ASSUME NEW url \in Urls, NEW profiles \in ProfileRows, NEW at, SaveSettings(url, profiles, at)
          PROVE  AllKept
      <3> HIDE DEF AllKept
      <3> QED BY <1>2, <1>3, <2>2
    <2> HIDE DEF AllKept
    <2> QED BY <1>3, <2>1, <2>2 DEF Next, DeleteSite, Export, Import, Refuse
  <1>4. IInv /\ [Next]_vars => [last' \in {"edited", "settings"} => AllKept]_vars
    <2> HIDE DEF AllKept
    <2> QED BY <1>3
  <1> QED BY <1>4, IInvAlways, PTL DEF Spec, EditsKeepSecrets

----------------------------------------------------------------------------
(* There and back *)

\* No key twice: of two rows with one key, an import gives both the first secret
KeysApart(rows) == \A i, j \in DOMAIN rows : rows[i].key = rows[j].key => i = j
Unambiguous(c) == KeysApart(c.creds) /\ \A i \in DOMAIN c.sites : KeysApart(c.sites[i].px)

\* A secret comes back if it was in the file, or hidden in it and is known here
LEMMA SecretComesBack ==
  ASSUME NEW s \in Stored \cup {NoServer}
  PROVE  /\ Resolve(Hidden(s), s) = s /\ ~IsBlanked(Hidden(s), s)
         /\ \A own : Resolve(s, own) = s /\ ~IsBlanked(s, own)
  <1>1. s # Redacted
    BY WebConfigAssumption DEF Stored
  <1> QED BY <1>1, WebConfigAssumption DEF Resolve, Hidden, IsBlanked

\* ... and so do rows
LEMMA RowsComeBack ==
  ASSUME NEW K, NEW rows \in RowsOf(K, Stored), NEW carried \in {rows, HiddenRows(rows)},
         NEW own, carried # rows => own = rows /\ KeysApart(rows)
  PROVE  MergeRows(carried, own) = rows /\ BlankedRows(carried, own) = {}
  <1>1. /\ DOMAIN rows = 1..Len(rows) /\ rows \in [1..Len(rows) -> [key: K, secret: Stored]]
        /\ \A i \in DOMAIN rows : rows[i] \in [key: K, secret: Stored] /\ rows[i].secret \in Stored
    BY RowsAre
  <1>2. /\ DOMAIN carried = DOMAIN rows
        /\ \A i \in DOMAIN rows : carried[i] = rows[i]
                                  \/ carried[i] = [rows[i] EXCEPT !.secret = Hidden(@)]
    BY DEF HiddenRows
  <1>3. ASSUME NEW i \in DOMAIN rows
        PROVE  /\ [carried[i] EXCEPT !.secret = Resolve(@, FirstOf(own, carried[i].key))] = rows[i]
               /\ ~(carried[i].secret = Redacted /\ FirstOf(own, carried[i].key) = Blank)
    <2> DEFINE s == rows[i].secret
               here == FirstOf(own, carried[i].key)
    <2>1. rows[i] \in [key: K, secret: Stored] /\ s \in Stored \cup {NoServer} /\ s # Redacted
      BY <1>1, <1>3, WebConfigAssumption DEF Stored
    <2>2. CASE carried = rows
      <3>1. Resolve(s, here) = s
        BY <2>1, SecretComesBack
      <3> HIDE DEF here
      <3>2. [rows[i] EXCEPT !.secret = Resolve(@, here)] = rows[i]
        BY <2>1, <3>1
      <3> QED BY <2>1, <2>2, <3>2 DEF here
    <2>3. CASE carried # rows
      <3>1. carried = HiddenRows(rows) /\ own = rows /\ KeysApart(rows)
        BY <2>3
      <3>2. carried[i] = [rows[i] EXCEPT !.secret = Hidden(s)]
        BY <3>1 DEF HiddenRows
      <3>3. carried[i].key = rows[i].key /\ carried[i].secret = Hidden(s)
        BY <2>1, <3>2
      <3>4. here = s
        <4>1. Matches(rows, rows[i].key) = {i} /\ i \in Nat
          BY <1>1, <1>3, <3>1 DEF Matches, KeysApart
        <4>2. {x \in Matches(rows, rows[i].key) : \A y \in Matches(rows, rows[i].key) : x <= y} = {i}
          BY <4>1
        <4> QED BY <3>1, <3>3, <4>2 DEF FirstOf, TheSecret
      <3>5. Resolve(Hidden(s), s) = s /\ ~IsBlanked(Hidden(s), s)
        BY <2>1, SecretComesBack
      <3> HIDE DEF here
      <3>6. [carried[i] EXCEPT !.secret = Resolve(@, here)] = rows[i]
        BY <2>1, <3>2, <3>4, <3>5
      <3> QED BY <3>3, <3>4, <3>5, <3>6 DEF IsBlanked, here
    <2> QED BY <2>2, <2>3
  <1>4. MergeRows(carried, own) = [i \in DOMAIN rows |-> rows[i]]
    BY <1>2, <1>3 DEF MergeRows
  <1>5. BlankedRows(carried, own) = {}
    BY <1>2, <1>3 DEF BlankedRows
  <1> QED BY <1>1, <1>4, <1>5

\* ... and sites
LEMMA SiteComesBack ==
  ASSUME NEW i, NEW s \in SiteOf(Stored), NEW carried \in {s, HiddenSite(s)},
         NEW own, carried # s => own = s /\ KeysApart(s.px)
  PROVE  MergeSite(carried, own) = s /\ BlankedSite(i, carried, own) = {}
  <1>1. /\ s.tech \in Stored \cup {NoServer} /\ s.lldp \in Stored \cup {NoServer}
        /\ s.px \in RowsOf(Hosts, Stored)
    BY DEF SiteOf
  <1> DEFINE t == Resolve(carried.tech, own.tech)
             l == Resolve(carried.lldp, own.lldp)
             p == MergeRows(carried.px, own.px)
  <1>2. /\ t = s.tech /\ l = s.lldp /\ p = s.px /\ BlankedRows(carried.px, own.px) = {}
        /\ ~IsBlanked(carried.tech, own.tech) /\ ~IsBlanked(carried.lldp, own.lldp)
    <2>1. CASE carried = s
      BY <1>1, <2>1, SecretComesBack, RowsComeBack
    <2>2. CASE carried # s
      <3>1. carried = HiddenSite(s) /\ own = s /\ KeysApart(s.px)
        BY <2>2
      <3>2. /\ carried.tech = Hidden(s.tech) /\ carried.lldp = Hidden(s.lldp)
            /\ carried.px = HiddenRows(s.px)
        <4> DEFINE ht == Hidden(s.tech)
                   hl == Hidden(s.lldp)
                   hp == HiddenRows(s.px)
        <4>1. carried = [s EXCEPT !.tech = ht, !.lldp = hl, !.px = hp]
          BY <3>1 DEF HiddenSite
        <4> HIDE DEF ht, hl, hp
        <4>2. carried.tech = ht /\ carried.lldp = hl /\ carried.px = hp
          BY <4>1 DEF SiteOf
        <4> QED BY <4>2 DEF ht, hl, hp
      <3> QED BY <1>1, <3>1, <3>2, SecretComesBack, RowsComeBack
    <2> QED BY <2>1, <2>2
  <1>3. MergeSite(carried, own) = s
    <2>1. MergeSite(carried, own) = [carried EXCEPT !.tech = t, !.lldp = l, !.px = p]
      BY DEF MergeSite
    <2>2. carried.name = s.name /\ carried.url = s.url /\ \E x, y, z : carried = [s EXCEPT !.tech = x, !.lldp = y, !.px = z]
      <3>1. CASE carried = s
        <4>1. s = [s EXCEPT !.tech = s.tech, !.lldp = s.lldp, !.px = s.px]
          BY DEF SiteOf
        <4> QED BY <3>1, <4>1
      <3>2. CASE carried = HiddenSite(s)
        <4>1. carried = [s EXCEPT !.tech = Hidden(s.tech), !.lldp = Hidden(s.lldp),
                                  !.px = HiddenRows(s.px)]
          BY <3>2 DEF HiddenSite
        <4>2. \E x, y, z : carried = [s EXCEPT !.tech = x, !.lldp = y, !.px = z]
          BY <4>1
        <4> QED BY <4>2 DEF SiteOf
      <3> QED BY <3>1, <3>2
    <2> HIDE DEF t, l, p
    <2> QED BY <1>2, <2>1, <2>2 DEF SiteOf
  <1>4. BlankedSite(i, carried, own) = {}
    BY <1>2 DEF BlankedSite
  <1> QED BY <1>3, <1>4

\* An import takes back what was exported, and reports nothing: with its secrets to
\* any instance, and without them to the one it comes from.
THEOREM ComesBack ==
  ASSUME NEW c, IsConfig(c, Stored), NEW own, NEW redacted \in BOOLEAN,
         redacted => own = c /\ Unambiguous(c)
  PROVE  LET result == ImportConfig(FileOf(c, redacted), own)
         IN /\ result.config.sites = c.sites /\ result.config.token = c.token
            /\ result.config.creds = c.creds /\ result.config.url = c.url
            /\ result.unresolved = {}
  <1> DEFINE raw == IF redacted THEN Redact(c) ELSE c
  <1>1. Migrated(FileOf(c, redacted)) = raw
    BY DEF Migrated, FileOf, Schema
  <1>2. /\ c.sites \in [DOMAIN c.sites -> SiteOf(Stored)]
        /\ c.token \in Stored /\ c.creds \in RowsOf(Profiles, Stored)
    BY DEF IsConfig
  <1>3. /\ raw.token \in {c.token, Hidden(c.token)} /\ raw.creds \in {c.creds, HiddenRows(c.creds)}
        /\ DOMAIN raw.sites = DOMAIN c.sites /\ raw.url = c.url
        /\ \A i \in DOMAIN c.sites : raw.sites[i] \in {c.sites[i], HiddenSite(c.sites[i])}
        /\ ~redacted => raw = c
    BY DEF Redact
  <1> HIDE DEF raw
  <1>4. Resolve(raw.token, own.token) = c.token /\ ~IsBlanked(raw.token, own.token)
    BY <1>2, <1>3, SecretComesBack
  <1>5. MergeRows(raw.creds, own.creds) = c.creds /\ BlankedRows(raw.creds, own.creds) = {}
    BY <1>2, <1>3, RowsComeBack DEF Unambiguous
  <1>6. ASSUME NEW i \in DOMAIN c.sites
        PROVE  /\ MergeSite(raw.sites[i], SiteAt(own, i)) = c.sites[i]
               /\ BlankedSite(i, raw.sites[i], SiteAt(own, i)) = {}
    <2>1. redacted => SiteAt(own, i) = c.sites[i] /\ KeysApart(c.sites[i].px)
      BY <1>6 DEF SiteAt, Unambiguous
    <2>2. raw.sites[i] # c.sites[i] => redacted
      BY <1>3
    <2>3. c.sites[i] \in SiteOf(Stored) /\ raw.sites[i] \in {c.sites[i], HiddenSite(c.sites[i])}
      BY <1>2, <1>3
    <2> QED BY <2>1, <2>2, <2>3, SiteComesBack
  <1>7. [i \in DOMAIN raw.sites |-> MergeSite(raw.sites[i], SiteAt(own, i))] = c.sites
    BY <1>2, <1>3, <1>6
  <1>8. Blanked(raw, own) = {}
    BY <1>3, <1>4, <1>5, <1>6 DEF Blanked
  <1> QED BY <1>1, <1>3, <1>4, <1>5, <1>7, <1>8 DEF ImportConfig, Merge
----------------------------------------------------------------------------
(* Where a token is sent *)

\* What an import makes of a leaf that is sent to a URL: a foreign one is the file's
\* or the instance's
LEMMA ForeignLeaf ==
  ASSUME NEW r, NEW own, NEW s, s = Resolve(r, own), s \notin {Blank, NoServer}
  PROVE  (s = r /\ r # Redacted) \/ (s = own /\ r = Redacted)
  BY DEF Resolve

\* What is a URL's in a site that the file does not hide, or that an import fills in
LEMMA ForeignSite ==
  ASSUME NEW raw, CarriedConfig(raw), NEW own, ProperConfig(own), NEW i \in DOMAIN raw.sites,
         NEW t, t = [at |-> <<"tech", i>>, url |-> Merge(raw, own).sites[i].url,
                     secret |-> Merge(raw, own).sites[i].tech],
         Foreign(t)
  PROVE  \/ t \in Tokens(raw)
         \/ raw.sites[i].tech = Redacted /\ \E u \in Tokens(own) : u.at = t.at /\ u.secret = t.secret
  <1> DEFINE x == raw.sites[i]
             o == SiteAt(own, i)
             new == MergeSite(x, o)
  <1>1. CarriedSite(x, i) /\ ProperSite(o, i)
    BY SiteAtIsProper DEF CarriedConfig
  <1>2. x \in SiteOf(Carried)
    BY <1>1 DEF CarriedSite
  <1>3. new.tech = Resolve(x.tech, o.tech)
    BY <1>1, MergedSiteIs
  <1>4. new.url = x.url
    BY <1>2 DEF MergeSite, SiteOf
  <1>5. Merge(raw, own).sites[i] = new
    BY DEF Merge
  <1>6. t = [at |-> <<"tech", i>>, url |-> x.url, secret |-> new.tech]
    BY <1>4, <1>5
  <1> HIDE DEF new, o
  <1>7. new.tech \notin {Blank, NoServer}
    BY <1>6 DEF Foreign
  <1>8. CASE new.tech = x.tech /\ x.tech # Redacted
    BY <1>6, <1>8 DEF Tokens
  <1>9. CASE new.tech = o.tech /\ x.tech = Redacted
    <2>1. i \in DOMAIN own.sites /\ o = own.sites[i]
      BY <1>7, <1>9 DEF o, SiteAt, NoSecrets
    <2>2. [at |-> <<"tech", i>>, url |-> o.url, secret |-> o.tech] \in Tokens(own)
      BY <2>1 DEF Tokens
    <2> QED BY <1>6, <1>9, <2>2
  <1> QED BY <1>3, <1>7, <1>8, <1>9, ForeignLeaf

\* No form, export or import gives one place's secret to another, whatever the sites,
\* hosts and profiles are and in whatever order their rows come; and a token gets
\* beside another URL only where an edit or a redacted file changes the URL over it.
THEOREM SecretsAtHome == Spec => SecretsStayHome
  <1> DEFINE Stays(t) ==
        \/ t \in Tokens(cfg)
        \/ last' = "imported" /\ ~file.redacted /\ t \in Tokens(file.of)
        \/ /\ last' \in {"edited", "settings"} \/ (last' = "imported" /\ file.redacted)
           /\ \E u \in Tokens(cfg) : u.at = t.at /\ u.secret = t.secret
  <1>1. ASSUME IInv, Next, NEW t \in Tokens(cfg'), Foreign(t)
        PROVE  Stays(t)
    <2>1. ProperConfig(cfg) /\ typed \in Nat
      BY <1>1, WebConfigAssumption DEF IInv
    <2>2. \/ t = [at |-> <<"netbox">>, url |-> cfg'.url, secret |-> cfg'.token]
          \/ \E i \in DOMAIN cfg'.sites : t = [at |-> <<"tech", i>>, url |-> cfg'.sites[i].url,
                                               secret |-> cfg'.sites[i].tech]
      BY <1>1 DEF Tokens
    <2>3. ASSUME NEW target \in Ids \cup {New}, NEW name \in Names,
                 NEW server \in Urls \cup {NoServer}, NEW hosts \in HostRows, NEW at,
                 SaveSite(target, name, server, hosts, at)
          PROVE  Stays(t)
      <3> DEFINE exists == target \in DOMAIN cfg.sites
                 id == IF exists THEN target ELSE Slug[name]
                 others == DOMAIN cfg.sites \ {id, target}
                 existing == IF exists THEN cfg.sites[target] ELSE NoSecrets
                 site == SiteFromForm(id, existing, name, server, hosts, at)
                 sites == [i \in others \cup {id} |-> IF i = id THEN site ELSE cfg.sites[i]]
                 old == IF existing.tech = NoServer THEN Blank ELSE existing.tech
                 now == Typed(at, TechField, <<"tech", id>>, server)
      <3>1. cfg' = [cfg EXCEPT !.sites = sites] /\ last' = IF exists THEN "edited" ELSE "created"
        BY <2>3 DEF SaveSite
      <3>2. site.url = server /\ site.tech = IF server = NoServer THEN NoServer ELSE Or(now, old)
        BY DEF SiteFromForm
      <3>3. id \in Ids
        BY <2>1, WebConfigAssumption DEF ProperConfig
      <3>4. now = Blank \/ now.url = server
        BY <2>1, <3>3, HomesAreHomes, TypedIsProper
      <3>5. old # Blank => exists /\ old = cfg.sites[target].tech
        BY DEF NoSecrets
      <3>6. /\ cfg'.sites = sites /\ cfg'.url = cfg.url /\ cfg'.token = cfg.token
        BY <2>1, <3>1 DEF ProperConfig
      <3>7. exists => id = target
        OBVIOUS
      <3>8. \A i \in DOMAIN sites : \/ i = id /\ sites[i] = site
                                    \/ i \in DOMAIN cfg.sites /\ sites[i] = cfg.sites[i]
        OBVIOUS
      <3> HIDE DEF exists, id, site, sites, old, now
      <3>9. CASE t = [at |-> <<"tech", id>>, url |-> site.url, secret |-> site.tech]
        <4>1. t.secret = old /\ old # Blank
          BY <1>1, <3>2, <3>4, <3>9 DEF Foreign, Or
        <4>2. [at |-> <<"tech", id>>, url |-> cfg.sites[id].url, secret |-> old] \in Tokens(cfg)
          BY <3>5, <3>7, <4>1 DEF Tokens, exists
        <4> QED BY <3>1, <3>5, <3>9, <4>1, <4>2
      <3> QED BY <2>2, <3>6, <3>8, <3>9 DEF Tokens
    <2>4. ASSUME NEW i \in Ids, DeleteSite(i)
          PROVE  Stays(t)
      <3>1. /\ cfg'.token = cfg.token /\ cfg'.url = cfg.url
            /\ cfg'.sites = [j \in DOMAIN cfg.sites \ {i} |-> cfg.sites[j]]
        BY <2>1, <2>4 DEF DeleteSite, ProperConfig
      <3>2. \A j \in DOMAIN cfg'.sites : j \in DOMAIN cfg.sites /\ cfg'.sites[j] = cfg.sites[j]
        BY <3>1
      <3> QED BY <2>2, <3>1, <3>2 DEF Tokens
    <2>5. ASSUME NEW url \in Urls, NEW profiles \in ProfileRows, NEW at,
                 SaveSettings(url, profiles, at)
          PROVE  Stays(t)
      <3> DEFINE now == Typed(at, TokenField, <<"netbox">>, url)
                 creds == FormRows(profiles, CredHomes, at, cfg.creds)
      <3>1. cfg' = [cfg EXCEPT !.url = url, !.token = Or(now, cfg.token), !.creds = creds]
        BY <2>5 DEF SaveSettings, CredHomes
      <3>2. now = Blank \/ now.url = url
        BY <2>1, HomesAreHomes, TypedIsProper
      <3> HIDE DEF now, creds
      <3>3. cfg'.sites = cfg.sites /\ cfg'.url = url /\ cfg'.token = Or(now, cfg.token)
        BY <2>1, <3>1 DEF ProperConfig
      <3>4. CASE t = [at |-> <<"netbox">>, url |-> url, secret |-> Or(now, cfg.token)]
        <4>1. t.secret = cfg.token
          BY <1>1, <3>2, <3>4 DEF Foreign, Or
        <4>2. last' = "settings"
          BY <2>5 DEF SaveSettings
        <4>3. [at |-> <<"netbox">>, url |-> cfg.url, secret |-> cfg.token] \in Tokens(cfg)
          BY DEF Tokens
        <4> QED BY <3>4, <4>1, <4>2, <4>3
      <3> QED BY <2>2, <3>3, <3>4 DEF Tokens
    <2>6. CASE Import
      <3> DEFINE raw == Migrated(file)
      <3>1. CarriedConfig(raw) /\ cfg' = Merge(raw, cfg)
        BY <1>1, <2>6, ImportedConfig
      <3>2. /\ last' = "imported" /\ ProperConfig(file.of)
            /\ raw = IF file.redacted THEN Redact(file.of) ELSE file.of
        BY <1>1, <2>6 DEF Import, IInv, FileInv
      <3> HIDE DEF raw
      <3>3. Foreign(t) /\ t \in Tokens(raw) => ~file.redacted
        <4>1. ASSUME file.redacted, t \in Tokens(raw)
              PROVE  t.secret \in {Blank, Redacted, NoServer}
          <5>1. \A i \in DOMAIN file.of.sites :
                  HiddenSite(file.of.sites[i]).tech = Hidden(file.of.sites[i].tech)
            BY <3>2, SitesAreCarried DEF ProperConfig
          <5>2. raw.token = Hidden(file.of.token) /\ DOMAIN raw.sites = DOMAIN file.of.sites
                /\ \A i \in DOMAIN raw.sites : raw.sites[i].tech = Hidden(file.of.sites[i].tech)
            BY <3>2, <4>1, <5>1 DEF Redact
          <5> QED BY <4>1, <5>2 DEF Tokens, Hidden
        <4> QED BY <4>1 DEF Foreign
      <3>4. ~file.redacted => Redacted \notin {u.secret : u \in Tokens(raw)}
        <4>1. Redacted \notin Stored /\ Redacted # NoServer
          BY WebConfigAssumption DEF Stored
        <4> QED BY <3>2, <4>1 DEF Tokens, ProperConfig, ProperSite, Proper
      <3>5. CASE t = [at |-> <<"netbox">>, url |-> cfg'.url, secret |-> cfg'.token]
        <4>1. cfg'.url = raw.url /\ cfg'.token = Resolve(raw.token, cfg.token)
          BY <3>1 DEF Merge
        <4>2. [at |-> <<"netbox">>, url |-> cfg.url, secret |-> cfg.token] \in Tokens(cfg)
              /\ [at |-> <<"netbox">>, url |-> raw.url, secret |-> raw.token] \in Tokens(raw)
          BY DEF Tokens
        <4>3. CASE t.secret = raw.token
          BY <1>1, <3>2, <3>3, <3>5, <4>1, <4>2, <4>3
        <4>4. CASE t.secret = cfg.token /\ raw.token = Redacted
          BY <3>2, <3>4, <3>5, <4>2, <4>4
        <4>5. t.secret \notin {Blank, NoServer}
          BY <1>1 DEF Foreign
        <4> QED BY <3>5, <4>1, <4>3, <4>4, <4>5, ForeignLeaf
      <3>6. ASSUME NEW i \in DOMAIN cfg'.sites,
                   t = [at |-> <<"tech", i>>, url |-> cfg'.sites[i].url,
                        secret |-> cfg'.sites[i].tech]
            PROVE  Stays(t)
        <4>1. i \in DOMAIN raw.sites
          BY <3>1 DEF Merge
        <4>2. \/ t \in Tokens(raw)
              \/ /\ raw.sites[i].tech = Redacted
                 /\ \E u \in Tokens(cfg) : u.at = t.at /\ u.secret = t.secret
          BY <1>1, <2>1, <3>1, <3>6, <4>1, ForeignSite
        <4>3. CASE t \in Tokens(raw)
          BY <1>1, <3>2, <3>3, <4>3
        <4>4. CASE /\ raw.sites[i].tech = Redacted
                   /\ \E u \in Tokens(cfg) : u.at = t.at /\ u.secret = t.secret
          <5>1. [at |-> <<"tech", i>>, url |-> raw.sites[i].url, secret |-> raw.sites[i].tech]
                  \in Tokens(raw)
            BY <4>1 DEF Tokens
          <5>2. file.redacted
            BY <3>4, <4>4, <5>1
          <5> QED BY <3>2, <4>4, <5>2
        <4> QED BY <4>2, <4>3, <4>4
      <3> QED BY <2>2, <3>5, <3>6
    <2>7. CASE Refuse \/ \E redacted \in BOOLEAN : Export(redacted)
      BY <1>1, <2>7 DEF Refuse, Export
    <2> QED BY <1>1, <2>3, <2>4, <2>5, <2>6, <2>7 DEF Next
  <1>2. IInv /\ IInv' /\ [Next]_vars
          => [AtHome(cfg') /\ \A t \in Tokens(cfg') : Foreign(t) => Stays(t)]_vars
    <2>1. IInv' => AtHome(cfg')
      BY ProperIsTypedAtHome DEF IInv
    <2> HIDE DEF Stays
    <2> QED BY <1>1, <2>1
  <1> QED BY <1>2, IInvAlways, PTL DEF Spec, SecretsStayHome
=============================================================================
