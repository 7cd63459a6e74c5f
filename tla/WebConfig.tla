------------------------------- MODULE WebConfig -------------------------------
(****************************************************************************)
(* What a configuration holds, and what the web UI's forms, exports and     *)
(* imports make of it: the handlers of webui/app.py that save, with the     *)
(* form parsing below them, config_transfer.py and the migration of         *)
(* config.py.  How a configuration gets to disk is SettingsStore.           *)
(*                                                                          *)
(* Secrets are what this is about.  A form never shows a stored secret; a   *)
(* field left blank keeps it.  A redacted export has a sentinel in place of *)
(* each secret, and an import puts the importing instance's own secrets     *)
(* back, matched by identity.  A secret is represented by the place it was  *)
(* typed for (its home), the server's URL that stood beside it there, and a *)
(* number.  The URL is not part of the identity: a token stays where it is  *)
(* when the URL beside it is edited, or is another one in a file.           *)
(*                                                                          *)
(* A handler is one action: it reads the store and updates it without an    *)
(* await in between.  A form may have been rendered from any earlier        *)
(* configuration, in any number of tabs; hence its rows are arbitrary, and  *)
(* so is the site it was opened for, which may be gone.  One form types at  *)
(* most one secret.  Settings that are neither secret nor part of an        *)
(* identity are left out: a save overwrites them.  The two secrets of a     *)
(* site's LLDP section are handled alike and are one here, so are the two   *)
(* of a credential profile; fallback_creds, a mapping that no form shows,   *)
(* is merged like the profiles.  Site ids are unique (config.py:115), which *)
(* makes the list of sites a function of them.                              *)
(****************************************************************************)
EXTENDS Integers, Sequences

CONSTANTS Ids, Names, Hosts, Profiles,
          Urls,          \* where a NetBox, or a DNS and DHCP server, is
          Slug,          \* the id a new site of that name gets
          HostRows,      \* the lists of Proxmox hosts a site form may have
          ProfileRows,   \* the lists of credential profiles of a settings form
          Blank, Redacted, NoServer, New, NoFile,
          MaxTyped,      \* bound on secrets typed
          MaxSaves       \* bound on forms submitted

\* CONFIG_SCHEMA_VERSION
Schema == 2

\* The places of a configuration that hold a secret (SECRET_PATHS)
Homes == {<<"netbox">>} \cup ({"tech", "lldp"} \X Ids)
           \cup ({"px"} \X Ids \X Hosts) \cup ({"cred"} \X Profiles)
Secret == [home: Homes, url: Urls \cup {NoServer}, n: Nat]

\* A configuration whose secrets are taken from S: NoServer stands for a site
\* without a DNS and DHCP server; creds are the credential profiles in order.
RowsOf(K, S) == Seq([key: K, secret: S])
SiteOf(S) == [name: Names, url: Urls \cup {NoServer}, tech: S \cup {NoServer}, lldp: S,
              px: RowsOf(Hosts, S)]
IsConfig(c, S) ==
  /\ DOMAIN c = {"sites", "url", "token", "creds"} /\ c.url \in Urls
  /\ DOMAIN c.sites \subseteq Ids /\ c.sites \in [DOMAIN c.sites -> SiteOf(S)]
  /\ c.token \in S /\ c.creds \in RowsOf(Profiles, S)

\* A flat configuration of the first schema, which has keys of a site or has not
Legacy(S) ==
  {raw \in [keys: BOOLEAN, name: Names, server: Urls \cup {NoServer},
            tech: S \cup {NoServer}, px: RowsOf(Hosts, S),
            url: Urls, token: S, creds: RowsOf(Profiles, S)] :
     raw.keys \/ (raw.tech = NoServer /\ raw.px = <<>>)}

\* What is in force, and what a file carries; "of" is the configuration the file
\* was made from, for the properties only
Stored == Secret \cup {Blank}
IsFile(f) ==
  /\ DOMAIN f = {"schema", "redacted", "config", "of"}
  /\ f.schema \in 1..(Schema + 1) /\ f.redacted \in BOOLEAN /\ IsConfig(f.of, Stored)
  /\ IF f.schema = 1 THEN f.config \in Legacy(Stored)
                     ELSE IsConfig(f.config, Stored \cup {Redacted})

\* Every secret of a configuration is where it was typed for
RowsAtHome(rows, homes) ==
  \A i \in DOMAIN rows :
    rows[i].secret \in {Blank, Redacted} \/ rows[i].secret.home = homes[rows[i].key]
AtHome(c) ==
  /\ c.token \in {Blank, Redacted} \/ c.token.home = <<"netbox">>
  /\ RowsAtHome(c.creds, [p \in Profiles |-> <<"cred", p>>])
  /\ \A i \in DOMAIN c.sites :
       /\ c.sites[i].tech \in {Blank, Redacted, NoServer} \/ c.sites[i].tech.home = <<"tech", i>>
       /\ c.sites[i].lldp \in {Blank, Redacted} \/ c.sites[i].lldp.home = <<"lldp", i>>
       /\ RowsAtHome(c.sites[i].px, [h \in Hosts |-> <<"px", i, h>>])

\* The secrets that are sent to a URL, with the place of both
Tokens(c) ==
  {[at |-> <<"netbox">>, url |-> c.url, secret |-> c.token]}
    \cup {[at |-> <<"tech", i>>, url |-> c.sites[i].url, secret |-> c.sites[i].tech] :
            i \in DOMAIN c.sites}
Foreign(t) == t.secret \notin {Blank, Redacted, NoServer} /\ t.secret.url # t.url

ASSUME WebConfigAssumption ==
  /\ Slug \in [Names -> Ids]
  /\ HostRows \subseteq Seq(Hosts) /\ ProfileRows \subseteq Seq(Profiles)
  /\ {Blank, Redacted, NoServer} \cap Secret = {} /\ NoServer \notin Urls
  /\ Blank # Redacted /\ Blank # NoServer /\ Redacted # NoServer
  /\ New \notin Ids
  /\ MaxTyped \in Nat /\ MaxSaves \in Nat

VARIABLES
  cfg,          \* the configuration in force (store.get())
  file,         \* the newest export file at hand, of this or another instance
  unresolved,   \* what the last import reported as blanked
  last,         \* what the last request did
  typed, saves  \* secrets typed and forms submitted so far

vars == <<cfg, file, unresolved, last, typed, saves>>

Outcomes == {"none", "created", "edited", "deleted", "settings", "exported",
             "imported", "refused"}

TypeOK ==
  /\ IsConfig(cfg, Stored)
  /\ file # NoFile => IsFile(file)
  /\ unresolved \subseteq Homes /\ last \in Outcomes
  /\ typed \in 0..MaxTyped /\ saves \in 0..MaxSaves

----------------------------------------------------------------------------
(* Forms *)

\* Python's "a or b" for strings
Or(a, b) == IF a # Blank THEN a ELSE b

\* The field at position w of the form, beside that URL if it has one, is where the
\* person types, if at = w
Nowhere == 0
TechField == -1
LldpField == -2
TokenField == -3
Typed(at, w, home, url) ==
  IF at = w THEN [home |-> home, url |-> url, n |-> typed + 1] ELSE Blank

\* Secrets stored for a key: a form takes the last row of that key, an import
\* (_counterpart) the first
Matches(rows, k) == {i \in DOMAIN rows : rows[i].key = k}
TheSecret(rows, I) == IF I = {} THEN Blank ELSE rows[CHOOSE i \in I : TRUE].secret
LastOf(rows, k) ==
  TheSecret(rows, {i \in Matches(rows, k) : \A j \in Matches(rows, k) : j <= i})
FirstOf(rows, k) ==
  TheSecret(rows, {i \in Matches(rows, k) : \A j \in Matches(rows, k) : i <= j})

\* mutant: a blank field keeps the secret of the row at its position
FormRows_byIndex(keys, homes, at, stored) ==
  [i \in DOMAIN keys |-> [key |-> keys[i],
     secret |-> Or(Typed(at, i, homes[keys[i]], NoServer),
                   IF i \in DOMAIN stored THEN stored[i].secret ELSE Blank)]]

\* The repeating rows of a form: a blank secret keeps that of the same key
FormRows(keys, homes, at, stored) ==
  [i \in DOMAIN keys |-> [key |-> keys[i],
     secret |-> Or(Typed(at, i, homes[keys[i]], NoServer), LastOf(stored, keys[i]))]]

\* A site without secrets, for a form or an import that has no counterpart
NoSecrets == [url |-> NoServer, tech |-> NoServer, lldp |-> Blank, px |-> <<>>]
SiteAt(c, i) == IF i \in DOMAIN c.sites THEN c.sites[i] ELSE NoSecrets

\* _site_from_form, for a site that will have this id
SiteFromForm(id, existing, name, server, hosts, at) ==
  [name |-> name, url |-> server,
   tech |-> IF server = NoServer THEN NoServer
            ELSE Or(Typed(at, TechField, <<"tech", id>>, server),
                    IF existing.tech = NoServer THEN Blank ELSE existing.tech),
   lldp |-> Or(Typed(at, LldpField, <<"lldp", id>>, NoServer), existing.lldp),
   px |-> FormRows(hosts, [h \in Hosts |-> <<"px", id, h>>], at, existing.px)]

\* One form is submitted, with a secret typed at that position
Submit(at) ==
  /\ saves < MaxSaves /\ saves' = saves + 1
  /\ typed < MaxTyped \/ at = Nowhere
  /\ typed' = IF at = Nowhere THEN typed ELSE typed + 1
  /\ UNCHANGED file
  /\ unresolved' = {}

\* site_save, from the form of a new site or from one opened for a site that may
\* be gone.  What follows the name decides the id only when there is no site; the
\* site of that id is dropped from the list before the list is asked for it
\* (app.py:374-377), so the refusal is unreachable and not an action.
SaveSite(target, name, server, hosts, at) ==
  LET exists == target \in DOMAIN cfg.sites
      id == IF exists THEN target ELSE Slug[name]
      others == DOMAIN cfg.sites \ {id, target}
      site == SiteFromForm(id, IF exists THEN cfg.sites[target] ELSE NoSecrets,
                           name, server, hosts, at)
  IN /\ at \in {Nowhere, LldpField} \cup DOMAIN hosts
           \cup (IF server = NoServer THEN {} ELSE {TechField})
     /\ Submit(at)
     /\ cfg' = [cfg EXCEPT !.sites = [i \in others \cup {id} |->
                                        IF i = id THEN site ELSE cfg.sites[i]]]
     /\ last' = IF exists THEN "edited" ELSE "created"

\* site_delete
DeleteSite(i) ==
  /\ Submit(Nowhere)
  /\ cfg' = [cfg EXCEPT !.sites = [j \in DOMAIN cfg.sites \ {i} |-> cfg.sites[j]]]
  /\ last' = "deleted"

\* settings_submit: NetBox and the credential profiles
SaveSettings(url, profiles, at) ==
  /\ at \in {Nowhere, TokenField} \cup DOMAIN profiles
  /\ Submit(at)
  /\ cfg' = [cfg EXCEPT !.url = url,
                        !.token = Or(Typed(at, TokenField, <<"netbox">>, url), cfg.token),
                        !.creds = FormRows(profiles, [p \in Profiles |-> <<"cred", p>>],
                                           at, cfg.creds)]
  /\ last' = "settings"

----------------------------------------------------------------------------
(* Exports *)

\* redact's hide: an empty value stays empty
Hidden(s) == IF s \in {Blank, NoServer} THEN s ELSE Redacted
HiddenRows(rows) == [i \in DOMAIN rows |-> [rows[i] EXCEPT !.secret = Hidden(@)]]

\* mutant: a path is missing from SECRET_PATHS
HiddenSite_noLldp(s) == [s EXCEPT !.tech = Hidden(@), !.px = HiddenRows(@)]

HiddenSite(s) == [s EXCEPT !.tech = Hidden(@), !.lldp = Hidden(@), !.px = HiddenRows(@)]
Redact(c) == [sites |-> [i \in DOMAIN c.sites |-> HiddenSite(c.sites[i])],
              url |-> c.url, token |-> Hidden(c.token), creds |-> HiddenRows(c.creds)]

\* export_config, in either mode; an encrypted file is one that has the secrets
FileOf(c, redacted) == [schema |-> Schema, redacted |-> redacted,
                        config |-> IF redacted THEN Redact(c) ELSE c, of |-> c]

\* backup_export
Export(redacted) ==
  /\ file' = FileOf(cfg, redacted)
  /\ last' = "exported" /\ unresolved' = {}
  /\ UNCHANGED <<cfg, typed, saves>>

----------------------------------------------------------------------------
(* Imports *)

\* migrate_legacy: the flat configuration becomes one site, if it has a key of one
Migrate(raw) ==
  [sites |-> IF ~raw.keys THEN <<>>
             ELSE [i \in {Slug[raw.name]} |->
                     [name |-> raw.name, url |-> raw.server, tech |-> raw.tech,
                      lldp |-> Blank, px |-> raw.px]],
   url |-> raw.url, token |-> raw.token, creds |-> raw.creds]

\* mutant: a sentinel without a counterpart is left alone
Resolve_leaves(s, own) == IF s # Redacted \/ own \in {Blank, NoServer} THEN s ELSE own

\* A leaf of merge_redacted: the importing instance's value, blank if it has none
Resolve(s, own) == IF s # Redacted THEN s
                   ELSE IF own = NoServer THEN Blank ELSE own

\* mutant: rows are lined up by position
MergeRows_byIndex(rows, own) ==
  [i \in DOMAIN rows |-> [rows[i] EXCEPT
     !.secret = Resolve(@, IF i \in DOMAIN own THEN own[i].secret ELSE Blank)]]

MergeRows(rows, own) ==
  [i \in DOMAIN rows |-> [rows[i] EXCEPT !.secret = Resolve(@, FirstOf(own, rows[i].key))]]
MergeSite(s, own) == [s EXCEPT !.tech = Resolve(@, own.tech),
                               !.lldp = Resolve(@, own.lldp),
                               !.px = MergeRows(@, own.px)]

\* merge_redacted
Merge(raw, own) ==
  [sites |-> [i \in DOMAIN raw.sites |-> MergeSite(raw.sites[i], SiteAt(own, i))],
   url |-> raw.url, token |-> Resolve(raw.token, own.token),
   creds |-> MergeRows(raw.creds, own.creds)]

\* mutant: only an entry without counterpart is reported, not one without secret
BlankedRows_unknown(rows, own) ==
  {rows[i].key : i \in {j \in DOMAIN rows :
     rows[j].secret = Redacted /\ Matches(own, rows[j].key) = {}}}

\* The keys and, below, the paths that merge_redacted reports
BlankedRows(rows, own) ==
  {rows[i].key : i \in {j \in DOMAIN rows :
     rows[j].secret = Redacted /\ FirstOf(own, rows[j].key) = Blank}}
IsBlanked(s, own) == s = Redacted /\ own \in {Blank, NoServer}
BlankedSite(i, s, own) ==
  {home \in {<<"tech", i>>} : IsBlanked(s.tech, own.tech)}
    \cup {home \in {<<"lldp", i>>} : IsBlanked(s.lldp, own.lldp)}
    \cup {<<"px", i, h>> : h \in BlankedRows(s.px, own.px)}
Blanked(raw, own) ==
  {home \in {<<"netbox">>} : IsBlanked(raw.token, own.token)}
    \cup {<<"cred", p>> : p \in BlankedRows(raw.creds, own.creds)}
    \cup UNION {BlankedSite(i, raw.sites[i], SiteAt(own, i)) : i \in DOMAIN raw.sites}

\* migrate_to_current
Migrated(f) == IF f.schema < Schema THEN Migrate(f.config) ELSE f.config

\* import_config: migrate, then merge (in this order, because the paths of the
\* secrets are those of the current schema); the checks on the envelope are Refuse
ImportConfig(f, own) ==
  [config |-> Merge(Migrated(f), own), unresolved |-> Blanked(Migrated(f), own)]

\* backup_import
Import ==
  /\ file # NoFile /\ file.schema <= Schema
  /\ LET result == ImportConfig(file, cfg)
     IN cfg' = result.config /\ unresolved' = result.unresolved
  /\ last' = "imported"
  /\ UNCHANGED <<file, typed, saves>>

\* A newer schema, a wrong passphrase, a missing confirmation, a form that does
\* not parse: the handler answers with the reason
Refuse ==
  /\ last' = "refused" /\ unresolved' = {}
  /\ UNCHANGED <<cfg, file, typed, saves>>

----------------------------------------------------------------------------
\* A configuration that people typed, and a file made from such a one: of this
\* instance or another, or flat, or of a schema to come
Init ==
  /\ IsConfig(cfg, Stored) /\ AtHome(cfg) /\ \A t \in Tokens(cfg) : ~Foreign(t)
  /\ file # NoFile =>
       /\ IsFile(file) /\ AtHome(file.of)
       /\ IF file.schema = 1
          THEN file.of = Migrate(file.config) /\ ~file.redacted
          ELSE file.config = IF file.redacted THEN Redact(file.of) ELSE file.of
  /\ unresolved = {} /\ last = "none" /\ typed = 0 /\ saves = 0

Next ==
  \/ \E target \in Ids \cup {New}, name \in Names, server \in Urls \cup {NoServer},
        hosts \in HostRows :
       \E at \in {Nowhere, TechField, LldpField} \cup DOMAIN hosts :
         SaveSite(target, name, server, hosts, at)
  \/ \E i \in Ids : DeleteSite(i)
  \/ \E url \in Urls, profiles \in ProfileRows :
       \E at \in {Nowhere, TokenField} \cup DOMAIN profiles : SaveSettings(url, profiles, at)
  \/ \E redacted \in BOOLEAN : Export(redacted)
  \/ Import
  \/ Refuse

Spec == Init /\ [][Next]_vars

----------------------------------------------------------------------------
(* Properties *)

\* No secret ever sits at a place it was not typed for: no form with reordered,
\* removed or repeated rows and no import, of whatever order and from whatever
\* instance, gives one host's or one profile's secret to another.  Beside a URL that
\* it was not typed for a token stands only after the URL was changed over it where
\* it was: by a form that left it blank or a redacted file that has another URL; or
\* where a file that has its secrets has them so.
SecretsStayHome ==
  [][/\ AtHome(cfg')
     /\ \A t \in Tokens(cfg') : Foreign(t) =>
          \/ t \in Tokens(cfg)
          \/ last' = "imported" /\ ~file.redacted /\ t \in Tokens(file.of)
          \/ /\ last' \in {"edited", "settings"} \/ (last' = "imported" /\ file.redacted)
             /\ \E u \in Tokens(cfg) : u.at = t.at /\ u.secret = t.secret]_vars

RowSecrets(rows) == {rows[i].secret : i \in DOMAIN rows}
Secrets(c) ==
  ({c.token} \cup RowSecrets(c.creds)
     \cup UNION {{c.sites[i].tech, c.sites[i].lldp} \cup RowSecrets(c.sites[i].px) :
                   i \in DOMAIN c.sites}) \ {Blank, Redacted, NoServer}

\* A secret comes into force only by being typed just now or from a file exported
\* with its secrets: no blank field, no deleted and recreated site and no redacted
\* file brings back one that has been replaced or removed.
TypedOrRestored ==
  [][\A s \in Secrets(cfg') \ Secrets(cfg) :
       \/ s.n > typed
       \/ last' = "imported" /\ ~file.redacted /\ s \in Secrets(file.of)]_vars

Lost(s, t) == s \notin {Blank, NoServer} /\ t = Blank
LostRows(old, new) == {old[i].key : i \in {j \in DOMAIN old : Lost(old[j].secret, new[j].secret)}}

\* What an import loses it reports: a secret that the exported configuration had
\* and the imported one lacks is among those shown to the person.
LostIsReported ==
  [][last' = "imported" =>
       LET from == file.of
       IN /\ Lost(from.token, cfg'.token) => <<"netbox">> \in unresolved'
          /\ \A p \in LostRows(from.creds, cfg'.creds) : <<"cred", p>> \in unresolved'
          /\ \A i \in DOMAIN from.sites :
               /\ Lost(from.sites[i].tech, cfg'.sites[i].tech) => <<"tech", i>> \in unresolved'
               /\ Lost(from.sites[i].lldp, cfg'.sites[i].lldp) => <<"lldp", i>> \in unresolved'
               /\ \A h \in LostRows(from.sites[i].px, cfg'.sites[i].px) :
                    <<"px", i, h>> \in unresolved']_vars

\* An edit loses no secret of anything that stays, in whatever tab and order its
\* rows come: each is the same as before or has been typed just now.  (Of two rows
\* with the same key only one secret can be kept.)
Kept(s, t) == s \in {Blank, NoServer} \/ t \in {s, NoServer} \/ (t # Blank /\ t.n > typed)
RowsKept(old, new) ==
  \A i \in DOMAIN old : \A j \in Matches(new, old[i].key) :
    Matches(old, old[i].key) = {i} => Kept(old[i].secret, new[j].secret)
EditsKeepSecrets ==
  [][last' \in {"edited", "settings"} =>
       /\ Kept(cfg.token, cfg'.token) /\ RowsKept(cfg.creds, cfg'.creds)
       /\ \A i \in DOMAIN cfg.sites :
            /\ i \in DOMAIN cfg'.sites
            /\ Kept(cfg.sites[i].tech, cfg'.sites[i].tech)
            /\ Kept(cfg.sites[i].lldp, cfg'.sites[i].lldp)
            /\ RowsKept(cfg.sites[i].px, cfg'.sites[i].px)]_vars

\* A new site replaces none: "site id ... already exists" (app.py:376).
NewSiteReplacesNone ==
  [][last' = "created" =>
       \A i \in DOMAIN cfg.sites : i \in DOMAIN cfg'.sites /\ cfg'.sites[i] = cfg.sites[i]]_vars
=============================================================================
