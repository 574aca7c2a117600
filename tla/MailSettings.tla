---------------------------- MODULE MailSettings ----------------------------
(***************************************************************************)
(* One row of MailConfiguration: MailSettingsService, which reads the row  *)
(* before the transaction it writes in, and the form of the e-mail tab,    *)
(* which sends back most of a copy of the row. Credentials go into one     *)
(* encrypted envelope, of a password or of a registered application.       *)
(***************************************************************************)
EXTENDS Naturals

CONSTANTS
    Accounts,     \* mailbox addresses, each with credentials of its own
    Absent,       \* no credentials
    Managers,     \* administrators, each with the e-mail tab open
    MaxChanges    \* bound on the requests sent

MailSettingsAssumption ==
    /\ Accounts # {}            \* the row has an address
    /\ Absent \notin Accounts
    /\ MaxChanges \in Nat

VARIABLES
    config,    \* the row
    pane,      \* administrator -> the form and the request in flight
    changes    \* requests sent so far

mailSettingsVars == <<config, pane, changes>>

-----------------------------------------------------------------------------
(* State                                                                   *)

Maybe(S) == S \union {Absent}

(* Parts are told apart by the account they were issued for: a password is *)
(* a `secret` alone, an application has an id (`app`) and a secret.        *)
Credentials == [mode : {"BASIC", "MICROSOFT_OAUTH2"}, app : Maybe(Accounts), secret : Maybe(Accounts)]
Cleared == [mode |-> "BASIC", app |-> Absent, secret |-> Absent]

Config == [on : BOOLEAN, account : Accounts, creds : Credentials]

(* `copy` is the row the form was opened on, `old` the row the server read *)
(* before its transaction; `app` and `secret` say what was typed.          *)
Pane ==
    [at : {"list", "form", "sent", "write"}, copy : Config, old : Config,
     on : BOOLEAN, account : Accounts, mode : {"BASIC", "MICROSOFT_OAUTH2"},
     app : BOOLEAN, secret : BOOLEAN, clear : BOOLEAN]

MailSettingsTypeOK ==
    /\ config \in Config
    /\ pane \in [Managers -> Pane]
    /\ changes \in 0..MaxChanges

Configured(row) == row.creds.secret # Absent

Viewing(row) ==
    [at |-> "list", copy |-> row, old |-> row, on |-> FALSE, account |-> row.account,
     mode |-> "BASIC", app |-> FALSE, secret |-> FALSE, clear |-> FALSE]

(* As it was created: with a password, sending still off.                  *)
MailSettingsInit ==
    /\ config = [on |-> FALSE, account |-> CHOOSE a \in Accounts : TRUE,
                 creds |-> [mode |-> "BASIC", app |-> Absent,
                            secret |-> CHOOSE a \in Accounts : TRUE]]
    /\ pane = [m \in Managers |-> Viewing(config)]
    /\ changes = 0

-----------------------------------------------------------------------------
(* The e-mail tab                                                          *)

Put(m, p) == pane' = [pane EXCEPT ![m] = p]

ReloadList(m) ==
    /\ pane[m].at = "list" /\ pane[m].copy # config
    /\ Put(m, Viewing(config))
    /\ UNCHANGED <<config, changes>>

(* The form with everything the operator leaves or changes in it.          *)
SubmitMail(m) ==
    /\ pane[m].at = "list" /\ changes < MaxChanges
    /\ changes' = changes + 1
    /\ \E on \in BOOLEAN, a \in Accounts, o \in {"BASIC", "MICROSOFT_OAUTH2"},
          p, s, c \in BOOLEAN :
         /\ o = "BASIC" => ~p
         /\ c => Configured(pane[m].copy)
         /\ Put(m, [pane[m] EXCEPT !.at = "sent", !.on = on, !.account = a, !.mode = o,
                      !.app = p, !.secret = s, !.clear = c])
    /\ UNCHANGED config

-----------------------------------------------------------------------------
(* MailSettingsService.update                                              *)

Types(p) == p.app \/ p.secret

(* A new mode takes all of its credentials in the same request.            *)
Mergeable(p) ==
    IF p.mode = "BASIC" THEN p.secret \/ (p.old.creds.mode = "BASIC" /\ ~Types(p))
    ELSE \/ p.app /\ p.secret
         \/ p.old.creds.mode = "MICROSOFT_OAUTH2"

\* Faulty: the envelope is encrypted again at every save.
MergedAlways(p, stored) ==
    IF p.clear THEN Cleared
    ELSE [mode |-> p.mode,
          app |-> IF p.mode = "BASIC" THEN Absent ELSE IF p.app THEN p.account ELSE p.old.creds.app,
          secret |-> IF p.secret THEN p.account ELSE p.old.creds.secret]

(* What was not typed is kept; with nothing typed, nothing is written.     *)
Merged(p, stored) ==
    IF p.clear THEN Cleared
    ELSE IF ~Types(p) THEN stored
    ELSE [mode |-> p.mode,
          app |-> IF p.mode = "BASIC" THEN Absent ELSE IF p.app THEN p.account ELSE p.old.creds.app,
          secret |-> IF p.secret THEN p.account ELSE p.old.creds.secret]

(* 400: the page keeps the copy it has.                                    *)
RefuseMail(m) ==
    /\ Put(m, Viewing(pane[m].copy))
    /\ UNCHANGED <<config, changes>>

ReadConfig(m) ==
    /\ pane[m].at = "sent"
    /\ LET p == [pane[m] EXCEPT !.at = "write", !.old = config]
       IN  IF ~(Types(p) /\ p.clear) /\ (p.clear \/ Mergeable(p))
           THEN Put(m, p) /\ UNCHANGED <<config, changes>>
           ELSE RefuseMail(m)

WriteConfig(m) ==
    LET p == pane[m]
    IN  /\ p.at = "write"
        /\ config' = [on |-> p.on, account |-> p.account,
                      creds |-> Merged(p, config.creds)]
        /\ Put(m, Viewing(config'))
        /\ UNCHANGED changes

MailSettingsNext ==
    \E m \in Managers : ReloadList(m) \/ SubmitMail(m) \/ ReadConfig(m) \/ WriteConfig(m)

MailSettingsSpec == MailSettingsInit /\ [][MailSettingsNext]_mailSettingsVars

-----------------------------------------------------------------------------
(* Properties                                                              *)

\* CREDENTIALS WHOLE: whatever parts are typed, left out or cleared, and by
\* saves that overlap, the stored credentials are all there or not at all.
CredentialsWhole ==
    LET c == config.creds
    IN  IF c.mode = "BASIC" THEN c.app = Absent ELSE c.app # Absent /\ c.secret # Absent

\* CLEARED STAYS CLEARED: credentials that were cleared come back only by a
\* save in which someone typed some, never by a form that was open or under
\* way without any. Parts that were typed are another matter: the others are
\* merged from the envelope the save read, be it cleared since.
ClearedStep ==
    (~Configured(config) /\ config'.creds.secret # Absent)
        => \E m \in Managers : pane[m].at = "write" /\ Types(pane[m])

\* CREDENTIALS KEPT: both.
CredentialsKept == []CredentialsWhole /\ [][ClearedStep]_config
=============================================================================
