------------------------------ MODULE MCOffice ------------------------------
(***************************************************************************)
(* The back office in one run: components that share no column with one    *)
(* another. `focus` is the one that is open for business; the others are   *)
(* parked and keep one value, so the states are the sum of the components' *)
(* states, not their product. A component is parked in an initial state of *)
(* its own.                                                                *)
(***************************************************************************)
EXTENDS ReplyOutbound, ReplyComposer, Subscriptions, CustomerChannels, CustomerDirectory,
        ImportDesk, WorkbookRow, Catalogue, AiSettings, MailSettings, IntegrationHealth, TLC

CONSTANTS
    Operators                               \* whoever sits at a page or records

VARIABLE focus

ASSUME
    /\ ComposerAssumption /\ SubscriptionsAssumption
    /\ ChannelsAssumption /\ DirectoryAssumption /\ ImportDeskAssumption
    /\ WorkbookAssumption /\ CatalogueAssumption
    /\ AiSettingsAssumption /\ MailSettingsAssumption /\ IntegrationHealthAssumption

-----------------------------------------------------------------------------
(* The lines of the workbook: one that says everything once, and those     *)
(* that differ from it in what they say of the service, in their dates and *)
(* term, or in their prices and the rest; and canonical ones.              *)

Whole ==
    [form |-> "raw", named |-> {"company", "email", "billing"}, registration |-> None,
     label |-> "HOSTING_PREMIUM", text |-> {}, start |-> <<2024, 3, 1>>,
     end |-> <<2025, 2, 28>>, term |-> [count |-> 1, unit |-> "year"],
     original |-> [amount |-> 1, currency |-> "SAR"], jod |-> 0, usd |-> 0,
     price |-> NoPrice, ready |-> TRUE, offered |-> {"type", "package", "entity"}, alike |-> {}]

Namesakes ==
    {[entity |-> "own", shares |-> {"domain"}], [entity |-> "other", shares |-> {"name", "email"}]}

Canonical(l) ==
    [l EXCEPT !.form = "canonical", !.original = NoPrice,
              !.price = [amount |-> 1, currency |-> "SAR"]]

Worded ==
    LET said == ({"type"} \X {"SSL", "Hosting", "DNS Hosting", "Domain"}) \union
                ({"note"} \X Notes) \union ({"os"} \X {"linux", "windows"}) \union
                {<<"web", 30>>, <<"mail", 40>>, <<"transfer", 500>>, <<"ram", 4>>}
    IN {[Whole EXCEPT !.text = {a, b}, !.registration = r, !.label = c] :
            a, b \in said, r \in {None, "SSL", "Hosting"},
            c \in {"HOSTING_PREMIUM", "DEDICATED_LINUX_4X", "SSL_SINGLE", "SSL_WILDCARD",
                   "custom", None}}

Dated ==
    {[Whole EXCEPT !.start = s, !.end = e, !.term = t] :
        s \in {<<2024, 1, 29>>, <<2024, 1, 31>>, <<2024, 2, 29>>, <<2024, 3, 1>>,
               <<2025, 3, 1>>, NoDate},
        e \in {<<2024, 2, 28>>, <<2024, 2, 29>>, <<2025, 1, 30>>, <<2025, 2, 28>>, NoDate},
        t \in {[count |-> 1, unit |-> "month"], [count |-> 0, unit |-> "annual"],
               [count |-> 0, unit |-> "unclear"]}}

Priced ==
    LET amounts == {[amount |-> a, currency |-> c] : a \in {0, 1}, c \in {None, "SAR"}}
    IN {[Whole EXCEPT !.named = @ \ n, !.original = o, !.jod = j, !.usd = u, !.price = p,
                      !.alike = k, !.offered = f] :
            n \in {{}, {"email"}}, o \in amounts, j \in {0, 2}, u \in {0, 3},
            p \in {NoPrice, [amount |-> 4, currency |-> "SAR"]}, k \in {{}, Namesakes},
            f \in {{"type", "package", "entity"}, {"type"}}}
       \union
       {[Canonical(Whole) EXCEPT !.price = p, !.ready = r, !.alike = k, !.offered = f] :
            p \in amounts, r \in BOOLEAN, k \in SUBSET Namesakes,
            f \in SUBSET {"type", "package", "entity"}}

MCLines == Worded \union Dated \union Priced \union {Canonical(l) : l \in Worded \union Dated}

-----------------------------------------------------------------------------
(* What may be entered in the catalogue: a rate of one date and another,   *)
(* packages with specifications and without, subscriptions with a package  *)
(* and without.                                                            *)

MCQuotes ==
    {[rate |-> 1, date |-> 1, active |-> TRUE], [rate |-> 2, date |-> 2, active |-> TRUE],
     [rate |-> 2, date |-> 1, active |-> FALSE]}

MCVersions ==
    {[type |-> "hosting", name |-> 1, kind |-> "STANDARD", spec |-> 1, terms |-> 1,
      active |-> TRUE],
     [type |-> "hosting", name |-> 2, kind |-> "CUSTOM_TEMPLATE", spec |-> 0, terms |-> 2,
      active |-> TRUE]}

MCDeals ==
    {[currency |-> "JOD", price |-> a, type |-> "hosting", package |-> Unset] : a \in {1, 2}}
    \union
    {[currency |-> "SAR", price |-> 1, type |-> "hosting", package |-> Unset],
     [currency |-> "SAR", price |-> 2, type |-> "hosting", package |-> "mail"],
     [currency |-> "JOD", price |-> 2, type |-> "hosting", package |-> "web"]}

-----------------------------------------------------------------------------
InSales == focus = "subscriptions"
InContact == focus = "channels"
InAi == focus = "ai"
InImport == focus = "import"
InWorkbook == focus = "workbook"
InRates == focus = "rates"
InPackages == focus = "packages"

Init ==
    /\ focus \in {"replies", "composer", "subscriptions", "channels", "directory",
                  "import", "workbook", "rates", "packages", "ai", "mail", "health"}
    /\ WorkbookInit /\ (InWorkbook \/ line = Whole)
    /\ ReplyInit
    /\ office.contact = CHOOSE a \in Addresses : TRUE
    /\ ComposerInit
    /\ SubsInit /\ (InSales \/ \A s \in Subs : subs[s].interval = 0)
    /\ ChannelsInit /\ (InContact \/ (kind = "email" /\ scalar = 0))
    /\ DirectoryInit
    /\ ImportDeskInit
    /\ CatalogueInit /\ (InRates \/ InPackages \/ \A s \in Sold : agreed[s] = NoSale)
    /\ InImport \/ (form = "legacy" /\ \A r \in Rows : staged[r].dates = Missing)
    /\ AiSettingsInit /\ (InAi \/ ai = NoAiRow)
    /\ MailSettingsInit
    /\ HealthInit

Next ==
    /\ UNCHANGED focus
    /\ IF focus = "replies" THEN ReplyNext ELSE UNCHANGED replyVars
    /\ IF focus = "composer" THEN ComposerNext ELSE UNCHANGED composerVars
    /\ IF InSales THEN SubsNext ELSE UNCHANGED subsVars
    /\ IF InContact THEN ChannelsNext ELSE UNCHANGED channelVars
    /\ IF focus = "directory" THEN DirectoryNext ELSE UNCHANGED directoryVars
    /\ IF InImport THEN ImportDeskNext ELSE UNCHANGED importDeskVars
    /\ IF InWorkbook THEN WorkbookNext ELSE UNCHANGED workbookVars
    /\ IF InRates \/ InPackages THEN CatalogueNext ELSE UNCHANGED catalogueVars
    /\ InRates => UNCHANGED packageVars
    /\ InPackages => UNCHANGED moneyVars
    /\ IF InAi THEN AiSettingsNext ELSE UNCHANGED aiVars
    /\ IF focus = "mail" THEN MailSettingsNext ELSE UNCHANGED mailSettingsVars
    /\ IF focus = "health" THEN HealthNext ELSE UNCHANGED healthVars

vars == <<focus, replyVars, composerVars, subsVars, channelVars, directoryVars,
          importDeskVars, workbookVars, catalogueVars, aiVars, mailSettingsVars, healthVars>>

Spec == Init /\ [][Next]_vars

ShortBackoff == [n \in 1..MaxTries |-> n + 1]
Symmetric == Permutations(Operators) \union Permutations(Customers)

=============================================================================
