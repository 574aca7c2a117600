----------------------------- MODULE Catalogue ------------------------------
(***************************************************************************)
(* What the office sells and at which rate: currencies with their rate to  *)
(* JOD, service types, packages, and the subscriptions that keep a copy of *)
(* both, taken when they are saved. Everyone works in a form that was      *)
(* filled from a row as it once was; a save reads what it needs, one query *)
(* after another, and writes later.                                        *)
(*                                                                         *)
(* A form that was opened from an old list is one that has been open since *)
(* that list was loaded. A save that is refused leaves its form open and   *)
(* changes nothing.                                                        *)
(***************************************************************************)
EXTENDS Integers

CONSTANTS
    Sellers,    \* whoever has a form open
    Codes,      \* currencies
    Jod,        \* the one every rate is in
    Quotes,     \* what may be entered for a currency
    Services,   \* service types
    Offers,     \* packages
    Versions,   \* what may be entered for a package
    Sold,       \* subscriptions
    Deals,      \* what may be entered for a subscription
    MaxEdits    \* saves

VARIABLES
    currencies, \* the rows of the currencies
    active,     \* whether a service type is
    packages,   \* the rows of the packages
    agreed,     \* the rows of the subscriptions
    seller,     \* the forms, and what their saves have read
    quoted,     \* every rate that was entered, with its currency and date
    published,  \* every package that was entered
    edits       \* saves so far

moneyVars == <<currencies, quoted>>
packageVars == <<active, packages, published>>
catalogueVars == <<moneyVars, packageVars, agreed, seller, edits>>

-----------------------------------------------------------------------------
(* Rows. A rate of 0 is none: the currency is not there. A specification   *)
(* of 0 is an empty column.                                                *)

Unset == "-"

Quote == [rate : Nat, date : Nat, active : BOOLEAN]
NoQuote == [rate |-> 0, date |-> 0, active |-> FALSE]

Version == [type : Services, name : Nat, kind : {"STANDARD", "CUSTOM_TEMPLATE"}, spec : Nat,
          terms : Nat, active : BOOLEAN]
NoVersion == [type |-> Unset, name |-> 0, kind |-> "STANDARD", spec |-> 0, terms |-> 0,
            active |-> FALSE]

Deal == [currency : Codes, price : Nat \ {0}, type : Services, package : Offers \union {Unset}]
NoDeal == [currency |-> Unset, price |-> 0, type |-> Unset, package |-> Unset]

Sale == [currency : Codes \union {Unset}, price : Nat, rate : Nat, date : Nat, jod : Nat,
         type : Services \union {Unset}, package : Offers \union {Unset}, name : Nat,
         custom : BOOLEAN, spec : Nat]
NoSale == [currency |-> Unset, price |-> 0, rate |-> 0, date |-> 0, jod |-> 0,
           type |-> Unset, package |-> Unset, name |-> 0, custom |-> FALSE, spec |-> 0]

Closed == [form |-> "closed"]

CatalogueAssumption ==
    /\ Jod \in Codes /\ Unset \notin Codes \union Offers
    /\ Quotes \subseteq Quote /\ Versions \subseteq Version /\ Deals \subseteq Deal
    /\ MaxEdits \in Nat

(* A subscription in JOD from before there were rates.                     *)
Migrated(t) ==
    [NoSale EXCEPT !.currency = Jod, !.price = 1, !.rate = 1, !.date = 1, !.jod = 1, !.type = t]

(* The migration leaves JOD, at 1, and prices what was sold in it; the rest *)
(* is entered.                                                             *)
CatalogueInit ==
    /\ currencies = [c \in Codes |-> IF c = Jod THEN [rate |-> 1, date |-> 1, active |-> TRUE]
                                     ELSE NoQuote]
    /\ quoted = {[code |-> Jod, rate |-> 1, date |-> 1]}
    /\ active = [t \in Services |-> TRUE]
    /\ packages = [p \in Offers |-> NoVersion]
    /\ published = {}
    /\ agreed \in [Sold -> {NoSale} \union {Migrated(t) : t \in Services}]
    /\ seller = [e \in Sellers |-> Closed]
    /\ edits = 0

-----------------------------------------------------------------------------
(* Forms                                                                   *)

Holds(e, form, at) == seller[e] # Closed /\ seller[e].form = form /\ seller[e].at = at

Opens(e, form, id, new) ==
    /\ seller[e] = Closed /\ edits < MaxEdits
    /\ seller' = [seller EXCEPT ![e] = [form |-> form, at |-> "form", id |-> id, new |-> new]]
    /\ UNCHANGED <<moneyVars, packageVars, agreed, edits>>

Cancel(e) ==
    /\ seller[e] # Closed /\ seller[e].at = "form"
    /\ seller' = [seller EXCEPT ![e] = Closed]
    /\ UNCHANGED <<moneyVars, packageVars, agreed, edits>>

(* What a save has read and will write.                                    *)
Carries(e, at, data) ==
    seller' = [seller EXCEPT ![e] =
        [form |-> @.form, at |-> at, id |-> @.id, new |-> @.new, data |-> data]]

BackToForm(e) ==
    seller' = [seller EXCEPT ![e] =
        [form |-> @.form, at |-> "form", id |-> @.id, new |-> @.new]]

Done(e) == seller' = [seller EXCEPT ![e] = Closed]

-----------------------------------------------------------------------------
(* Currencies                                                              *)

OpenCurrency(e, c) == Opens(e, "currency", c, currencies[c] = NoQuote)

(* A rate comes with its date, and JOD stays what it is.                   *)
Quotable(c, q) == q.rate # 0 /\ q.date # 0 /\ (c = Jod => q.rate = 1 /\ q.active)

(* The form sends every field, changed or not, so that nothing is taken    *)
(* from the row as it was read.                                            *)
EnterCurrency(e, q) ==
    /\ Holds(e, "currency", "form") /\ edits < MaxEdits
    /\ Quotable(seller[e].id, q)
    /\ Carries(e, "read", q)
    /\ quoted' = quoted \union {[code |-> seller[e].id, rate |-> q.rate, date |-> q.date]}
    /\ edits' = edits + 1
    /\ UNCHANGED <<currencies, packageVars, agreed>>

(* A code that has come to be there is not created again.                  *)
WriteCurrency(e) ==
    /\ Holds(e, "currency", "read")
    /\ IF seller[e].new /\ currencies[seller[e].id] # NoQuote
       THEN BackToForm(e) /\ UNCHANGED currencies
       ELSE /\ currencies' = [currencies EXCEPT ![seller[e].id] = seller[e].data]
            /\ Done(e)
    /\ UNCHANGED <<quoted, packageVars, agreed, edits>>

-----------------------------------------------------------------------------
(* Service types and packages                                              *)

SwitchType(t) ==
    /\ edits < MaxEdits
    /\ active' = [active EXCEPT ![t] = ~@]
    /\ edits' = edits + 1
    /\ UNCHANGED <<moneyVars, packages, published, agreed, seller>>

OpenPackage(e, p) == Opens(e, "package", p, packages[p] = NoVersion)

EnterPackage(e, n) ==
    /\ Holds(e, "package", "form") /\ edits < MaxEdits
    /\ active[n.type]
    /\ seller[e].new => n.active
    /\ Carries(e, "read", n)
    /\ published' = published \union {[offer |-> seller[e].id, name |-> n.name,
                                       kind |-> n.kind, spec |-> n.spec, terms |-> n.terms]}
    /\ edits' = edits + 1
    /\ UNCHANGED <<moneyVars, active, packages, agreed>>

(* An empty specification leaves the column as it is; the terms are        *)
(* replaced.                                                               *)
Republished(row, n) == [n EXCEPT !.spec = IF @ = 0 THEN row.spec ELSE @]

WritePackage(e) ==
    /\ Holds(e, "package", "read")
    /\ LET p == seller[e].id
       IN IF seller[e].new /\ packages[p] # NoVersion
          THEN BackToForm(e) /\ UNCHANGED packages
          ELSE /\ packages' = [packages EXCEPT ![p] = Republished(@, seller[e].data)]
               /\ Done(e)
    /\ UNCHANGED <<moneyVars, active, published, agreed, edits>>

-----------------------------------------------------------------------------
(* Subscriptions: a save reads the row, then the parents, then the         *)
(* currency, each in a query of its own.                                   *)

OpenNewSale(e) == Opens(e, "sale", Unset, TRUE)

OpenSale(e, s) == agreed[s] # NoSale /\ Opens(e, "sale", s, FALSE)

(* The form sends amount, currency and service type whether changed or     *)
(* not, a package only when one is chosen.                                 *)
EnterSale(e, d) ==
    /\ Holds(e, "sale", "form") /\ edits < MaxEdits
    /\ Carries(e, "found",
           [deal |-> d, old |-> IF seller[e].new THEN NoSale ELSE agreed[seller[e].id]])
    /\ edits' = edits + 1
    /\ UNCHANGED <<moneyVars, packageVars, agreed>>

(* The package a save is about: the one it names, else the row's.          *)
Considered(d) == IF d.deal.package # Unset THEN d.deal.package ELSE d.old.package

Sellable(d) ==
    /\ active[d.deal.type]
    /\ Considered(d) # Unset =>
           packages[Considered(d)].active /\ packages[Considered(d)].type = d.deal.type

RequireParents(e) ==
    /\ Holds(e, "sale", "found")
    /\ LET d == seller[e].data
       IN IF Sellable(d)
          THEN Carries(e, "checked",
                   [deal |-> d.deal, old |-> d.old,
                    entry |-> IF d.deal.package = Unset THEN NoVersion
                              ELSE packages[d.deal.package]])
          ELSE BackToForm(e)
    /\ UNCHANGED <<moneyVars, packageVars, agreed, edits>>

RequireCurrency(e) ==
    /\ Holds(e, "sale", "checked")
    /\ LET d == seller[e].data
           q == currencies[d.deal.currency]
       IN IF q.active /\ q # NoQuote
          THEN Carries(e, "read",
                   [deal |-> d.deal, old |-> d.old, entry |-> d.entry, quote |-> q])
          ELSE BackToForm(e)
    /\ UNCHANGED <<moneyVars, packageVars, agreed, edits>>

\* Faulty: what the row already said when it was read is not priced again.
RepricedIfChanged(row, d) ==
    IF d.deal.currency = d.old.currency /\ d.deal.price = d.old.price
    THEN [row EXCEPT !.currency = d.deal.currency, !.price = d.deal.price]
    ELSE [row EXCEPT !.currency = d.deal.currency, !.price = d.deal.price,
                     !.rate = d.quote.rate, !.date = d.quote.date,
                     !.jod = d.deal.price * d.quote.rate]

(* Amounts and rates are whole numbers here, which no rounding changes.    *)
Repriced(row, d) ==
    [row EXCEPT !.currency = d.deal.currency, !.price = d.deal.price,
                !.rate = d.quote.rate, !.date = d.quote.date,
                !.jod = d.deal.price * d.quote.rate]

(* A package without specifications leaves those of the one before.        *)
Pictured(row, d) ==
    IF d.deal.package = Unset THEN row
    ELSE [row EXCEPT !.package = d.deal.package, !.name = d.entry.name,
                     !.custom = d.entry.kind = "CUSTOM_TEMPLATE",
                     !.spec = IF d.entry.spec = 0 THEN @ ELSE d.entry.spec]

Saved(row, d) == Repriced(Pictured([row EXCEPT !.type = d.deal.type], d), d)

WriteSale(e) ==
    /\ Holds(e, "sale", "read")
    /\ \E s \in Sold :
        /\ IF seller[e].new THEN agreed[s] = NoSale ELSE s = seller[e].id
        /\ agreed' = [agreed EXCEPT ![s] = Saved(@, seller[e].data)]
    /\ Done(e)
    /\ UNCHANGED <<moneyVars, packageVars, edits>>

-----------------------------------------------------------------------------
CatalogueNext ==
    \/ \E e \in Sellers :
        \/ Cancel(e)
        \/ \E c \in Codes : OpenCurrency(e, c)
        \/ \E q \in Quotes : EnterCurrency(e, q)
        \/ WriteCurrency(e)
        \/ \E p \in Offers : OpenPackage(e, p)
        \/ \E n \in Versions : EnterPackage(e, n)
        \/ WritePackage(e)
        \/ OpenNewSale(e)
        \/ \E s \in Sold : OpenSale(e, s)
        \/ \E d \in Deals : EnterSale(e, d)
        \/ RequireParents(e)
        \/ RequireCurrency(e)
        \/ WriteSale(e)
    \/ \E t \in Services : SwitchType(t)

CatalogueSpec == CatalogueInit /\ [][CatalogueNext]_catalogueVars

-----------------------------------------------------------------------------
(* Properties                                                              *)

(* A currency's rate and date were entered together, and JOD stays at 1.   *)
RatesWhole ==
    /\ \A c \in Codes : currencies[c] # NoQuote =>
           [code |-> c, rate |-> currencies[c].rate, date |-> currencies[c].date] \in quoted
    /\ currencies[Jod].active /\ currencies[Jod].rate = 1

(* A subscription's price in JOD is its amount at a rate its currency once *)
(* had, with the date of that rate.                                        *)
PricedAsQuoted(s) ==
    agreed[s] # NoSale =>
        /\ agreed[s].jod = agreed[s].price * agreed[s].rate
        /\ [code |-> agreed[s].currency, rate |-> agreed[s].rate, date |-> agreed[s].date]
               \in quoted

(* Its copy of the package is of one version of that package; the          *)
(* specifications too, if that version has any.                            *)
PicturedAsPublished(s) ==
    agreed[s].package # Unset =>
        \E v \in published :
            /\ v.offer = agreed[s].package /\ v.name = agreed[s].name
            /\ agreed[s].custom = (v.kind = "CUSTOM_TEMPLATE")
            /\ v.spec # 0 => v.spec = agreed[s].spec

(* Whatever rates and packages are changed to, and however saves of one    *)
(* subscription overlap with that and with one another (each reads row,    *)
(* package and currency at different times and writes later), what a       *)
(* subscription keeps of its package and its currency is of a piece: never *)
(* the amount of one save at the rate of another, nor one package's name   *)
(* with another's kind.                                                    *)
SoldAsPublished ==
    RatesWhole /\ \A s \in Sold : PricedAsQuoted(s) /\ PicturedAsPublished(s)

(* More than the code keeps: a save without a package that meets one with  *)
(* a package of another service type leaves the package under a type that  *)
(* it does not belong to, as does a change of the package's own type.      *)
PackageOfItsType ==
    \A s \in Sold :
        agreed[s].package # Unset => packages[agreed[s].package].type = agreed[s].type

(* More than the code keeps: the specifications of a package that has none *)
(* are those of the package the subscription had before.                   *)
SpecificationsToo ==
    \A s \in Sold : agreed[s].package # Unset =>
        \E v \in published : v.offer = agreed[s].package /\ v.name = agreed[s].name
                             /\ v.spec = agreed[s].spec

=============================================================================
