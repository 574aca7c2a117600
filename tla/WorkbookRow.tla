---------------------------- MODULE WorkbookRow -----------------------------
(***************************************************************************)
(* How a line of an uploaded workbook becomes a staged row: the classifier *)
(* (legacy-workbook.parser.ts) weighs what the line says in several places *)
(* (registration, package label, free text, term, price columns), suggests *)
(* a subscription and raises an issue wherever it will not decide. Two     *)
(* importers stage its suggestion: the raw one always for review, the      *)
(* canonical one as ready for approval when no issue is left.              *)
(* Text is abstracted to the mentions the classifier looks for.            *)
(***************************************************************************)
EXTENDS Integers

CONSTANTS
    Lines      \* the lines a workbook may have

VARIABLES
    line,      \* the line of the workbook
    mapping    \* what it was staged as, or NotStaged

workbookVars == <<line, mapping>>

-----------------------------------------------------------------------------
(* The catalogue: packages, what they specify and the system they run on.  *)

None == "none"

ServiceTypes == {"Domain", "SSL", "Hosting", "Dedicated Server", "Support", "Antivirus",
                 "DNS Hosting", "App Subscription"}

Package(code, type, facts, os) == [code |-> code, type |-> type, facts |-> facts, os |-> os]

Plan(code, web, mail, transfer) ==
    Package(code, "Hosting", {<<"web", web>>, <<"mail", mail>>, <<"transfer", transfer>>}, None)

Server(code, ram, cpu, os) ==
    Package(code, "Dedicated Server", {<<"ram", ram>>, <<"cpu", cpu>>, <<"storage", 50>>}, os)

Plain(code, type) == Package(code, type, {}, None)

Plans ==
    {Plan("HOSTING_CUSTOM_400GB", 50, 350, 500), Plan("HOSTING_CUSTOM_250GB", 50, 200, 500),
     Plan("HOSTING_CUSTOM_100GB", 50, 100, 500), Plan("HOSTING_DIAMOND", 50, 40, 500),
     Plan("HOSTING_PLATINUM", 50, 20, 500), Plan("HOSTING_PREMIUM", 30, 8, 250)}

Servers ==
    {Server("DEDICATED_LINUX_8X", 8, 4, "linux"), Server("DEDICATED_LINUX_4X", 4, 2, "linux"),
     Server("DEDICATED_LINUX_2X", 2, 1, "linux"), Server("DEDICATED_WINDOWS_8X", 8, 4, "windows"),
     Server("DEDICATED_WINDOWS_4X", 4, 2, "windows"),
     Server("DEDICATED_WINDOWS_2X", 2, 1, "windows")}

Certificates == {Plain("SSL_SINGLE", "SSL"), Plain("SSL_WILDCARD", "SSL")}

Extras ==
    {Plain("ADDON_EXTRA_SECURITY", "Dedicated Server"),
     Plain("ADDON_EXTRA_EMAIL", "Dedicated Server"), Plain("SUPPORT_PLATINUM", "Support"),
     Plain("SUPPORT_PREMIUM", "Support"), Plain("SUPPORT_PROFESSIONAL", "Support")}

Catalog == Plans \union Servers \union Certificates \union Extras

-----------------------------------------------------------------------------
(* Dates are <<year, month, day>>; NoDate is a cell that is none.          *)

NoDate == <<0, 0, 0>>

Leap(y) == y % 4 = 0 /\ (y % 100 # 0 \/ y % 400 = 0)

DaysIn(y, m) ==
    CASE m = 2 -> IF Leap(y) THEN 29 ELSE 28
      [] m \in {4, 6, 9, 11} -> 30
      [] OTHER -> 31

Before(a, b) ==
    \/ a[1] < b[1]
    \/ a[1] = b[1] /\ a[2] < b[2]
    \/ a[1] = b[1] /\ a[2] = b[2] /\ a[3] < b[3]

(* The month that is n months after that of date d, and the day of d in    *)
(* it, or its last one.                                                    *)
Shift(d, n) ==
    LET months == 12 * d[1] + d[2] - 1 + n
        y == months \div 12
        m == (months % 12) + 1
    IN <<y, m, IF d[3] < DaysIn(y, m) THEN d[3] ELSE DaysIn(y, m)>>

NextDay(d) ==
    IF d[3] < DaysIn(d[1], d[2]) THEN <<d[1], d[2], d[3] + 1>>
    ELSE IF d[2] < 12 THEN <<d[1], d[2] + 1, 1>> ELSE <<d[1] + 1, 1, 1>>

(* The first day of a term of n months whose last day is d.                *)
InclusiveTermStart(d, n) == NextDay(Shift(d, -n))

-----------------------------------------------------------------------------
(* A line. `text` is the set of its mentions: <<"type", t>> words for a    *)
(* service, <<fact, n>> a capacity with its unit, at most one of a kind,   *)
(* <<"os", s>>, and phrases <<"note", ..>>. `price` is the cell that holds *)
(* amount and currency together; 0 and None stand for nothing legible.     *)
(* `offered` is what the database has of the suggestion (its active type   *)
(* and package) and of the billing entity the line names; `alike` are the  *)
(* customers it has already, of that entity or another, with what they     *)
(* share with the line. A raw line is one of a sheet of active             *)
(* subscriptions: others are staged as SKIPPED and nothing is read of them. *)

Facts == {"web", "mail", "transfer", "ram", "cpu", "storage"}
Notes == {"wildcard", "subdomains", "no mail space", "unlimited", "extra"}

Labels == {p.code : p \in Catalog} \union {"custom", "other", None}

Mentions ==
    ({"type"} \X ServiceTypes) \union (Facts \X Nat)
    \union ({"os"} \X {"linux", "windows"}) \union ({"note"} \X Notes)

Date == {d \in Nat \X (1..12) \X (1..31) : d[3] <= DaysIn(d[1], d[2])}
Wording == [count : Nat, unit : {"year", "month", "annual", "biennial", "unclear"}]
Price == [amount : Nat, currency : {None, "JOD", "USD", "SAR"}]

Likenesses == {"name", "similar name", "email", "phone", "domain"}
Account == [entity : {"own", "other"}, shares : SUBSET Likenesses]

Line ==
    [form : {"raw", "canonical"}, named : SUBSET {"company", "email", "billing"},
     registration : ServiceTypes \union {None}, label : Labels, text : SUBSET Mentions,
     start : Date \union {NoDate}, end : Date \union {NoDate}, term : Wording,
     original : Price, jod : Nat, usd : Nat, price : Price,
     ready : BOOLEAN, offered : SUBSET {"type", "package", "entity"}, alike : SUBSET Account]

NoPrice == [amount |-> 0, currency |-> None]

NotStaged == [status |-> None]

(* parseCanonicalWorkbook(): one price column and its currency.            *)
CanonicalColumns(l) == l.original = NoPrice /\ l.jod = 0 /\ l.usd = 0

WorkbookAssumption ==
    /\ Lines \subseteq Line
    /\ \A l \in Lines :
        /\ \A a, b \in l.text : a[1] = b[1] /\ a[1] \in Facts => a = b
        /\ l.form = "raw" => (l.price.amount = 0 <=> l.price.currency = None)
        /\ l.form = "canonical" => CanonicalColumns(l)

-----------------------------------------------------------------------------
(* The classifier                                                          *)

PackageOf(label) == {p \in Catalog : p.code = label}

(* "semi-annual" reads as annual.                                          *)
TermMonths(f) ==
    CASE f.unit = "year" -> 12 * f.count
      [] f.unit = "month" -> f.count
      [] f.unit = "annual" -> 12
      [] f.unit = "biennial" -> 24
      [] OTHER -> 0

Names(things, f) == \E m \in things : m[1] = f

(* Services the text is about. "DNS hosting" says hosting as well; a       *)
(* domain's renewal counts only when nothing else is found.                *)
DetectedServiceTypes(text) ==
    LET found == {t \in ServiceTypes \ {"Domain"} :
                     \/ <<"type", t>> \in text
                     \/ t = "SSL" /\ <<"note", "wildcard">> \in text
                     \/ t = "Hosting" /\ <<"type", "DNS Hosting">> \in text
                     \/ t = "Hosting" /\ <<"note", "no mail space">> \in text
                     \/ t = "Hosting" /\ Names(text, "transfer")}
    IN IF found = {} /\ <<"type", "Domain">> \in text THEN {"Domain"} ELSE found

(* What the text says of a package other than the catalogue does.          *)
TechnicalConflicts(p, text) ==
    {a[1] : a \in {a \in p.facts : \E b \in text : b[1] = a[1] /\ b[2] # a[2]}}
    \union {n \in {"no mail space", "unlimited", "extra"} :
                <<"note", n>> \in text /\ Names(p.facts, "web")}
    \union {o \in {"os"} : /\ p.os # None
                           /\ Names(text, "os")
                           /\ <<"os", p.os>> \notin text}

Several(detected) == \E t, u \in detected : t # u

Wild(text) == \E n \in {"wildcard", "subdomains"} : <<"note", n>> \in text

(* The service type the evidence is strongest for: the text before the     *)
(* package's label, the label before the registration.                     *)
StrongestType(registration, entry, detected) ==
    IF detected # {} /\ ~Several(detected) THEN CHOOSE t \in detected : TRUE
    ELSE IF entry # {} THEN (CHOOSE p \in entry : TRUE).type
    ELSE registration

\* Faulty: the text is weighed against the registration alone.
ConflictsWithHint(registration, entry, detected, text) ==
    {c \in {"registration/label"} :
        registration # None /\ \E p \in entry : p.type # registration}
    \union {c \in {"registration/text"} :
        registration # None /\ \E t \in detected : t # registration}
    \union {c \in {"many types"} : Several(detected)}
    \union (UNION {TechnicalConflicts(p, text) : p \in entry})
    \union {c \in {"wildcard"} : Wild(text) /\ \E p \in entry : p.code = "SSL_SINGLE"}

Conflicts(registration, entry, detected, text) ==
    {c \in {"registration/label"} :
        registration # None /\ \E p \in entry : p.type # registration}
    \union {c \in {"registration/text"} :
        registration # None /\ ~Several(detected)
        /\ \E t \in detected : t # registration}
    \union {c \in {"many types"} : Several(detected)}
    \union {c \in {"label/text"} :
        ~Several(detected) /\ \E p \in entry, t \in detected : t # p.type}
    \union (UNION {TechnicalConflicts(p, text) : p \in entry})
    \union {c \in {"wildcard"} : Wild(text) /\ \E p \in entry : p.code = "SSL_SINGLE"}

(* The source dates against one another and against the term.              *)
DateIssues(start, end, months) ==
    {d \in {"start", "end"} : (d = "start" /\ start = NoDate) \/ (d = "end" /\ end = NoDate)}
    \union {d \in {"dates reversed"} : NoDate \notin {start, end} /\ ~Before(start, end)}
    \union {d \in {"dates off interval"} :
                /\ NoDate \notin {start, end} /\ Before(start, end)
                /\ months # 0 /\ InclusiveTermStart(end, months) # start}

(* The amount and currency columns; where both are empty, the cell that    *)
(* holds them together.                                                    *)
OriginalPrice(l) ==
    IF l.original = NoPrice THEN l.price ELSE l.original

PriceIssues(original, jod, usd) ==
    IF (original.amount = 0) # (original.currency = None) THEN {"half a price"}
    ELSE IF original.amount # 0 THEN {}
    ELSE IF jod = 0 /\ usd = 0 THEN {"no price"}
    ELSE IF jod # 0 /\ usd # 0 THEN {"two prices"} ELSE {}

SuggestedPrice(original, jod, usd) ==
    [amount |-> IF original.amount # 0 THEN original.amount ELSE IF jod # 0 THEN jod ELSE usd,
     currency |-> IF original.amount # 0 /\ original.currency # None THEN original.currency
                  ELSE IF jod # 0 /\ usd = 0 THEN "JOD"
                  ELSE IF usd # 0 /\ jod = 0 THEN "USD" ELSE None]

ClassifyLegacyValues(l) ==
    LET entry == PackageOf(l.label)
        detected == DetectedServiceTypes(l.text)
        type == StrongestType(l.registration, entry, detected)
        conflicts == Conflicts(l.registration, entry, detected, l.text)
        official == entry # {} /\ conflicts = {}
        custom == l.label = "custom" /\ type # None /\ conflicts = {}
        package == IF official THEN l.label ELSE IF custom THEN "custom" ELSE None
        months == TermMonths(l.term)
        original == OriginalPrice(l)
    IN [type |-> type, package |-> package, months |-> months,
        price |-> SuggestedPrice(original, l.jod, l.usd),
        issues |-> conflicts
            \union ({"company", "email", "billing"} \ l.named)
            \union {i \in {"type"} : type = None}
            \union {i \in {"package"} : package = None}
            \union {i \in {"classification"} : ~official}
            \union DateIssues(l.start, l.end, months)
            \union PriceIssues(original, l.jod, l.usd)
            \union {i \in {"interval"} : months = 0}]

-----------------------------------------------------------------------------
(* Staging                                                                 *)

(* Only active types and packages are read to look the suggestion up in.   *)
Offer(l, what, suggested) == IF what \in l.offered THEN suggested ELSE None

StagedAs(l, s, status, issues) ==
    [status |-> status, issues |-> issues,
     type |-> Offer(l, "type", s.type), package |-> Offer(l, "package", s.package),
     start |-> l.start, end |-> l.end, months |-> TermMonths(l.term), price |-> s.price]

(* findDuplicates(): every likeness alone scores enough. One company may   *)
(* have a customer for each billing entity, so those of another do not     *)
(* count, unless the line's own is not known.                              *)
DuplicateCandidates(l) ==
    {c \in l.alike : c.shares # {} /\ ("entity" \in l.offered => c.entity = "own")}

Duplicate(l) == {i \in {"duplicate"} : DuplicateCandidates(l) # {}}

(* A raw line waits for a reviewer, whatever was found.                    *)
StageRaw ==
    /\ mapping = NotStaged /\ line.form = "raw"
    /\ LET s == ClassifyLegacyValues(line)
       IN mapping' = StagedAs(line, s, "REQUIRES_MANUAL_REVIEW",
              s.issues \union Duplicate(line)
              \union {i \in {"not offered"} : s.package # None /\ "package" \notin line.offered})
    /\ UNCHANGED line

(* The classifier is not shown a canonical line's term, nor a price        *)
(* without its currency.                                                   *)
Synthetic(l) ==
    [l EXCEPT !.term = [count |-> 0, unit |-> "unclear"],
              !.price = IF @.amount # 0 /\ @.currency # None THEN @
                        ELSE NoPrice]

StageCanonical ==
    /\ mapping = NotStaged /\ line.form = "canonical"
    /\ LET s == ClassifyLegacyValues(Synthetic(line))
           known == {i \in {"interval"} : TermMonths(line.term) # 0}
           issues == (s.issues \ known) \union Duplicate(line)
                     \union {i \in {"not ready"} : ~line.ready}
       IN mapping' = StagedAs(line, [s EXCEPT !.price = line.price],
              IF issues = {} THEN "READY_FOR_APPROVAL" ELSE "REQUIRES_MANUAL_REVIEW", issues)
    /\ UNCHANGED line

WorkbookInit == line \in Lines /\ mapping = NotStaged
WorkbookNext == StageRaw \/ StageCanonical
WorkbookSpec == WorkbookInit /\ [][WorkbookNext]_workbookVars

-----------------------------------------------------------------------------
(* Properties                                                              *)

(* Every place of the line that names a service or a capacity agrees with  *)
(* package p: the registration, the label, the text's words, its figures   *)
(* and its phrases. Text on any service may mention a domain.              *)
EvidenceAgrees(l, p) ==
    /\ l.label = p.code
    /\ l.registration \in {None, p.type}
    /\ \A t \in ServiceTypes \ {"Domain"} : <<"type", t>> \in l.text => t = p.type
    /\ \A a \in p.facts, b \in l.text : a[1] = b[1] => a[2] = b[2]
    /\ <<"note", "wildcard">> \in l.text => p.code = "SSL_WILDCARD"

(* Whole months from start to end: a term that begins on the first of a    *)
(* month ends in the last days of one, any other on the day before its own *)
(* came round.                                                             *)
Covers(start, end, months) ==
    LET month(d) == 12 * d[1] + d[2]
    IN IF start[3] = 1 THEN month(end) + 1 = month(start) + months /\ end[3] >= 28
       ELSE month(end) = month(start) + months /\ end[3] = start[3] - 1

(* What the price columns say, each amount with the currency of its own.   *)
Prices(l) ==
    {c \in {l.original, l.price, [amount |-> l.jod, currency |-> "JOD"],
            [amount |-> l.usd, currency |-> "USD"]} : c.amount # 0 /\ c.currency # None}

(* A line that is staged without an issue, which a canonical one takes     *)
(* straight to approval, tells one story: customer and dates are there,    *)
(* everything it says of the service agrees with the suggested package,    *)
(* the price stands in one of its columns with that currency, and no other *)
(* unless that one is the original amount; nobody like its customer is     *)
(* there already but under a billing entity known to be another; and a raw *)
(* line's dates cover its interval.                                        *)
SilentMeansSound ==
    mapping # NotStaged /\ mapping.issues = {} =>
        /\ line.named = {"company", "email", "billing"}
        /\ \E p \in Catalog :
            /\ EvidenceAgrees(line, p)
            /\ mapping.package \in {p.code, None} /\ mapping.type \in {p.type, None}
        /\ NoDate \notin {mapping.start, mapping.end} /\ Before(mapping.start, mapping.end)
        /\ mapping.price \in Prices(line)
        /\ mapping.price \in {line.original, line.price} \/ Prices(line) = {mapping.price}
        /\ mapping.months # 0
        /\ \A c \in line.alike :
              c.shares # {} => "entity" \in line.offered /\ c.entity = "other"
        /\ line.form = "raw" => Covers(mapping.start, mapping.end, mapping.months)

=============================================================================
