--------------------------- MODULE SettingsProofs ---------------------------
(***************************************************************************)
(* Proofs about the settings of the back office: what an administrator     *)
(* saves from forms however stale, while others save, leaves an AI         *)
(* configuration the gateway can work with (AiSettings) and whole mail     *)
(* credentials (MailSettings); what the health checks find out is told in  *)
(* the log (IntegrationHealth); and what a subscription keeps of its       *)
(* currency and its package is of a piece (Catalogue).                     *)
(***************************************************************************)
EXTENDS AiSettings, MailSettings, IntegrationHealth, Catalogue, TLAPS

-----------------------------------------------------------------------------
(* AISETTINGS                                                              *)


(* A form has a provider, a save a model; a save under way was judged      *)
(* against a row that, if the server read one, had the key of its provider *)
(* unless a save had been blind before. Without a row there is no key.     *)
Coherent(row) == row.key \in {NoProvider, row.provider}
Empty(row) == row.provider = NoProvider => row.key = NoProvider /\ ~row.cut

Sound(t) ==
    /\ t \in Tab
    /\ t.at # "view" => t.provider \in Providers
    /\ t.at \in {"sent", "write"} => t.model # NoProvider
    /\ t.at = "write" => Movable(t) /\ Usable(t) /\ Empty(t.old)

AiInv ==
    /\ AiSettingsTypeOK /\ SettingsCoherent
    /\ Empty(ai)
    /\ \A a \in Admins : Sound(tab[a])
    /\ ~blind => \A a \in Admins : Coherent(tab[a].old)

-----------------------------------------------------------------------------
(* Forms                                                                   *)

LEMMA ShowingSound ==
  ASSUME NEW view \in Viewed
  PROVE  Sound(Showing(view)) /\ Coherent(Showing(view).old)
  BY DEF Sound, Coherent, Showing, Tab, NoAiRow, AiRow, Known

LEMMA SeenType ==
  ASSUME NEW row \in AiRow
  PROVE  Seen(row) \in Viewed
  BY DEF Seen, Viewed, AiRow

LEMMA ShownType ==
  ASSUME AiSettingsAssumption, NEW t \in Tab
  PROVE  Displayed(t) \in Providers
  BY DEF Displayed, Default, Tab, Viewed, Known, AiSettingsAssumption

\* A form that becomes a sound one, and nothing else, keeps the invariant.
LEMMA FormKeeps ==
  ASSUME AiInv, NEW a \in Admins, NEW t, Sound(t), ~blind => Coherent(t.old), Fill(a, t),
         UNCHANGED <<ai, slips>>, fetch' \in [Admins -> Fetch], call' = call, writes' \in 0..MaxWrites
  PROVE  AiInv'
  <1>1. tab' \in [Admins -> Tab] /\ \A b \in Admins : tab'[b] = IF b = a THEN t ELSE tab[b]
    BY DEF AiInv, AiSettingsTypeOK, Fill, Sound
  <1>2. \A b \in Admins : Sound(tab'[b])
    BY <1>1 DEF AiInv
  <1>3. ~blind' => \A b \in Admins : Coherent(tab'[b].old)
    BY <1>1 DEF AiInv, slips
  <1>4. AiSettingsTypeOK'
    BY <1>1 DEF AiInv, AiSettingsTypeOK, slips
  <1>5. SettingsCoherent'
    BY DEF AiInv, slips, SettingsCoherent, KeyOfItsProvider, EnabledIsUsable
  <1> QED
    BY <1>2, <1>3, <1>4, <1>5 DEF AiInv

LEMMA PageKeeps ==
  ASSUME AiSettingsAssumption, AiInv, NEW a \in Admins,
         LoadTab(a) \/ OpenSettings(a) \/ CloseSettings(a) \/ ChangeProvider(a) \/ ChooseModel(a)
  PROVE  AiInv'
  <1> DEFINE t == tab[a]
  <1>1. /\ t \in Tab /\ Sound(t) /\ (~blind => Coherent(t.old))
        /\ fetch \in [Admins -> Fetch] /\ writes \in 0..MaxWrites
    BY DEF AiInv, AiSettingsTypeOK
  <1>2. Displayed(t) \in Providers
    BY <1>1, ShownType
  <1>3. Seen(ai) \in Viewed /\ t.shown \in Viewed
    BY <1>1, SeenType DEF AiInv, AiSettingsTypeOK, Tab
  <1>4. CASE LoadTab(a)
    BY <1>4, <1>1, <1>3, ShowingSound, FormKeeps DEF LoadTab
  <1>5. CASE OpenSettings(a)
    <2> DEFINE u == [Showing(t.shown) EXCEPT !.at = "form", !.provider = Displayed(t), !.model = t.shown.model]
    <2>1. Sound(u) /\ Coherent(u.old)
      BY <1>2, <1>3, ShowingSound DEF Sound, Coherent, Showing, Tab, Known, Viewed
    <2> QED
      BY <1>5, <1>1, <2>1, FormKeeps DEF OpenSettings
  <1>6. CASE CloseSettings(a)
    BY <1>6, <1>1, <1>3, ShowingSound, FormKeeps DEF CloseSettings
  <1>7. CASE ChangeProvider(a)
    <2>1. PICK p \in Providers :
            Fill(a, [t EXCEPT !.provider = p, !.list = NoProvider,
                       !.model = IF p = Displayed(t) THEN t.shown.model ELSE NoProvider])
      BY <1>7 DEF ChangeProvider
    <2> DEFINE u == [t EXCEPT !.provider = p, !.list = NoProvider,
                       !.model = IF p = Displayed(t) THEN t.shown.model ELSE NoProvider]
    <2>2. t.at = "form"
      BY <1>7 DEF ChangeProvider
    <2>3. Sound(u) /\ u.old = t.old
      BY <1>1, <1>3, <2>2 DEF Sound, Tab, Known, Viewed
    <2> QED
      BY <1>7, <1>1, <2>1, <2>3, FormKeeps DEF ChangeProvider
  <1>8. CASE ChooseModel(a)
    <2>1. PICK m \in {t.provider, t.list} : Fill(a, [t EXCEPT !.model = m])
      BY <1>8 DEF ChooseModel
    <2>2. t.at = "form"
      BY <1>8 DEF ChooseModel
    <2>3. Sound([t EXCEPT !.model = m]) /\ [t EXCEPT !.model = m].old = t.old
      BY <1>1, <2>2 DEF Sound, Tab
    <2> QED
      BY <1>8, <1>1, <2>1, <2>3, FormKeeps DEF ChooseModel
  <1> QED
    BY <1>4, <1>5, <1>6, <1>7, <1>8

LEMMA SubmitKeeps ==
  ASSUME AiSettingsAssumption, AiInv, NEW a \in Admins, SubmitSettings(a)
  PROVE  AiInv'
  <1>1. /\ tab[a] \in Tab /\ fetch \in [Admins -> Fetch]
        /\ tab[a].at = "form" /\ tab[a].model # NoProvider /\ tab[a].provider \in Providers
        /\ ~blind => Coherent(tab[a].old)
    BY DEF SubmitSettings, AiInv, AiSettingsTypeOK, Sound
  <1>2. PICK e, u, k, c, y \in BOOLEAN :
          /\ tab[a].provider # Displayed(tab[a]) => y
          /\ c => tab[a].shown.keyed /\ tab[a].provider = Displayed(tab[a])
          /\ Fill(a, [tab[a] EXCEPT !.at = "sent", !.enabled = e, !.auto = u, !.cut = k,
                                    !.clear = c, !.typed = y])
    BY Zenon DEF SubmitSettings
  <1> DEFINE s == [tab[a] EXCEPT !.at = "sent", !.enabled = e, !.auto = u, !.cut = k,
                                 !.clear = c, !.typed = y]
  <1>3. s \in Tab
    BY <1>1 DEF Tab, Known
  <1>4. s.at = "sent" /\ s.model = tab[a].model /\ s.provider = tab[a].provider /\ s.old = tab[a].old
    BY <1>1 DEF Tab
  <1>5. Sound(s)
    BY <1>1, <1>3, <1>4 DEF Sound
  <1>6. writes' \in 0..MaxWrites
    BY DEF SubmitSettings, AiSettingsAssumption, AiInv, AiSettingsTypeOK
  <1> QED
    BY <1>1, <1>2, <1>4, <1>5, <1>6, FormKeeps DEF SubmitSettings

-----------------------------------------------------------------------------
(* The server                                                              *)

LEMMA ReadKeeps ==
  ASSUME AiInv, NEW a \in Admins, ReadSettings(a)
  PROVE  AiInv'
  <1> DEFINE t == [tab[a] EXCEPT !.at = "write", !.old = ai]
             r == [tab[a] EXCEPT !.at = "form", !.old = NoAiRow, !.clear = FALSE, !.typed = FALSE,
                                 !.enabled = FALSE, !.auto = FALSE, !.cut = FALSE]
  <1>1. /\ tab[a] \in Tab /\ Sound(tab[a]) /\ tab[a].at = "sent" /\ ai \in AiRow
        /\ ~blind => Coherent(ai)
        /\ Empty(ai)
        /\ fetch \in [Admins -> Fetch] /\ writes \in 0..MaxWrites
    BY DEF AiInv, AiSettingsTypeOK, ReadSettings, SettingsCoherent, KeyOfItsProvider, Coherent
  <1>2. CASE Fill(a, t) /\ Movable(t) /\ Usable(t) /\ UNCHANGED <<ai, fetch, call, slips, writes>>
    <2>1. t \in Tab /\ t.old = ai /\ t.model = tab[a].model /\ t.provider = tab[a].provider
      BY <1>1 DEF Tab
    <2>2. Sound(t)
      BY <1>1, <1>2, <2>1 DEF Sound
    <2> QED
      BY <1>1, <1>2, <2>1, <2>2, FormKeeps
  <1>3. CASE Fill(a, r) /\ UNCHANGED <<ai, fetch, call, slips, writes>>
    <2>1. Sound(r) /\ Coherent(r.old)
      BY <1>1 DEF Sound, Coherent, Tab, NoAiRow, AiRow, Known
    <2> QED
      BY <1>1, <1>3, <2>1, FormKeeps
  <1> QED
    BY <1>2, <1>3 DEF ReadSettings, RefuseSettings

\* What a save writes, whatever is stored by now, is a row that is usable if
\* enabled, and whose key is of its provider if the row it was judged by had
\* such a key, unless the save is blind.
LEMMA WrittenIsCoherent ==
  ASSUME NEW t, Sound(t), t.at = "write", ai \in AiRow, Empty(ai)
  PROVE  LET w == WrittenRow(t)
         IN  /\ w \in AiRow /\ w.provider \in Providers
             /\ Coherent(t.old) /\ ~Blindly(t) => Coherent(w)
             /\ w.enabled => w.key # NoProvider /\ w.model # NoProvider
             /\ w.auto => w.enabled /\ w.cut
  <1> DEFINE w == WrittenRow(t)
             left == IF t.old.provider = NoProvider THEN ai ELSE t.old
  <1>1. /\ t \in Tab /\ t.old \in AiRow /\ left \in AiRow /\ t.provider \in Providers /\ t.model # NoProvider
        /\ Movable(t) /\ Usable(t) /\ Empty(t.old)
    BY DEF Sound, Tab
  <1>2. /\ w.provider = t.provider /\ w.model = t.model /\ w.enabled = t.enabled /\ w.auto = t.auto
        /\ w.key = IF Brings(t) THEN NewKey(t) ELSE left.key
        /\ w.cut = (t.cut \/ left.cut)
    BY DEF WrittenRow
  <1>3. NewKey(t) \in Known /\ (Brings(t) => NewKey(t) \in {NoProvider, t.provider})
    BY <1>1 DEF NewKey, Brings, AiRow, Known
  <1>4. ~Brings(t) => NewKey(t) = t.old.key
    BY DEF NewKey, Brings
  <1>5. w \in AiRow
    <2>1. left.key \in Known /\ left.cut \in BOOLEAN
      BY <1>1 DEF AiRow
    <2> QED
      BY <1>1, <1>3, <2>1 DEF WrittenRow, AiRow, Tab
  <1>6. ASSUME Coherent(t.old), ~Blindly(t)
        PROVE  Coherent(w)
    <2>1. CASE Brings(t)
      BY <1>2, <1>3, <2>1 DEF Coherent
    <2>2. CASE ~Brings(t) /\ t.old.provider = NoProvider
      BY <1>2, <1>6, <2>2 DEF Blindly, Coherent, Empty
    <2>3. CASE ~Brings(t) /\ t.old.provider # NoProvider
      BY <1>1, <1>2, <1>6, <2>3 DEF Movable, Brings, Coherent
    <2> QED
      BY <2>1, <2>2, <2>3
  <1>7. w.enabled => w.key # NoProvider /\ w.model # NoProvider
    BY <1>1, <1>2, <1>4 DEF Usable, Empty
  <1>8. w.auto => w.enabled /\ w.cut
    <2>1. t.old.provider = NoProvider \/ left = t.old
      OBVIOUS
    <2> QED
      BY <1>1, <1>2, <2>1 DEF Usable, Empty
  <1> HIDE DEF w
  <1> QED
    BY <1>1, <1>2, <1>5, <1>6, <1>7, <1>8 DEF w

LEMMA WriteKeeps ==
  ASSUME AiSettingsAssumption, AiInv, NEW a \in Admins, WriteSettings(a)
  PROVE  AiInv'
  <1>1. /\ Sound(tab[a]) /\ tab[a].at = "write" /\ ai' = WrittenRow(tab[a]) /\ ai \in AiRow
        /\ Empty(ai)
        /\ ~blind => Coherent(tab[a].old)
    BY DEF AiInv, AiSettingsTypeOK, WriteSettings
  <1>2. blind' \in BOOLEAN /\ (~blind' => ~blind /\ ~Blindly(tab[a]))
    BY Zenon DEF WriteSettings
  <1>3. /\ ai' \in AiRow /\ SettingsCoherent' /\ ai'.provider # NoProvider
    BY <1>1, <1>2, WrittenIsCoherent
       DEF SettingsCoherent, KeyOfItsProvider, EnabledIsUsable, Coherent, AiSettingsAssumption
  <1>4. Sound(Showing(Seen(ai'))) /\ Coherent(Showing(Seen(ai')).old)
    BY <1>3, SeenType, ShowingSound
  <1>5. /\ tab' \in [Admins -> Tab] /\ \A b \in Admins : Sound(tab'[b])
        /\ ~blind' => \A b \in Admins : Coherent(tab'[b].old)
    BY <1>2, <1>4 DEF WriteSettings, Fill, AiInv, AiSettingsTypeOK, Sound
  <1> QED
    BY <1>2, <1>3, <1>5 DEF AiInv, AiSettingsTypeOK, WriteSettings, Empty

-----------------------------------------------------------------------------
(* Discoveries and calls                                                   *)

LEMMA DiscoveryKeeps ==
  ASSUME AiSettingsAssumption, AiInv, NEW a \in Admins,
         LoadModels(a) \/ ResolveProvider(a) \/ ResolveKey(a)
  PROVE  AiInv'
  <1>1. tab' = tab /\ ai' = ai /\ call' = call /\ blind' = blind
    BY DEF LoadModels, ResolveProvider, ResolveKey, slips
  <1>2. fetch' \in [Admins -> Fetch]
    BY DEF LoadModels, ResolveProvider, ResolveKey, Wait, Fetch, Nothing, AiInv,
           AiSettingsTypeOK, Tab, Known
  <1>3. writes' \in 0..MaxWrites
    BY DEF LoadModels, ResolveProvider, ResolveKey, AiInv, AiSettingsTypeOK, AiSettingsAssumption
  <1>4. mixed \in BOOLEAN /\ (mixed' = mixed \/ Hand(fetch[a].provider))
    BY DEF LoadModels, ResolveProvider, ResolveKey, AiInv, AiSettingsTypeOK, slips
  <1>5. mixed' \in BOOLEAN
    BY <1>4, Zenon DEF Hand
  <1> QED
    BY <1>1, <1>2, <1>3, <1>5 DEF AiInv, AiSettingsTypeOK, SettingsCoherent, KeyOfItsProvider,
                            EnabledIsUsable

LEMMA ArrivalKeeps ==
  ASSUME AiInv, NEW a \in Admins, ModelsArrive(a)
  PROVE  AiInv'
  <1>1. /\ Sound(tab[a]) /\ fetch[a] \in Fetch /\ writes \in 0..MaxWrites
        /\ ~blind => Coherent(tab[a].old)
        /\ fetch' \in [Admins -> Fetch]
    BY DEF AiInv, AiSettingsTypeOK, ModelsArrive, Wait, Fetch, Nothing, Known
  <1>2. PICK ok \in BOOLEAN :
          Fill(a, IF tab[a].at # "view"
                  THEN [tab[a] EXCEPT !.list = IF ok THEN fetch[a].provider ELSE NoProvider]
                  ELSE tab[a])
    BY DEF ModelsArrive
  <1> DEFINE t == IF tab[a].at # "view"
                  THEN [tab[a] EXCEPT !.list = IF ok THEN fetch[a].provider ELSE NoProvider]
                  ELSE tab[a]
  <1>3. t \in Tab /\ t.old = tab[a].old
    BY <1>1 DEF Sound, Tab, Fetch, Known
  <1>4. Sound(t)
    <2>1. CASE t = tab[a]
      BY <1>1, <2>1
    <2>2. CASE t # tab[a]
      <3>1. PICK m : t = [tab[a] EXCEPT !.list = m]
        BY <2>2
      <3>2. /\ t.at = tab[a].at /\ t.provider = tab[a].provider /\ t.model = tab[a].model
            /\ t.typed = tab[a].typed /\ t.clear = tab[a].clear /\ t.enabled = tab[a].enabled
            /\ t.auto = tab[a].auto /\ t.cut = tab[a].cut
        BY <1>1, <3>1 DEF Sound, Tab
      <3>3. NewKey(t) = NewKey(tab[a])
        BY <1>3, <3>2 DEF NewKey
      <3> QED
        BY <1>1, <1>3, <3>2, <3>3 DEF Sound, Movable, Usable
    <2> QED
      BY <2>1, <2>2
  <1> QED
    BY <1>1, <1>2, <1>3, <1>4, FormKeeps DEF ModelsArrive

LEMMA CallKeeps ==
  ASSUME AiInv, NEW c \in Callers, ReadProvider(c) \/ ReadKey(c)
  PROVE  AiInv'
  <1>1. call' \in [Callers -> Call]
    BY DEF ReadProvider, ReadKey, AiInv, AiSettingsTypeOK, Call, NoCall, AiRow, Known
  <1>2. mixed' \in BOOLEAN /\ UNCHANGED <<ai, tab, fetch, blind, writes>>
    BY DEF ReadProvider, ReadKey, Hand, AiInv, AiSettingsTypeOK, slips
  <1> QED
    BY <1>1, <1>2 DEF AiInv, AiSettingsTypeOK, SettingsCoherent, KeyOfItsProvider, EnabledIsUsable

-----------------------------------------------------------------------------
(* Theorems                                                                *)

LEMMA AiStart ==
  ASSUME AiSettingsAssumption, AiSettingsInit
  PROVE  AiInv
  <1> DEFINE used(p) == [provider |-> p, model |-> p, key |-> p,
                         enabled |-> TRUE, auto |-> FALSE, cut |-> FALSE]
  <1>0. PICK p \in Known : ai = IF p = NoProvider THEN NoAiRow ELSE used(p)
    BY DEF AiSettingsInit
  <1>1. ai \in AiRow /\ SettingsCoherent /\ Empty(ai)
    <2>1. NoAiRow \in AiRow /\ used(p) \in AiRow
      BY DEF NoAiRow, AiRow, Known
    <2>2. CASE ai = NoAiRow
      BY <2>1, <2>2 DEF NoAiRow, Empty, SettingsCoherent, KeyOfItsProvider, EnabledIsUsable
    <2>3. CASE ai = used(p) /\ p # NoProvider
      BY <2>1, <2>3 DEF Empty, SettingsCoherent, KeyOfItsProvider, EnabledIsUsable
    <2> QED
      BY <1>0, <2>2, <2>3
  <1>2. Sound(Showing(Seen(ai))) /\ Coherent(Showing(Seen(ai)).old)
    BY <1>1, SeenType, ShowingSound
  <1>3. tab \in [Admins -> Tab] /\ \A a \in Admins : Sound(tab[a]) /\ Coherent(tab[a].old)
    BY <1>2 DEF AiSettingsInit, Sound
  <1>4. fetch \in [Admins -> Fetch] /\ call \in [Callers -> Call]
    <2>1. Nothing \in Fetch /\ NoCall \in Call
      BY DEF Nothing, Fetch, NoCall, Call, Known
    <2> QED
      BY <2>1 DEF AiSettingsInit
  <1>5. writes \in 0..MaxWrites
    BY DEF AiSettingsAssumption, AiSettingsInit
  <1>6. mixed \in BOOLEAN /\ blind \in BOOLEAN
    BY Zenon DEF AiSettingsInit
  <1> QED
    BY <1>1, <1>3, <1>4, <1>5, <1>6 DEF AiInv, AiSettingsTypeOK

LEMMA AiStep ==
  ASSUME AiSettingsAssumption, AiInv, [AiSettingsNext]_aiVars
  PROVE  AiInv'
  <1>1. CASE AiSettingsNext
    BY <1>1, PageKeeps, SubmitKeeps, ReadKeeps, WriteKeeps, DiscoveryKeeps, ArrivalKeeps,
       CallKeeps, Zenon DEF AiSettingsNext
  <1>2. CASE UNCHANGED aiVars
    BY <1>2 DEF aiVars, slips, AiInv, AiSettingsTypeOK, SettingsCoherent, KeyOfItsProvider,
                EnabledIsUsable
  <1> QED
    BY <1>1, <1>2

\* For any number of administrators saving from forms however stale, AI is
\* enabled only with a key and a model and automatic acceptance only with AI
\* and a cutover; and the stored key is of the stored provider until a save
\* that had found no row writes over one that has come since.
THEOREM SettingsStayCoherent ==
  ASSUME AiSettingsAssumption
  PROVE  AiSettingsSpec => []SettingsCoherent
  <1>1. AiInv => SettingsCoherent
    BY DEF AiInv
  <1>2. AiSettingsInit => AiInv
    BY AiStart
  <1>3. AiInv /\ [AiSettingsNext]_aiVars => AiInv'
    BY AiStep
  <1> QED
    BY <1>1, <1>2, <1>3, PTL DEF AiSettingsSpec

\* Every state has the types that are declared for it.
THEOREM AiSettingsTyped ==
  ASSUME AiSettingsAssumption
  PROVE  AiSettingsSpec => []AiSettingsTypeOK
  <1>1. AiInv => AiSettingsTypeOK
    BY DEF AiInv
  <1>2. AiSettingsInit => AiInv
    BY AiStart
  <1>3. AiInv /\ [AiSettingsNext]_aiVars => AiInv'
    BY AiStep
  <1> QED
    BY <1>1, <1>2, <1>3, PTL DEF AiSettingsSpec

-----------------------------------------------------------------------------
(* MAILSETTINGS                                                            *)

Whole(c) == IF c.mode = "BASIC" THEN c.app = Absent ELSE c.app # Absent /\ c.secret # Absent

(* A save under way was judged by credentials that were whole.             *)
Mergeworthy(p) == Whole(p.old.creds) /\ ~(Types(p) /\ p.clear) /\ (p.clear \/ Mergeable(p))

MailInv ==
    /\ MailSettingsTypeOK
    /\ CredentialsWhole
    /\ \A m \in Managers : pane[m].at = "write" => Mergeworthy(pane[m])

LEMMA ViewingType ==
  ASSUME NEW row \in Config
  PROVE  Viewing(row) \in Pane /\ Viewing(row).at = "list"
  BY DEF Viewing, Pane, Config

\* A page that changes without the row.
LEMMA PaneKeeps ==
  ASSUME MailInv, NEW m \in Managers, NEW p \in Pane, Put(m, p), UNCHANGED config,
         p.at = "write" => Mergeworthy(p), changes' \in 0..MaxChanges
  PROVE  MailInv'
  <1>1. /\ pane' \in [Managers -> Pane]
        /\ \A n \in Managers : pane'[n] = IF n = m THEN p ELSE pane[n]
    BY DEF Put, MailInv, MailSettingsTypeOK
  <1> QED
    BY <1>1 DEF MailInv, MailSettingsTypeOK, CredentialsWhole

LEMMA MergedWhole ==
  ASSUME MailSettingsAssumption, NEW p \in Pane, NEW stored \in Credentials,
         Mergeworthy(p), Whole(stored)
  PROVE  /\ Merged(p, stored) \in Credentials
         /\ Whole(Merged(p, stored))
         /\ stored.secret = Absent /\ Merged(p, stored).secret # Absent => Types(p)
  <1>1. /\ p.account \in Accounts /\ p.account # Absent
        /\ p.mode \in {"BASIC", "MICROSOFT_OAUTH2"}
        /\ p.old.creds \in Credentials
    BY DEF Pane, Config, MailSettingsAssumption
  <1>2. CASE p.clear
    BY <1>2 DEF Merged, Cleared, Whole, Credentials, Maybe
  <1>3. CASE ~p.clear /\ ~Types(p)
    BY <1>3 DEF Merged
  <1>4. CASE ~p.clear /\ Types(p)
    <2>1. Merged(p, stored) =
            [mode |-> p.mode,
             app |-> IF p.mode = "BASIC" THEN Absent ELSE IF p.app THEN p.account ELSE p.old.creds.app,
             secret |-> IF p.secret THEN p.account ELSE p.old.creds.secret]
      BY <1>4 DEF Merged
    <2>2. Merged(p, stored) \in Credentials
      BY <1>1, <2>1 DEF Credentials, Maybe
    <2>3. Whole(Merged(p, stored))
      BY <1>1, <1>4, <2>1 DEF Whole, Mergeworthy, Mergeable
    <2> QED
      BY <1>4, <2>2, <2>3
  <1> QED
    BY <1>2, <1>3, <1>4

LEMMA MailStart ==
  ASSUME MailSettingsAssumption, MailSettingsInit
  PROVE  MailInv
  <1>1. PICK first \in Accounts : first = CHOOSE a \in Accounts : TRUE
    BY DEF MailSettingsAssumption
  <1>2. config = [on |-> FALSE, account |-> first,
                  creds |-> [mode |-> "BASIC", app |-> Absent, secret |-> first]]
    BY <1>1 DEF MailSettingsInit
  <1>3. config \in Config /\ CredentialsWhole
    BY <1>2 DEF Config, Credentials, Maybe, CredentialsWhole
  <1> QED
    <2>1. Viewing(config) \in Pane /\ Viewing(config).at = "list"
      BY <1>3, ViewingType
    <2>2. pane = [m \in Managers |-> Viewing(config)] /\ changes = 0
      BY Zenon DEF MailSettingsInit
    <2>3. 0 \in 0..MaxChanges
      BY DEF MailSettingsAssumption
    <2> QED
      BY <1>3, <2>1, <2>2, <2>3 DEF MailInv, MailSettingsTypeOK

LEMMA SaveKeeps ==
  ASSUME MailSettingsAssumption, MailInv, NEW m \in Managers, WriteConfig(m)
  PROVE  MailInv' /\ ClearedStep
  <1>1. PICK p \in Pane : /\ p = pane[m] /\ p.at = "write" /\ Mergeworthy(p)
                          /\ config' = [on |-> p.on, account |-> p.account,
                                        creds |-> Merged(p, config.creds)]
                          /\ Put(m, Viewing(config')) /\ changes' = changes
    BY DEF WriteConfig, MailInv, MailSettingsTypeOK
  <1>2. config.creds \in Credentials /\ Whole(config.creds)
    BY DEF MailInv, MailSettingsTypeOK, CredentialsWhole, Config, Whole
  <1>3. /\ config'.creds \in Credentials /\ Whole(config'.creds)
        /\ config.creds.secret = Absent /\ config'.creds.secret # Absent => Types(p)
    BY <1>1, <1>2, MergedWhole
  <1>4. config' \in Config
    BY <1>1, <1>3 DEF Config, Pane
  <1>5. /\ pane' \in [Managers -> Pane]
        /\ \A n \in Managers : pane'[n] = IF n = m THEN Viewing(config') ELSE pane[n]
        /\ Viewing(config').at = "list"
    BY <1>1, <1>4, ViewingType DEF Put, MailInv, MailSettingsTypeOK
  <1>6. MailInv'
    BY <1>1, <1>3, <1>4, <1>5 DEF MailInv, MailSettingsTypeOK, CredentialsWhole, Whole
  <1> QED
    BY <1>1, <1>3, <1>6 DEF ClearedStep, Configured

(* The form as SubmitMail sends it. *)
Filled(m, on, a, o, p, s, c) ==
    [pane[m] EXCEPT !.at = "sent", !.on = on, !.account = a, !.mode = o,
                    !.app = p, !.secret = s, !.clear = c]

LEMMA OthersKeep ==
  ASSUME MailSettingsAssumption, MailInv, NEW m \in Managers,
         ReloadList(m) \/ SubmitMail(m) \/ ReadConfig(m)
  PROVE  MailInv' /\ config' = config
  <1>1. /\ pane[m] \in Pane /\ config \in Config /\ changes \in 0..MaxChanges
        /\ pane[m].copy \in Config
    BY DEF MailInv, MailSettingsTypeOK, Pane
  <1>2. CASE ReloadList(m)
    BY <1>1, <1>2, ViewingType, PaneKeeps DEF ReloadList
  <1>3. CASE SubmitMail(m)
    <2>1. \E on \in BOOLEAN, a \in Accounts, o \in {"BASIC", "MICROSOFT_OAUTH2"}, p, s, c \in BOOLEAN :
            /\ o = "BASIC" => ~p
            /\ c => Configured(pane[m].copy)
            /\ Put(m, Filled(m, on, a, o, p, s, c))
      BY <1>3, Zenon DEF SubmitMail, Filled
    <2>2. PICK on \in BOOLEAN, a \in Accounts, o \in {"BASIC", "MICROSOFT_OAUTH2"},
               p \in BOOLEAN, s \in BOOLEAN, c \in BOOLEAN :
            Put(m, Filled(m, on, a, o, p, s, c))
      BY <2>1
    <2>5. Filled(m, on, a, o, p, s, c) \in Pane /\ Filled(m, on, a, o, p, s, c).at = "sent"
      BY <1>1 DEF Pane, Filled
    <2>3. changes < MaxChanges /\ changes' = changes + 1 /\ config' = config
      BY <1>3 DEF SubmitMail
    <2>4. changes' \in 0..MaxChanges
      BY <1>1, <2>3 DEF MailSettingsAssumption
    <2> QED
      BY <2>2, <2>3, <2>4, <2>5, PaneKeeps
  <1>4. CASE ReadConfig(m)
    <2>1. PICK p : p = [pane[m] EXCEPT !.at = "write", !.old = config]
      OBVIOUS
    <2>2. p \in Pane /\ p.old = config
      BY <1>1, <2>1 DEF Pane
    <2>3. config' = config /\ changes' = changes
      BY <1>4 DEF ReadConfig, RefuseMail
    <2>4. CASE ~(Types(p) /\ p.clear) /\ (p.clear \/ Mergeable(p))
      <3>1. Put(m, p)
        BY <1>4, <2>1, <2>4 DEF ReadConfig
      <3>2. Mergeworthy(p)
        BY <2>2, <2>4 DEF Mergeworthy, Whole, MailInv, CredentialsWhole
      <3> QED
        BY <1>1, <2>2, <2>3, <3>1, <3>2, PaneKeeps
    <2>5. CASE ~(~(Types(p) /\ p.clear) /\ (p.clear \/ Mergeable(p)))
      <3>1. Put(m, Viewing(pane[m].copy))
        BY <1>4, <2>1, <2>5 DEF ReadConfig, RefuseMail
      <3> QED
        BY <1>1, <2>3, <3>1, ViewingType, PaneKeeps
    <2> QED
      BY <2>4, <2>5
  <1> QED
    BY <1>2, <1>3, <1>4

\* Stored credentials are whole, and cleared ones come back only when typed.
THEOREM CredentialsAreKept ==
  ASSUME MailSettingsAssumption
  PROVE  MailSettingsSpec => CredentialsKept
  <1>1. MailSettingsInit => MailInv
    BY MailStart
  <1>2. MailInv /\ [MailSettingsNext]_mailSettingsVars => MailInv' /\ (ClearedStep \/ config' = config)
    <2> SUFFICES ASSUME MailInv, [MailSettingsNext]_mailSettingsVars
                 PROVE  MailInv' /\ (ClearedStep \/ config' = config)
      OBVIOUS
    <2>1. CASE UNCHANGED mailSettingsVars
      BY <2>1 DEF mailSettingsVars, MailInv, MailSettingsTypeOK, CredentialsWhole
    <2>2. ASSUME NEW m \in Managers,
                 ReloadList(m) \/ SubmitMail(m) \/ ReadConfig(m) \/ WriteConfig(m)
          PROVE  MailInv' /\ (ClearedStep \/ config' = config)
      BY <2>2, OthersKeep, SaveKeeps
    <2> QED
      BY <2>1, <2>2 DEF MailSettingsNext
  <1>3. MailInv => CredentialsWhole
    BY DEF MailInv
  <1>4. MailInv /\ [MailSettingsNext]_mailSettingsVars => [ClearedStep]_config
    BY <1>2
  <1> QED
    BY <1>1, <1>2, <1>3, <1>4, PTL DEF MailSettingsSpec, CredentialsKept

-----------------------------------------------------------------------------
(* INTEGRATIONHEALTH                                                       *)

(* Where no two recordings overlapped, every baseline is what was said last. *)
Straight(c) ==
    /\ LatestEvent(c) = lastSaid[c]
    /\ \A i \in 2..Len(events[c]) : events[c][i] # events[c][i - 1]
    /\ \A r \in Recorders :
         (recording[r].at = "read" /\ recording[r].channel = c)
            => recording[r].baseline = lastSaid[c]

Alone ==
    \A r, o \in Recorders :
        (r # o /\ recording[r].at = "read" /\ recording[o].at = "read"
           /\ recording[r].channel = recording[o].channel) => recording[r].channel \in crossed

HealthInv ==
    /\ HealthTypeOK
    /\ \A r \in Recorders : recording[r].at = "read" => recording[r].says \in HealthStatus
    /\ column = lastSaid["SMTP"]
    /\ Alone
    /\ \A c \in Integrations \ crossed : Straight(c)

LEMMA LatestKnown ==
  ASSUME HealthTypeOK, NEW c \in Integrations
  PROVE  LatestEvent(c) \in KnownStatus /\ BaselineOf(c) \in KnownStatus
  <1>1. events[c] \in Seq(HealthStatus)
    BY DEF HealthTypeOK
  <1>2. CASE events[c] = <<>>
    BY <1>2 DEF LatestEvent, BaselineOf, KnownStatus, HealthTypeOK
  <1>3. CASE events[c] # <<>>
    <2>1. Len(events[c]) \in 1..Len(events[c])
      BY <1>1, <1>3
    <2>2. events[c][Len(events[c])] \in HealthStatus
      BY <1>1, <2>1
    <2> QED
      BY <1>3, <2>2 DEF LatestEvent, BaselineOf, KnownStatus, HealthTypeOK
  <1> QED
    BY <1>2, <1>3

LEMMA HealthInitInv ==
  ASSUME IntegrationHealthAssumption, HealthInit
  PROVE  HealthInv
  <1>1. HealthTypeOK
    BY DEF HealthInit, HealthTypeOK, KnownStatus, Idle, Integrations, IntegrationHealthAssumption
  <1>2. column = lastSaid["SMTP"] /\ Alone /\ \A r \in Recorders : recording[r].at # "read"
    BY DEF HealthInit, Idle, Alone, Integrations
  <1>3. \A c \in Integrations : Straight(c)
    BY DEF HealthInit, Idle, Straight, LatestEvent
  <1> QED
    BY <1>1, <1>2, <1>3 DEF HealthInv

LEMMA BeginKeeps ==
  ASSUME HealthInv, NEW r \in Recorders, BeginRecord(r), IntegrationHealthAssumption
  PROVE  HealthInv'
  <1>1. PICK c \in Integrations, s \in HealthStatus :
          /\ recording' = [recording EXCEPT ![r] =
                             [at |-> "read", channel |-> c, says |-> s, baseline |-> BaselineOf(c)]]
          /\ crossed' = IF \E o \in Recorders : recording[o].at = "read" /\ recording[o].channel = c
                        THEN crossed \union {c} ELSE crossed
    BY DEF BeginRecord
  <1> DEFINE new == [at |-> "read", channel |-> c, says |-> s, baseline |-> BaselineOf(c)]
  <1>2. BaselineOf(c) \in KnownStatus
    BY LatestKnown DEF HealthInv
  <1>3. /\ HealthTypeOK
        /\ recording[r].at = "idle" /\ recordings < MaxRecordings /\ recordings' = recordings + 1
        /\ column' = column /\ events' = events /\ lastSaid' = lastSaid
        /\ crossed \subseteq crossed' /\ crossed' \subseteq Integrations
    BY <1>1 DEF BeginRecord, HealthInv, HealthTypeOK
  <1>4. \A o \in Recorders : recording'[o] = IF o = r THEN new ELSE recording[o]
    BY <1>1, <1>3 DEF HealthTypeOK
  <1>5. HealthTypeOK'
    <2>1. new \in [at : {"idle", "read"}, channel : Integrations, says : KnownStatus, baseline : KnownStatus]
      BY <1>2 DEF KnownStatus
    <2>2. recordings' \in 0..MaxRecordings
      BY <1>3 DEF HealthTypeOK, IntegrationHealthAssumption
    <2> QED
      BY <1>1, <1>3, <2>1, <2>2 DEF HealthTypeOK
  <1>6. Alone'
    BY <1>1, <1>3, <1>4 DEF Alone, HealthInv
  <1>7. ASSUME NEW d \in Integrations \ crossed'
        PROVE  Straight(d)'
    <2>1. Straight(d)
      BY <1>3 DEF HealthInv
    <2>2. LatestEvent(d)' = LatestEvent(d)
      BY <1>3 DEF LatestEvent
    <2>3. ASSUME NEW o \in Recorders, recording'[o].at = "read", recording'[o].channel = d
          PROVE  recording'[o].baseline = lastSaid[d]
      <3>1. CASE o = r
        <4>1. d = c /\ recording'[o].baseline = BaselineOf(c)
          BY <1>4, <2>3, <3>1
        <4> QED
          BY <2>1, <4>1 DEF Straight, BaselineOf, HealthInv
      <3>2. CASE o # r
        BY <1>4, <2>1, <2>3, <3>2 DEF Straight
      <3> QED
        BY <3>1, <3>2
    <2> QED
      BY <1>3, <2>1, <2>2, <2>3 DEF Straight
  <1> QED
    BY <1>3, <1>4, <1>5, <1>6, <1>7 DEF HealthInv

LEMMA EndKeeps ==
  ASSUME HealthInv, NEW r \in Recorders, recording' = [recording EXCEPT ![r] = Idle],
         UNCHANGED <<recordings, crossed>>
  PROVE  /\ \A o \in Recorders : recording'[o].at = "read" => recording'[o].says \in HealthStatus
         /\ recording' \in [Recorders -> [at : {"idle", "read"}, channel : Integrations,
                                          says : KnownStatus, baseline : KnownStatus]]
         /\ \A o \in Recorders : recording'[o] = IF o = r THEN Idle ELSE recording[o]
         /\ Alone'
  <1>1. Idle \in [at : {"idle", "read"}, channel : Integrations, says : KnownStatus, baseline : KnownStatus]
    BY DEF Idle, Integrations, KnownStatus
  <1>2. \A o \in Recorders : recording'[o] = IF o = r THEN Idle ELSE recording[o]
    BY DEF HealthInv, HealthTypeOK
  <1>3. Alone'
    BY <1>2 DEF Alone, HealthInv, Idle
  <1> QED
    BY <1>1, <1>2, <1>3 DEF HealthInv, HealthTypeOK, Idle

LEMMA FinishKeeps ==
  ASSUME HealthInv, NEW r \in Recorders, FinishRecord(r)
  PROVE  HealthInv'
  <1>1. PICK c, s : c = recording[r].channel /\ s = recording[r].says
    OBVIOUS
  <1>2. /\ HealthTypeOK /\ c \in Integrations /\ s \in KnownStatus
        /\ recording[r].at = "read" /\ s \in HealthStatus
        /\ recording' = [recording EXCEPT ![r] = Idle] /\ UNCHANGED <<recordings, crossed>>
        /\ lastSaid' = [lastSaid EXCEPT ![c] = s]
        /\ column' = IF c = "SMTP" THEN s ELSE column
        /\ events' = IF recording[r].baseline = s THEN events
                     ELSE [events EXCEPT ![c] = Append(@, s)]
        /\ column = lastSaid["SMTP"]
    BY <1>1 DEF HealthInv, HealthTypeOK, FinishRecord
  <1>3. /\ recording' \in [Recorders -> [at : {"idle", "read"}, channel : Integrations,
                                         says : KnownStatus, baseline : KnownStatus]]
        /\ Alone'
        /\ \A o \in Recorders : recording'[o].at = "read" => recording'[o].says \in HealthStatus
        /\ \A o \in Recorders : recording'[o] = IF o = r THEN Idle ELSE recording[o]
    BY <1>2, EndKeeps
  <1>4. /\ \A d \in Integrations : lastSaid'[d] = IF d = c THEN s ELSE lastSaid[d]
        /\ lastSaid' \in [Integrations -> KnownStatus]
    BY <1>2 DEF HealthTypeOK, KnownStatus
  <1>5. /\ \A d \in Integrations \ {c} : events'[d] = events[d]
        /\ events'[c] = IF recording[r].baseline = s THEN events[c] ELSE Append(events[c], s)
        /\ events' \in [Integrations -> Seq(HealthStatus)]
    BY <1>2 DEF HealthTypeOK
  <1>6. HealthTypeOK' /\ column' = lastSaid'["SMTP"]
    BY <1>2, <1>3, <1>4, <1>5 DEF HealthTypeOK, KnownStatus, Integrations
  <1>7. ASSUME NEW d \in Integrations \ crossed', d # c
        PROVE  Straight(d)'
    BY <1>2, <1>3, <1>4, <1>5, <1>7 DEF Straight, LatestEvent, Idle, HealthInv
  <1>8. ASSUME c \notin crossed
        PROVE  Straight(c)'
    <2>1. /\ Straight(c) /\ recording[r].baseline = lastSaid[c]
          /\ events[c] \in Seq(HealthStatus) /\ events'[c] \in Seq(HealthStatus)
      BY <1>1, <1>2, <1>5, <1>8 DEF Straight, HealthInv, HealthTypeOK
    <2>2. \A o \in Recorders : recording'[o].at = "read" => recording'[o].channel # c
      BY <1>1, <1>2, <1>3, <1>8 DEF Idle, Alone, HealthInv
    <2>3. CASE lastSaid[c] = s
      BY <1>2, <1>4, <1>5, <2>1, <2>2, <2>3 DEF Straight, LatestEvent
    <2>4. CASE lastSaid[c] # s
      <3>1. PICK old : old = events[c] /\ old \in Seq(HealthStatus) /\ events'[c] = Append(old, s)
        BY <1>5, <2>1, <2>4
      <3>2. Append(old, s) # <<>> /\ Append(old, s)[Len(Append(old, s))] = s
        BY <3>1, <1>2
      <3>3. ASSUME NEW i \in 2..Len(Append(old, s))
            PROVE  Append(old, s)[i] # Append(old, s)[i - 1]
        <4>1. /\ Len(old) \in Nat /\ Len(Append(old, s)) = Len(old) + 1
              /\ \A n \in 1..Len(old) : Append(old, s)[n] = old[n]
              /\ Append(old, s)[Len(old) + 1] = s
          BY <1>2, <3>1
        <4>2. CASE i \in 2..Len(old)
          <5>1. i \in 1..Len(old) /\ i - 1 \in 1..Len(old) /\ old[i] # old[i - 1]
            BY <2>1, <3>1, <4>1, <4>2 DEF Straight
          <5> QED
            BY <4>1, <5>1
        <4>3. CASE i = Len(old) + 1
          <5>1. Len(old) \in 1..Len(old) /\ i - 1 = Len(old) /\ old # <<>>
            BY <3>1, <4>1, <4>3
          <5>2. old[Len(old)] = lastSaid[c]
            BY <2>1, <3>1, <5>1 DEF Straight, LatestEvent
          <5> QED
            BY <2>4, <4>1, <4>3, <5>1, <5>2
        <4> QED
          BY <4>1, <4>2, <4>3
      <3> QED
        BY <1>2, <1>4, <2>2, <3>1, <3>2, <3>3 DEF Straight, LatestEvent
    <2> QED
      BY <2>3, <2>4
  <1> QED
    BY <1>2, <1>3, <1>6, <1>7, <1>8 DEF HealthInv

LEMMA DropKeeps ==
  ASSUME HealthInv, NEW r \in Recorders, DropRecord(r)
  PROVE  HealthInv'
  <1>1. recording' = [recording EXCEPT ![r] = Idle] /\ UNCHANGED <<column, events, recordings, lastSaid, crossed>>
    BY DEF DropRecord
  <1>2. /\ HealthTypeOK' /\ Alone'
        /\ \A o \in Recorders : recording'[o].at = "read" => recording'[o].says \in HealthStatus
        /\ \A o \in Recorders : recording'[o] = IF o = r THEN Idle ELSE recording[o]
    BY <1>1, EndKeeps DEF HealthTypeOK, HealthInv
  <1>3. \A c \in Integrations \ crossed' : Straight(c)'
    BY <1>1, <1>2 DEF Straight, LatestEvent, Idle, HealthInv
  <1> QED
    BY <1>1, <1>2, <1>3 DEF HealthInv

\* The log of a channel is true to what was last found out about it.
THEOREM HealthIsTold ==
  ASSUME IntegrationHealthAssumption
  PROVE  HealthSpec => []HealthTold
  <1>1. HealthInit => HealthInv
    BY HealthInitInv
  <1>2. HealthInv /\ [HealthNext]_healthVars => HealthInv'
    <2> SUFFICES ASSUME HealthInv, [HealthNext]_healthVars
                 PROVE  HealthInv'
      OBVIOUS
    <2>1. CASE UNCHANGED healthVars
      BY <2>1 DEF healthVars, HealthInv, HealthTypeOK, Alone, Straight, LatestEvent
    <2>2. ASSUME NEW r \in Recorders, BeginRecord(r) \/ FinishRecord(r) \/ DropRecord(r)
          PROVE  HealthInv'
      BY <2>2, BeginKeeps, FinishKeeps, DropKeeps
    <2> QED
      BY <2>1, <2>2 DEF HealthNext
  <1>3. HealthInv => HealthTold
    BY DEF HealthInv, HealthTold, Straight
  <1> QED
    BY <1>1, <1>2, <1>3, PTL DEF HealthSpec

-----------------------------------------------------------------------------
(* CATALOGUE                                                               *)

Quoted(c, q) == [code |-> c, rate |-> q.rate, date |-> q.date] \in quoted

(* Row n of package p is of one version of it.                             *)
Published(p, n) ==
    \E v \in published :
        v.offer = p /\ v.name = n.name /\ v.kind = n.kind /\ (v.spec # 0 => v.spec = n.spec)

CatalogueTypes ==
    /\ currencies \in [Codes -> Quote]
    /\ packages \in [Offers -> Version \union {NoVersion}]
    /\ agreed \in [Sold -> Sale]
    /\ seller = [e \in Sellers |-> seller[e]]

PackagesWhole == \A p \in Offers : packages[p] # NoVersion => Published(p, packages[p])

CurrencyForm(f) ==
    f.form = "currency" => f.id \in Codes
        /\ (f.at = "read" => f.data \in Quote /\ Quotable(f.id, f.data) /\ Quoted(f.id, f.data))

PackageForm(f) ==
    f.form = "package" => f.id \in Offers
        /\ (f.at = "read" => f.data \in Version /\ Published(f.id, f.data))

(* A save has read a version of the package that it names, and then a rate *)
(* of the currency that it names.                                          *)
SaleForm(f) ==
    f.form = "sale" =>
        /\ f.at \in {"found", "checked", "read"} => f.data.deal \in Deal
        /\ f.at \in {"checked", "read"} =>
               /\ f.data.entry \in Version \union {NoVersion}
               /\ f.data.deal.package # Unset => Published(f.data.deal.package, f.data.entry)
        /\ f.at = "read" => f.data.quote \in Quote /\ Quoted(f.data.deal.currency, f.data.quote)

FormsWhole ==
    \A e \in Sellers : seller[e] # Closed =>
        CurrencyForm(seller[e]) /\ PackageForm(seller[e]) /\ SaleForm(seller[e])

CatalogueInv == CatalogueTypes /\ SoldAsPublished /\ PackagesWhole /\ FormsWhole

LEMMA CatalogueInitInv ==
  ASSUME CatalogueAssumption, CatalogueInit
  PROVE  CatalogueInv
  <1>1. CatalogueTypes
    <2>1. NoSale \in Sale
      BY DEF NoSale, Sale
    <2>2. NoQuote \in Quote /\ [rate |-> 1, date |-> 1, active |-> TRUE] \in Quote
      BY DEF NoQuote, Quote
    <2>3. \A t \in Services : Migrated(t) \in Sale
      BY <2>1 DEF Migrated, Sale, CatalogueAssumption
    <2> QED
      BY <2>1, <2>2, <2>3 DEF CatalogueInit, CatalogueTypes
  <1>2. RatesWhole
    BY DEF CatalogueInit, CatalogueAssumption, RatesWhole
  <1>3. \A s \in Sold : PricedAsQuoted(s) /\ PicturedAsPublished(s)
    <2> TAKE s \in Sold
    <2>1. CASE agreed[s] = NoSale
      BY <2>1 DEF PricedAsQuoted, PicturedAsPublished, NoSale
    <2>2. ASSUME NEW t \in Services, agreed[s] = Migrated(t)
          PROVE  PricedAsQuoted(s) /\ PicturedAsPublished(s)
      <3>1. /\ agreed[s].currency = Jod /\ agreed[s].price = 1 /\ agreed[s].rate = 1
            /\ agreed[s].date = 1 /\ agreed[s].jod = 1 /\ agreed[s].package = Unset
        BY <2>2 DEF Migrated, NoSale
      <3> QED
        BY <3>1 DEF CatalogueInit, PricedAsQuoted, PicturedAsPublished
    <2> QED
      BY <2>1, <2>2 DEF CatalogueInit
  <1> QED
    BY <1>1, <1>2, <1>3
    DEF CatalogueInit, CatalogueInv, SoldAsPublished, PackagesWhole, FormsWhole

(* What was entered stays entered, so that a form or a row that is left    *)
(* alone stays whole.                                                      *)
LEMMA OtherForms ==
  ASSUME NEW e \in Sellers, CatalogueTypes, FormsWhole,
         quoted \subseteq quoted', published \subseteq published',
         seller' = [seller EXCEPT ![e] = seller'[e]],
         (seller[e] # Closed =>
             CurrencyForm(seller[e]) /\ PackageForm(seller[e]) /\ SaleForm(seller[e]))'
  PROVE  FormsWhole' /\ (seller = [f \in Sellers |-> seller[f]])'
  <1>1. \A f \in Sellers \ {e} : seller'[f] = seller[f]
    BY DEF CatalogueTypes
  <1>2. (seller = [f \in Sellers |-> seller[f]])'
    BY DEF CatalogueTypes
  <1>3. \A p, n : Published(p, n) => Published(p, n)'
    BY DEF Published
  <1>4. \A c, q : Quoted(c, q) => Quoted(c, q)'
    BY DEF Quoted
  <1>5. ASSUME NEW f \in Sellers, seller'[f] # Closed, f # e
        PROVE  (CurrencyForm(seller[f]) /\ PackageForm(seller[f]) /\ SaleForm(seller[f]))'
    <2>1. CurrencyForm(seller[f]) /\ PackageForm(seller[f]) /\ SaleForm(seller[f])
      BY <1>1, <1>5 DEF FormsWhole
    <2>2. CurrencyForm(seller[f])'
      BY <1>1, <1>4, <1>5, <2>1 DEF CurrencyForm
    <2>3. PackageForm(seller[f])'
      BY <1>1, <1>3, <1>5, <2>1 DEF PackageForm
    <2>4. SaleForm(seller[f])'
      BY <1>1, <1>3, <1>4, <1>5, <2>1 DEF SaleForm
    <2> QED
      BY <2>2, <2>3, <2>4
  <1> QED
    BY <1>2, <1>5 DEF FormsWhole

LEMMA OtherRows ==
  ASSUME quoted \subseteq quoted', published \subseteq published'
  PROVE  /\ \A c, q : Quoted(c, q) => Quoted(c, q)'
         /\ \A p, n : Published(p, n) => Published(p, n)'
         /\ \A s : agreed'[s] = agreed[s] /\ PricedAsQuoted(s) => PricedAsQuoted(s)'
         /\ \A s : agreed'[s] = agreed[s] /\ PicturedAsPublished(s) => PicturedAsPublished(s)'
  BY DEF Quoted, Published, PricedAsQuoted, PicturedAsPublished

(* Rows alone, only a form moves.                                          *)
LEMMA RowsKept ==
  ASSUME NEW e \in Sellers, CatalogueInv,
         quoted \subseteq quoted', published \subseteq published',
         UNCHANGED <<currencies, packages, agreed>>,
         seller' = [seller EXCEPT ![e] = seller'[e]],
         (seller[e] # Closed =>
             CurrencyForm(seller[e]) /\ PackageForm(seller[e]) /\ SaleForm(seller[e]))'
  PROVE  CatalogueInv'
  <1>1. FormsWhole' /\ CatalogueTypes'
    BY OtherForms DEF CatalogueInv, CatalogueTypes
  <1>2. RatesWhole'
    BY DEF CatalogueInv, SoldAsPublished, RatesWhole
  <1>3. \A s \in Sold : PricedAsQuoted(s)' /\ PicturedAsPublished(s)'
    BY OtherRows DEF CatalogueInv, SoldAsPublished
  <1>4. PackagesWhole'
    BY OtherRows DEF CatalogueInv, PackagesWhole
  <1> QED
    BY <1>1, <1>2, <1>3, <1>4 DEF CatalogueInv, SoldAsPublished

LEMMA OpensKeep ==
  ASSUME CatalogueAssumption, CatalogueInv, NEW e \in Sellers,
         \/ Cancel(e)
         \/ \E c \in Codes : OpenCurrency(e, c)
         \/ \E p \in Offers : OpenPackage(e, p)
         \/ OpenNewSale(e)
         \/ \E s \in Sold : OpenSale(e, s)
  PROVE  CatalogueInv'
  <1>1. seller = [f \in Sellers |-> seller[f]]
    BY DEF CatalogueInv, CatalogueTypes
  <1>2. UNCHANGED <<moneyVars, packageVars, agreed>>
    BY DEF Cancel, OpenCurrency, OpenPackage, OpenNewSale, OpenSale, Opens
  <1>3. seller' = [seller EXCEPT ![e] = seller'[e]]
    BY <1>1 DEF Cancel, OpenCurrency, OpenPackage, OpenNewSale, OpenSale, Opens
  <1>4. (seller[e] # Closed =>
            CurrencyForm(seller[e]) /\ PackageForm(seller[e]) /\ SaleForm(seller[e]))'
    BY <1>1 DEF Cancel, OpenCurrency, OpenPackage, OpenNewSale, OpenSale, Opens, CurrencyForm,
                PackageForm, SaleForm
  <1> QED
    BY <1>2, <1>3, <1>4, RowsKept DEF moneyVars, packageVars

LEMMA EnterCurrencyKeeps ==
  ASSUME CatalogueAssumption, CatalogueInv, NEW e \in Sellers, NEW q \in Quotes,
         EnterCurrency(e, q)
  PROVE  CatalogueInv'
  <1>1. /\ seller = [f \in Sellers |-> seller[f]]
        /\ q \in Quote
        /\ seller[e] # Closed /\ seller[e].form = "currency" /\ seller[e].at = "form"
        /\ seller[e].id \in Codes /\ Quotable(seller[e].id, q)
    BY DEF CatalogueInv, CatalogueTypes, CatalogueAssumption, EnterCurrency, Holds, FormsWhole,
           CurrencyForm
  <1>2. seller' = [seller EXCEPT ![e] = [form |-> "currency", at |-> "read", id |-> seller[e].id,
                                         new |-> seller[e].new, data |-> q]]
    BY <1>1 DEF EnterCurrency, Carries
  <1>3. /\ quoted' = quoted \union {[code |-> seller[e].id, rate |-> q.rate, date |-> q.date]}
        /\ UNCHANGED <<currencies, packages, published, agreed>>
    BY DEF EnterCurrency, packageVars
  <1>4. (CurrencyForm(seller[e]) /\ PackageForm(seller[e]) /\ SaleForm(seller[e]))'
    BY <1>1, <1>2, <1>3 DEF CurrencyForm, PackageForm, SaleForm, Quoted, Quotable
  <1> QED
    BY <1>1, <1>2, <1>3, <1>4, RowsKept

LEMMA WriteCurrencyKeeps ==
  ASSUME CatalogueAssumption, CatalogueInv, NEW e \in Sellers, WriteCurrency(e)
  PROVE  CatalogueInv'
  <1>1. /\ seller = [f \in Sellers |-> seller[f]]
        /\ seller[e] # Closed /\ seller[e].form = "currency"
        /\ seller[e].id \in Codes /\ seller[e].data \in Quote
        /\ Quotable(seller[e].id, seller[e].data) /\ Quoted(seller[e].id, seller[e].data)
    BY DEF CatalogueInv, CatalogueTypes, WriteCurrency, Holds, FormsWhole, CurrencyForm
  <1>2. /\ UNCHANGED <<quoted, packages, published, agreed>>
        /\ seller' = [seller EXCEPT ![e] = seller'[e]]
    BY <1>1 DEF WriteCurrency, packageVars, BackToForm, Done
  <1>3. (seller[e] # Closed =>
            CurrencyForm(seller[e]) /\ PackageForm(seller[e]) /\ SaleForm(seller[e]))'
    BY <1>1 DEF WriteCurrency, BackToForm, Done, CurrencyForm, PackageForm, SaleForm
  <1>4. \/ UNCHANGED currencies
        \/ currencies' = [currencies EXCEPT ![seller[e].id] = seller[e].data]
    BY DEF WriteCurrency
  <1>5. CatalogueTypes' /\ FormsWhole'
    BY <1>1, <1>2, <1>3, <1>4, OtherForms DEF CatalogueInv, CatalogueTypes
  <1>6. RatesWhole'
    BY <1>1, <1>2, <1>4
    DEF CatalogueInv, CatalogueTypes, SoldAsPublished, RatesWhole, Quoted, Quotable, Quote,
        CatalogueAssumption
  <1>7. PackagesWhole' /\ \A s \in Sold : PricedAsQuoted(s)' /\ PicturedAsPublished(s)'
    BY <1>2, OtherRows DEF CatalogueInv, SoldAsPublished, PackagesWhole
  <1> QED
    BY <1>5, <1>6, <1>7 DEF CatalogueInv, SoldAsPublished

LEMMA EnterPackageKeeps ==
  ASSUME CatalogueAssumption, CatalogueInv, NEW e \in Sellers, NEW n \in Versions,
         EnterPackage(e, n)
  PROVE  CatalogueInv'
  <1>1. /\ seller = [f \in Sellers |-> seller[f]]
        /\ n \in Version
        /\ seller[e] # Closed /\ seller[e].form = "package" /\ seller[e].id \in Offers
    BY DEF CatalogueInv, CatalogueTypes, CatalogueAssumption, EnterPackage, Holds, FormsWhole,
           PackageForm
  <1>2. seller' = [seller EXCEPT ![e] = [form |-> "package", at |-> "read", id |-> seller[e].id,
                                         new |-> seller[e].new, data |-> n]]
    BY <1>1 DEF EnterPackage, Carries
  <1>3. /\ published' = published \union {[offer |-> seller[e].id, name |-> n.name,
                                           kind |-> n.kind, spec |-> n.spec, terms |-> n.terms]}
        /\ UNCHANGED <<currencies, packages, quoted, agreed>>
    BY DEF EnterPackage, moneyVars
  <1>4. Published(seller[e].id, n)'
    <2> DEFINE v == [offer |-> seller[e].id, name |-> n.name, kind |-> n.kind,
                     spec |-> n.spec, terms |-> n.terms]
    <2>1. v \in published' /\ v.offer = seller[e].id /\ v.name = n.name /\ v.kind = n.kind
          /\ v.spec = n.spec
      BY <1>3
    <2>2. \E w \in published' : w.offer = seller[e].id /\ w.name = n.name /\ w.kind = n.kind
                                /\ (w.spec # 0 => w.spec = n.spec)
      BY <2>1
    <2> HIDE DEF v
    <2>3. \A p : Published(p, n)' <=>
              \E w \in published' : w.offer = p /\ w.name = n.name /\ w.kind = n.kind
                                    /\ (w.spec # 0 => w.spec = n.spec)
      BY DEF Published
    <2> QED
      BY <1>1, <1>2, <2>2, <2>3
  <1>5. (CurrencyForm(seller[e]) /\ PackageForm(seller[e]) /\ SaleForm(seller[e]))'
    BY <1>1, <1>2, <1>4 DEF CurrencyForm, PackageForm, SaleForm
  <1> QED
    BY <1>1, <1>2, <1>3, <1>5, RowsKept

LEMMA WritePackageKeeps ==
  ASSUME CatalogueAssumption, CatalogueInv, NEW e \in Sellers, WritePackage(e)
  PROVE  CatalogueInv'
  <1>1. /\ seller = [f \in Sellers |-> seller[f]]
        /\ seller[e] # Closed /\ seller[e].form = "package"
        /\ seller[e].id \in Offers /\ seller[e].data \in Version
        /\ Published(seller[e].id, seller[e].data)
    BY DEF CatalogueInv, CatalogueTypes, WritePackage, Holds, FormsWhole, PackageForm
  <1>2. /\ UNCHANGED <<currencies, quoted, published, agreed>>
        /\ seller' = [seller EXCEPT ![e] = seller'[e]]
    BY <1>1 DEF WritePackage, moneyVars, BackToForm, Done
  <1>3. (seller[e] # Closed =>
            CurrencyForm(seller[e]) /\ PackageForm(seller[e]) /\ SaleForm(seller[e]))'
    BY <1>1 DEF WritePackage, BackToForm, Done, CurrencyForm, PackageForm, SaleForm
  <1> DEFINE row == Republished(packages[seller[e].id], seller[e].data)
  <1>4. UNCHANGED packages \/ packages' = [packages EXCEPT ![seller[e].id] = row]
    BY DEF WritePackage
  <1>5. packages[seller[e].id] \in Version \union {NoVersion}
    BY <1>1 DEF CatalogueInv, CatalogueTypes
  <1>6. row \in Version /\ row.name = seller[e].data.name /\ row.kind = seller[e].data.kind
        /\ (seller[e].data.spec # 0 => row.spec = seller[e].data.spec)
    BY <1>1, <1>5 DEF Republished, Version, NoVersion
  <1>7. Published(seller[e].id, row)
    BY <1>1, <1>6 DEF Published
  <1> HIDE DEF row
  <1>8. CatalogueTypes' /\ FormsWhole'
    BY <1>1, <1>2, <1>3, <1>4, <1>6, OtherForms DEF CatalogueInv, CatalogueTypes
  <1>9. PackagesWhole'
    <2> SUFFICES ASSUME NEW p \in Offers, packages'[p] # NoVersion
                 PROVE  Published(p, packages[p])'
      BY DEF PackagesWhole
    <2>1. packages'[p] = packages[p] \/ (p = seller[e].id /\ packages'[p] = row)
      BY <1>1, <1>4 DEF CatalogueInv, CatalogueTypes
    <2>2. Published(p, packages'[p])
      BY <1>7, <2>1 DEF CatalogueInv, PackagesWhole
    <2> QED
      BY <1>2, <2>2 DEF Published
  <1>10. RatesWhole' /\ \A s \in Sold : PricedAsQuoted(s)' /\ PicturedAsPublished(s)'
    BY <1>2, OtherRows DEF CatalogueInv, SoldAsPublished, RatesWhole
  <1> QED
    BY <1>8, <1>9, <1>10 DEF CatalogueInv, SoldAsPublished

LEMMA EnterSaleKeeps ==
  ASSUME CatalogueAssumption, CatalogueInv, NEW e \in Sellers, NEW d \in Deals, EnterSale(e, d)
  PROVE  CatalogueInv'
  <1> DEFINE old == IF seller[e].new THEN NoSale ELSE agreed[seller[e].id]
  <1>1. /\ seller = [f \in Sellers |-> seller[f]]
        /\ d \in Deal
        /\ seller[e].form = "sale"
    BY DEF CatalogueInv, CatalogueTypes, CatalogueAssumption, EnterSale, Holds
  <1>2. seller' = [seller EXCEPT ![e] =
            [form |-> "sale", at |-> "found", id |-> seller[e].id, new |-> seller[e].new,
             data |-> [deal |-> d, old |-> old]]]
    BY <1>1 DEF EnterSale, Carries
  <1>3. UNCHANGED <<currencies, quoted, packages, published, agreed>>
    BY DEF EnterSale, moneyVars, packageVars
  <1> HIDE DEF old
  <1>4. (CurrencyForm(seller[e]) /\ PackageForm(seller[e]) /\ SaleForm(seller[e]))'
    BY <1>1, <1>2 DEF CurrencyForm, PackageForm, SaleForm
  <1> QED
    BY <1>1, <1>2, <1>3, <1>4, RowsKept

LEMMA RequireParentsKeeps ==
  ASSUME CatalogueAssumption, CatalogueInv, NEW e \in Sellers, RequireParents(e)
  PROVE  CatalogueInv'
  <1> DEFINE d == seller[e].data
             entry == IF d.deal.package = Unset THEN NoVersion ELSE packages[d.deal.package]
  <1>1. /\ seller = [f \in Sellers |-> seller[f]]
        /\ seller[e] # Closed /\ seller[e].form = "sale" /\ d.deal \in Deal
    BY DEF CatalogueInv, CatalogueTypes, RequireParents, Holds, FormsWhole, SaleForm
  <1>2. UNCHANGED <<currencies, quoted, packages, published, agreed>>
    BY DEF RequireParents, moneyVars, packageVars
  <1>3. CASE BackToForm(e)
    BY <1>1, <1>2, <1>3, RowsKept DEF BackToForm, CurrencyForm, PackageForm, SaleForm
  <1>4. CASE Sellable(d) /\ Carries(e, "checked", [deal |-> d.deal, old |-> d.old,
                                                   entry |-> entry])
    <2>1. d.deal.package \in Offers \union {Unset}
      BY <1>1 DEF Deal
    <2>2. entry \in Version \union {NoVersion}
      BY <2>1 DEF CatalogueInv, CatalogueTypes
    <2>3. d.deal.package # Unset => packages[d.deal.package] # NoVersion
      BY <1>4 DEF Sellable, Considered, NoVersion
    <2>4. d.deal.package # Unset => Published(d.deal.package, entry)
      BY <2>1, <2>3 DEF CatalogueInv, PackagesWhole
    <2>5. seller' = [seller EXCEPT ![e] =
              [form |-> "sale", at |-> "checked", id |-> seller[e].id, new |-> seller[e].new,
               data |-> [deal |-> d.deal, old |-> d.old, entry |-> entry]]]
      BY <1>1, <1>4 DEF Carries
    <2> HIDE DEF entry, d
    <2>6. \A p, n : Published(p, n) => Published(p, n)'
      BY <1>2 DEF Published
    <2>7. (CurrencyForm(seller[e]) /\ PackageForm(seller[e]) /\ SaleForm(seller[e]))'
      BY <1>1, <2>2, <2>4, <2>5, <2>6 DEF CurrencyForm, PackageForm, SaleForm
    <2> QED
      BY <1>1, <1>2, <2>5, <2>7, RowsKept
  <1> QED
    BY <1>3, <1>4 DEF RequireParents

LEMMA RequireCurrencyKeeps ==
  ASSUME CatalogueAssumption, CatalogueInv, NEW e \in Sellers, RequireCurrency(e)
  PROVE  CatalogueInv'
  <1> DEFINE d == seller[e].data
             q == currencies[d.deal.currency]
  <1>1. /\ seller = [f \in Sellers |-> seller[f]]
        /\ seller[e] # Closed /\ seller[e].form = "sale" /\ seller[e].at = "checked"
        /\ SaleForm(seller[e])
    BY DEF CatalogueInv, CatalogueTypes, RequireCurrency, Holds, FormsWhole
  <1>2. UNCHANGED <<currencies, quoted, packages, published, agreed>>
    BY DEF RequireCurrency, moneyVars, packageVars
  <1>3. CASE BackToForm(e)
    BY <1>1, <1>2, <1>3, RowsKept DEF BackToForm, CurrencyForm, PackageForm, SaleForm
  <1>4. CASE q # NoQuote /\ Carries(e, "read", [deal |-> d.deal, old |-> d.old,
                                                entry |-> d.entry, quote |-> q])
    <2>1. /\ d.deal \in Deal /\ d.entry \in Version \union {NoVersion}
          /\ d.deal.package # Unset => Published(d.deal.package, d.entry)
      BY <1>1 DEF SaleForm
    <2>2. d.deal.currency \in Codes
      BY <2>1 DEF Deal
    <2>3. q \in Quote /\ Quoted(d.deal.currency, q)
      BY <1>4, <2>2 DEF CatalogueInv, CatalogueTypes, SoldAsPublished, RatesWhole, Quoted
    <2>4. seller' = [seller EXCEPT ![e] =
              [form |-> "sale", at |-> "read", id |-> seller[e].id, new |-> seller[e].new,
               data |-> [deal |-> d.deal, old |-> d.old, entry |-> d.entry, quote |-> q]]]
      BY <1>1, <1>4 DEF Carries
    <2> HIDE DEF q, d
    <2>5. \A p, n : Published(p, n) => Published(p, n)'
      BY <1>2 DEF Published
    <2>6. \A c, r : Quoted(c, r) => Quoted(c, r)'
      BY <1>2 DEF Quoted
    <2>7. (CurrencyForm(seller[e]) /\ PackageForm(seller[e]) /\ SaleForm(seller[e]))'
      BY <1>1, <2>1, <2>3, <2>4, <2>5, <2>6 DEF CurrencyForm, PackageForm, SaleForm
    <2> QED
      BY <1>1, <1>2, <2>4, <2>7, RowsKept
  <1> QED
    BY <1>3, <1>4 DEF RequireCurrency

LEMMA SavedWhole ==
  ASSUME NEW row \in Sale, NEW d, d.deal \in Deal, d.entry \in Version \union {NoVersion},
         d.quote \in Quote
  PROVE  /\ Saved(row, d) \in Sale
         /\ Saved(row, d).currency = d.deal.currency
         /\ Saved(row, d).price = d.deal.price
         /\ Saved(row, d).rate = d.quote.rate
         /\ Saved(row, d).date = d.quote.date
         /\ Saved(row, d).jod = d.deal.price * d.quote.rate
         /\ d.deal.package = Unset => Saved(row, d).package = row.package
                /\ Saved(row, d).name = row.name /\ Saved(row, d).custom = row.custom
                /\ Saved(row, d).spec = row.spec
         /\ d.deal.package # Unset => Saved(row, d).package = d.deal.package
                /\ Saved(row, d).name = d.entry.name
                /\ Saved(row, d).custom = (d.entry.kind = "CUSTOM_TEMPLATE")
                /\ (d.entry.spec # 0 => Saved(row, d).spec = d.entry.spec)
  <1>1. /\ d.quote.rate \in Nat /\ d.quote.date \in Nat
        /\ d.deal.price \in Nat /\ d.deal.price * d.quote.rate \in Nat
        /\ d.entry.name \in Nat /\ d.entry.spec \in Nat
        /\ d.deal.currency \in Codes /\ d.deal.type \in Services
        /\ d.deal.package \in Offers \union {Unset}
    BY DEF Quote, Deal, Version, NoVersion
  <1> DEFINE typed == [row EXCEPT !.type = d.deal.type]
             shown == Pictured(typed, d)
  <1>2. typed \in Sale /\ typed.package = row.package /\ typed.name = row.name
        /\ typed.custom = row.custom /\ typed.spec = row.spec
    BY <1>1 DEF Sale
  <1>3. shown \in Sale
    <2>1. CASE d.deal.package = Unset
      BY <2>1, <1>2 DEF Pictured
    <2>2. CASE d.deal.package # Unset
      <3> DEFINE isCustom == d.entry.kind = "CUSTOM_TEMPLATE"
      <3>1. isCustom \in BOOLEAN
        OBVIOUS
      <3>2. shown = [typed EXCEPT !.package = d.deal.package, !.name = d.entry.name,
                         !.custom = isCustom,
                         !.spec = IF d.entry.spec = 0 THEN @ ELSE d.entry.spec]
        BY <2>2 DEF Pictured
      <3> HIDE DEF isCustom, typed, shown
      <3> QED
        BY <3>1, <3>2, <1>1, <1>2 DEF Sale
    <2> QED
      BY <2>1, <2>2
  <1>4. d.deal.package = Unset => shown = typed
    BY DEF Pictured
  <1>5. d.deal.package # Unset =>
            /\ shown.package = d.deal.package /\ shown.name = d.entry.name
            /\ shown.custom = (d.entry.kind = "CUSTOM_TEMPLATE")
            /\ d.entry.spec # 0 => shown.spec = d.entry.spec
    <2> SUFFICES ASSUME d.deal.package # Unset
                 PROVE  /\ shown.package = d.deal.package /\ shown.name = d.entry.name
                        /\ shown.custom = (d.entry.kind = "CUSTOM_TEMPLATE")
                        /\ d.entry.spec # 0 => shown.spec = d.entry.spec
      OBVIOUS
    <2> HIDE DEF typed
    <2> DEFINE isCustom == d.entry.kind = "CUSTOM_TEMPLATE"
    <2>1. shown = [typed EXCEPT !.package = d.deal.package, !.name = d.entry.name,
                       !.custom = isCustom,
                       !.spec = IF d.entry.spec = 0 THEN @ ELSE d.entry.spec]
      BY DEF Pictured
    <2> HIDE DEF shown, isCustom
    <2>2. shown.custom = isCustom
      BY <2>1, <1>2 DEF Sale
    <2>3. shown.package = d.deal.package /\ shown.name = d.entry.name
          /\ (d.entry.spec # 0 => shown.spec = d.entry.spec)
      BY <2>1, <1>2 DEF Sale
    <2> QED
      BY <2>2, <2>3 DEF isCustom
  <1>6. Saved(row, d) = [shown EXCEPT !.currency = d.deal.currency, !.price = d.deal.price,
                            !.rate = d.quote.rate, !.date = d.quote.date,
                            !.jod = d.deal.price * d.quote.rate]
    BY DEF Saved, Repriced
  <1> HIDE DEF shown
  <1>7. /\ Saved(row, d) \in Sale
        /\ Saved(row, d).currency = d.deal.currency /\ Saved(row, d).price = d.deal.price
        /\ Saved(row, d).rate = d.quote.rate /\ Saved(row, d).date = d.quote.date
        /\ Saved(row, d).jod = d.deal.price * d.quote.rate
    BY <1>1, <1>3, <1>6 DEF Sale
  <1>8. /\ Saved(row, d).package = shown.package /\ Saved(row, d).name = shown.name
        /\ Saved(row, d).custom = shown.custom /\ Saved(row, d).spec = shown.spec
    BY <1>3, <1>6 DEF Sale
  <1> HIDE DEF typed
  <1> QED
    BY <1>2, <1>4, <1>5, <1>7, <1>8

LEMMA WriteSaleKeeps ==
  ASSUME CatalogueAssumption, CatalogueInv, NEW e \in Sellers, WriteSale(e)
  PROVE  CatalogueInv'
  <1> DEFINE d == seller[e].data
  <1>1. /\ seller = [f \in Sellers |-> seller[f]]
        /\ SaleForm(seller[e]) /\ seller[e].form = "sale" /\ seller[e].at = "read"
    BY DEF CatalogueInv, CatalogueTypes, WriteSale, Holds, FormsWhole
  <1>2. /\ d.deal \in Deal /\ d.entry \in Version \union {NoVersion} /\ d.quote \in Quote
        /\ d.deal.package # Unset => Published(d.deal.package, d.entry)
        /\ Quoted(d.deal.currency, d.quote)
    BY <1>1 DEF SaleForm
  <1>3. /\ UNCHANGED <<currencies, quoted, packages, published>>
        /\ seller' = [seller EXCEPT ![e] = Closed]
    BY DEF WriteSale, moneyVars, packageVars, Done
  <1>4. PICK s \in Sold : agreed' = [agreed EXCEPT ![s] = Saved(agreed[s], d)]
    BY DEF WriteSale
  <1>5. agreed[s] \in Sale /\ agreed'[s] = Saved(agreed[s], d)
    BY <1>4 DEF CatalogueInv, CatalogueTypes
  <1> HIDE DEF d
  <1>6. CatalogueTypes' /\ FormsWhole'
    <2>1. Saved(agreed[s], d) \in Sale
      BY <1>2, <1>5, SavedWhole
    <2> QED
      BY <1>1, <1>3, <1>4, <2>1, OtherForms DEF CatalogueInv, CatalogueTypes
  <1>7. PricedAsQuoted(s)'
    <2>1. /\ agreed'[s].jod = agreed'[s].price * agreed'[s].rate
          /\ agreed'[s].currency = d.deal.currency /\ agreed'[s].rate = d.quote.rate
          /\ agreed'[s].date = d.quote.date
      BY <1>2, <1>5, SavedWhole
    <2> QED
      BY <1>2, <1>3, <2>1 DEF PricedAsQuoted, Quoted
  <1>8. PicturedAsPublished(s)'
    <2>1. CASE d.deal.package = Unset
      <3>1. /\ agreed'[s].package = agreed[s].package /\ agreed'[s].name = agreed[s].name
            /\ agreed'[s].custom = agreed[s].custom /\ agreed'[s].spec = agreed[s].spec
        BY <1>2, <1>5, <2>1, SavedWhole
      <3>2. PicturedAsPublished(s)
        BY DEF CatalogueInv, SoldAsPublished
      <3> QED
        BY <1>3, <3>1, <3>2 DEF PicturedAsPublished
    <2>2. CASE d.deal.package # Unset
      <3>1. /\ agreed'[s].package = d.deal.package /\ agreed'[s].name = d.entry.name
            /\ agreed'[s].custom = (d.entry.kind = "CUSTOM_TEMPLATE")
            /\ d.entry.spec # 0 => agreed'[s].spec = d.entry.spec
        BY <1>2, <1>5, <2>2, SavedWhole
      <3>2. PICK v \in published : /\ v.offer = d.deal.package /\ v.name = d.entry.name
                                   /\ v.kind = d.entry.kind
                                   /\ v.spec # 0 => v.spec = d.entry.spec
        BY <1>2, <2>2 DEF Published
      <3> QED
        BY <1>3, <3>1, <3>2 DEF PicturedAsPublished
    <2> QED
      BY <2>1, <2>2
  <1>9. \A r \in Sold : PricedAsQuoted(r)' /\ PicturedAsPublished(r)'
    <2> SUFFICES ASSUME NEW r \in Sold, r # s
                 PROVE  PricedAsQuoted(r)' /\ PicturedAsPublished(r)'
      BY <1>7, <1>8
    <2>1. agreed'[r] = agreed[r]
      BY <1>4 DEF CatalogueInv, CatalogueTypes
    <2> QED
      BY <1>3, <2>1, OtherRows DEF CatalogueInv, SoldAsPublished
  <1>10. RatesWhole' /\ PackagesWhole'
    BY <1>3, OtherRows DEF CatalogueInv, SoldAsPublished, RatesWhole, PackagesWhole
  <1> QED
    BY <1>6, <1>9, <1>10 DEF CatalogueInv, SoldAsPublished

\* What a subscription keeps of its package and its currency is of a piece.
THEOREM SalesAreOfAPiece ==
  ASSUME CatalogueAssumption
  PROVE  CatalogueSpec => []SoldAsPublished
  <1>1. CatalogueInit => CatalogueInv
    BY CatalogueInitInv
  <1>2. CatalogueInv /\ [CatalogueNext]_catalogueVars => CatalogueInv'
    <2> SUFFICES ASSUME CatalogueInv, [CatalogueNext]_catalogueVars
                 PROVE  CatalogueInv'
      OBVIOUS
    <2>1. CASE UNCHANGED <<currencies, quoted, packages, published, agreed, seller>>
      BY <2>1 DEF CatalogueInv, CatalogueTypes, SoldAsPublished, RatesWhole, PricedAsQuoted,
                  PicturedAsPublished, PackagesWhole, FormsWhole, CurrencyForm, PackageForm,
                  SaleForm, Published, Quoted
    <2>2. CASE UNCHANGED catalogueVars \/ \E t \in Services : SwitchType(t)
      BY <2>1, <2>2 DEF catalogueVars, moneyVars, packageVars, SwitchType
    <2>3. ASSUME NEW e \in Sellers,
                 \/ Cancel(e)
                 \/ \E c \in Codes : OpenCurrency(e, c)
                 \/ \E p \in Offers : OpenPackage(e, p)
                 \/ OpenNewSale(e)
                 \/ \E s \in Sold : OpenSale(e, s)
          PROVE  CatalogueInv'
      BY <2>3, OpensKeep
    <2>4. ASSUME NEW e \in Sellers,
                 \/ \E q \in Quotes : EnterCurrency(e, q)
                 \/ WriteCurrency(e)
                 \/ \E n \in Versions : EnterPackage(e, n)
                 \/ WritePackage(e)
          PROVE  CatalogueInv'
      BY <2>4, EnterCurrencyKeeps, WriteCurrencyKeeps, EnterPackageKeeps, WritePackageKeeps
    <2>5. ASSUME NEW e \in Sellers,
                 \/ \E d \in Deals : EnterSale(e, d)
                 \/ RequireParents(e)
                 \/ RequireCurrency(e)
                 \/ WriteSale(e)
          PROVE  CatalogueInv'
      BY <2>5, EnterSaleKeeps, RequireParentsKeeps, RequireCurrencyKeeps, WriteSaleKeeps
    <2> QED
      BY <2>2, <2>3, <2>4, <2>5 DEF CatalogueNext
  <1>3. CatalogueInv => SoldAsPublished
    BY DEF CatalogueInv
  <1> QED
    BY <1>1, <1>2, <1>3, PTL DEF CatalogueSpec

=============================================================================
