----------------------------- MODULE AiSettings -----------------------------
(***************************************************************************)
(* The one row of AiSettings: the settings form with its model discovery,  *)
(* AiSettingsService.update, which reads the row before the transaction it *)
(* writes in, and the calls that take provider, model and key from the row *)
(* (DynamicLlmGateway, the connection test, the discovery). A key and a    *)
(* model are told apart only by the provider they were issued for.         *)
(***************************************************************************)
EXTENDS Integers

CONSTANTS
    Providers,    \* SUPPORTED_AI_PROVIDERS
    NoProvider,   \* no row, no key, no model
    Admins,       \* administrators, each with the AI tab open
    Callers,      \* classification and drafting calls
    MaxWrites     \* bound on the saves and discoveries asked for

AiSettingsAssumption == Providers # {} /\ NoProvider \notin Providers /\ MaxWrites \in Nat

VARIABLES
    ai,       \* the row; provider NoProvider: there is none yet
    tab,      \* administrator -> the form and the request in flight
    fetch,    \* administrator -> the discovery its page waits for
    call,     \* caller -> what it has read
    mixed,    \* history: an adapter was given the key of another provider
    blind,    \* history: a save without a key read no row and wrote over one
    writes    \* saves and discoveries asked for so far

slips == <<mixed, blind>>
aiVars == <<ai, tab, fetch, call, slips, writes>>

-----------------------------------------------------------------------------
(* State                                                                   *)

Known == Providers \union {NoProvider}

(* `cut` is whether the cutover of automatic acceptance is set.            *)
AiRow ==
    [provider : Known, model : Known, key : Known,
     enabled : BOOLEAN, auto : BOOLEAN, cut : BOOLEAN]

NoAiRow ==
    [provider |-> NoProvider, model |-> NoProvider, key |-> NoProvider,
     enabled |-> FALSE, auto |-> FALSE, cut |-> FALSE]

(* `shown` is what the page loaded, `model` whose model id the form holds, *)
(* `list` whose models were discovered, `typed` and `clear` what the       *)
(* request does to the key; `old` is the row the server read for it.       *)
Viewed == [provider : Known, model : Known, keyed : BOOLEAN]
Tab ==
    [at : {"view", "form", "sent", "write"}, shown : Viewed, provider : Known,
     model : Known, list : Known, typed : BOOLEAN, clear : BOOLEAN,
     enabled : BOOLEAN, auto : BOOLEAN, cut : BOOLEAN, old : AiRow]

Fetch == [step : {"none", "ask", "key", "answer"}, provider : Known]
Nothing == [step |-> "none", provider |-> NoProvider]

Call == [step : {"idle", "key"}, provider : Known]
NoCall == [step |-> "idle", provider |-> NoProvider]

AiSettingsTypeOK ==
    /\ ai \in AiRow
    /\ tab \in [Admins -> Tab]
    /\ fetch \in [Admins -> Fetch]
    /\ call \in [Callers -> Call]
    /\ mixed \in BOOLEAN /\ blind \in BOOLEAN
    /\ writes \in 0..MaxWrites

Seen(row) == [provider |-> row.provider, model |-> row.model, keyed |-> row.key # NoProvider]

Showing(view) ==
    [at |-> "view", shown |-> view, provider |-> NoProvider, model |-> NoProvider, list |-> NoProvider,
     typed |-> FALSE, clear |-> FALSE, enabled |-> FALSE, auto |-> FALSE, cut |-> FALSE,
     old |-> NoAiRow]

(* A fresh installation, or one that is in use.                            *)
AiSettingsInit ==
    /\ \E p \in Known :
         ai = IF p = NoProvider THEN NoAiRow
              ELSE [provider |-> p, model |-> p, key |-> p,
                    enabled |-> TRUE, auto |-> FALSE, cut |-> FALSE]
    /\ tab = [a \in Admins |-> Showing(Seen(ai))]
    /\ fetch = [a \in Admins |-> Nothing]
    /\ call = [c \in Callers |-> NoCall]
    /\ mixed = FALSE /\ blind = FALSE
    /\ writes = 0

-----------------------------------------------------------------------------
(* The form                                                                *)

Fill(a, t) == tab' = [tab EXCEPT ![a] = t]

LoadTab(a) ==
    /\ tab[a].at = "view" /\ tab[a].shown # Seen(ai)
    /\ Fill(a, Showing(Seen(ai)))
    /\ UNCHANGED <<ai, fetch, call, slips, writes>>

(* Without a row the page shows the defaults: the first provider, off.     *)
Default == CHOOSE p \in Providers : TRUE
Displayed(t) == IF t.shown.provider = NoProvider THEN Default ELSE t.shown.provider

OpenSettings(a) ==
    /\ tab[a].at = "view" /\ writes < MaxWrites
    /\ Fill(a, [Showing(tab[a].shown) EXCEPT !.at = "form", !.provider = Displayed(tab[a]),
                  !.model = tab[a].shown.model])
    /\ UNCHANGED <<ai, fetch, call, slips, writes>>

CloseSettings(a) ==
    /\ tab[a].at = "form"
    /\ Fill(a, Showing(tab[a].shown))
    /\ UNCHANGED <<ai, fetch, call, slips, writes>>

(* Another provider clears the key, the model and the discovered models; a *)
(* discovery under way goes on.                                            *)
ChangeProvider(a) ==
    /\ tab[a].at = "form"
    /\ \E p \in Providers \ {tab[a].provider} :
         Fill(a, [tab[a] EXCEPT !.provider = p, !.list = NoProvider,
                    !.model = IF p = Displayed(tab[a]) THEN tab[a].shown.model ELSE NoProvider])
    /\ UNCHANGED <<ai, fetch, call, slips, writes>>

(* Typed by hand for the selected provider, or picked from the list.       *)
ChooseModel(a) ==
    /\ tab[a].at = "form"
    /\ \E m \in {tab[a].provider, tab[a].list} \ {NoProvider, tab[a].model} :
         Fill(a, [tab[a] EXCEPT !.model = m])
    /\ UNCHANGED <<ai, fetch, call, slips, writes>>

(* The stored key can be cleared only while its provider is selected.      *)
SubmitSettings(a) ==
    /\ tab[a].at = "form" /\ tab[a].model # NoProvider /\ writes < MaxWrites
    /\ writes' = writes + 1
    /\ \E e, u, k, c, t \in BOOLEAN :
         /\ tab[a].provider # Displayed(tab[a]) => t
         /\ c => tab[a].shown.keyed /\ tab[a].provider = Displayed(tab[a])
         /\ Fill(a, [tab[a] EXCEPT !.at = "sent", !.enabled = e, !.auto = u, !.cut = k,
                                   !.clear = c, !.typed = t])
    /\ UNCHANGED <<ai, fetch, call, slips>>

-----------------------------------------------------------------------------
(* AiSettingsService.update                                                *)

(* 400: the form stays open with what it holds.                            *)
RefuseSettings(a) ==
    /\ Fill(a, [tab[a] EXCEPT !.at = "form", !.old = NoAiRow, !.clear = FALSE, !.typed = FALSE,
                              !.enabled = FALSE, !.auto = FALSE, !.cut = FALSE])
    /\ UNCHANGED <<ai, fetch, call, slips, writes>>

(* A new provider takes a new model and a new key in the same request.     *)
Movable(t) ==
    (t.old.provider # NoProvider /\ t.provider # t.old.provider) => t.typed /\ ~t.clear

NewKey(t) == IF t.clear THEN NoProvider ELSE IF t.typed THEN t.provider ELSE t.old.key

(* Fail closed: what it takes to enable AI, and automatic acceptance.      *)
Usable(t) ==
    /\ t.enabled => NewKey(t) # NoProvider
    /\ t.auto => t.enabled /\ (t.cut \/ t.old.cut)

ReadSettings(a) ==
    /\ tab[a].at = "sent"
    /\ LET t == [tab[a] EXCEPT !.at = "write", !.old = ai]
       IN  IF ~(t.typed /\ t.clear) /\ Movable(t) /\ Usable(t)
           THEN Fill(a, t) /\ UNCHANGED <<ai, fetch, call, slips, writes>>
           ELSE RefuseSettings(a)

Brings(t) == t.typed \/ t.clear

\* Faulty: columns left out of the request are left out of the update.
WrittenSparse(t) ==
    [provider |-> t.provider, model |-> t.model,
     key |-> IF Brings(t) THEN NewKey(t) ELSE ai.key,
     enabled |-> t.enabled, auto |-> t.auto, cut |-> t.cut \/ ai.cut]

(* The upsert writes every column, with those left out as they were read.  *)
(* If no row was read there is nothing to write to them: a row that has    *)
(* come since keeps its own.                                               *)
WrittenRow(t) ==
    LET left == IF t.old.provider = NoProvider THEN ai ELSE t.old
    IN  [provider |-> t.provider, model |-> t.model,
         key |-> IF Brings(t) THEN NewKey(t) ELSE left.key,
         enabled |-> t.enabled, auto |-> t.auto, cut |-> t.cut \/ left.cut]

(* No row was read, one is there, and the request brings no key for it.    *)
Blindly(t) == t.old.provider = NoProvider /\ ai.provider # NoProvider /\ ~Brings(t)

WriteSettings(a) ==
    LET t == tab[a]
    IN  /\ t.at = "write"
        /\ ai' = WrittenRow(t)
        /\ blind' = (blind \/ Blindly(t))
        /\ Fill(a, Showing(Seen(ai')))
        /\ UNCHANGED <<fetch, call, mixed, writes>>

-----------------------------------------------------------------------------
(* AiModelDiscoveryService                                                 *)

(* The key is read now, for an adapter chosen earlier; without a key there *)
(* is no call.                                                             *)
Hand(provider) == mixed' = (mixed \/ ai.key \notin {NoProvider, provider})

Wait(a, f) == fetch' = [fetch EXCEPT ![a] = f]

(* With a key typed into the form, or without one.                         *)
LoadModels(a) ==
    /\ tab[a].at = "form" /\ fetch[a].step = "none" /\ writes < MaxWrites
    /\ writes' = writes + 1
    /\ LET p == tab[a].provider
       IN  \/ Wait(a, [step |-> "answer", provider |-> p])
           \/ p = Displayed(tab[a]) /\ Wait(a, [step |-> "ask", provider |-> p])
    /\ UNCHANGED <<ai, tab, call, slips>>

(* No key was typed: the saved one, if the saved provider is this one.  *)
ResolveProvider(a) ==
    /\ fetch[a].step = "ask"
    /\ Wait(a, IF ai.provider = fetch[a].provider THEN [fetch[a] EXCEPT !.step = "key"] ELSE Nothing)
    /\ UNCHANGED <<ai, tab, call, slips, writes>>

ResolveKey(a) ==
    /\ fetch[a].step = "key"
    /\ Wait(a, IF ai.key # NoProvider THEN [fetch[a] EXCEPT !.step = "answer"] ELSE Nothing)
    /\ Hand(fetch[a].provider)
    /\ UNCHANGED <<ai, tab, call, blind, writes>>

(* The page lists what arrives, whatever is selected by then.              *)
ModelsArrive(a) ==
    /\ fetch[a].step = "answer"
    /\ \E ok \in BOOLEAN :
         Fill(a, IF tab[a].at # "view"
                 THEN [tab[a] EXCEPT !.list = IF ok THEN fetch[a].provider ELSE NoProvider]
                 ELSE tab[a])
    /\ Wait(a, Nothing)
    /\ UNCHANGED <<ai, call, slips, writes>>

-----------------------------------------------------------------------------
(* resolveActiveAdapter, and the connection test, which needs no `enabled` *)

ReadProvider(c) ==
    /\ call[c].step = "idle"
    /\ ai.provider # NoProvider /\ ai.model # NoProvider
    /\ call' = [call EXCEPT ![c] = [step |-> "key", provider |-> ai.provider]]
    /\ UNCHANGED <<ai, tab, fetch, slips, writes>>

ReadKey(c) ==
    /\ call[c].step = "key"
    /\ Hand(call[c].provider)
    /\ call' = [call EXCEPT ![c] = NoCall]
    /\ UNCHANGED <<ai, tab, fetch, blind, writes>>

AiSettingsNext ==
    \/ \E a \in Admins :
         \/ LoadTab(a) \/ OpenSettings(a) \/ CloseSettings(a) \/ ChangeProvider(a)
         \/ ChooseModel(a) \/ SubmitSettings(a) \/ ReadSettings(a) \/ WriteSettings(a)
         \/ LoadModels(a) \/ ResolveProvider(a) \/ ResolveKey(a) \/ ModelsArrive(a)
    \/ \E c \in Callers : ReadProvider(c) \/ ReadKey(c)

AiSettingsSpec == AiSettingsInit /\ [][AiSettingsNext]_aiVars

-----------------------------------------------------------------------------
(* Properties                                                              *)

\* KEY OF ITS PROVIDER: however saves overlap, the stored key was issued for
\* the stored provider. The code does not keep this: of two first saves that
\* overlap, the one without a key takes over the other one's.
KeyOfItsProvider == ai.key \in {NoProvider, ai.provider}

\* ENABLED IS USABLE: AI is never enabled without a key and a model, and
\* automatic acceptance never without AI and a cutover, even when a save
\* that clears the key overlaps one that enables AI.
EnabledIsUsable ==
    /\ ai.enabled => ai.key # NoProvider /\ ai.model # NoProvider
    /\ ai.auto => ai.enabled /\ ai.cut

\* NO MIXED CALL: no call hands a provider the key of another one.
NoMixedCall == ~mixed

\* MODEL OF ITS PROVIDER: the stored model is one of the stored provider.
ModelOfItsProvider == ai.model \in {NoProvider, ai.provider}

\* COHERENT: saves from forms however stale, each judged by a row that others
\* have replaced by the time it writes, never store the key of one provider
\* beside another, nor a row that is enabled without what it takes. Only the
\* save that found no row and writes over one without a key is left out.
SettingsCoherent == (~blind => KeyOfItsProvider) /\ EnabledIsUsable
=============================================================================
