# Formal models of Otter's option store and its settings UI

This directory holds TLA+ models of three parts of Otter Browser:
- the option store, `src/src/core/SettingsManager.cpp`;
- the preferences dialog, `src/src/ui/PreferencesDialog.cpp`;
- the addons page and its category tabs, `src/src/modules/windows/addons/`
  and `src/src/ui/CategoriesTabWidget.cpp`.

It also holds the TLC configurations that model-check them and the TLAPS
proofs about them.

## The system

The option store is a class with static state only.

- **Option Registry**
  - State: `m_definitions`, `m_customOptions` and `m_identifierCounter`.
  - `createInstance` registers the built-in schema in enum order.
  - `registerOption(name, ...)` appends custom options.
  - `getOptionName` and `getOptionIdentifier` translate between names and
    identifiers. The identifier of an option is also its index in
    `m_definitions`.
- **Backing Stores**: two QSettings files, opened afresh by every call.
  - `otter.conf` maps option names to values.
  - `override.ini` has one group per scope. A scope is a host, `localhost`, or a
    wildcard pattern `*.suffix`.
  - Both files outlive the process. Another Otter process on the same profile
    may write them.
- **Precedence Resolver**: `getOption(id, url)` returns, in this order:
  1. the exact-host override;
  2. otherwise, if the cached flag `m_hasWildcardedOverrides` is set, the first
     wildcard pattern that holds the option, from the most specific down;
  3. otherwise the value in `otter.conf`;
  4. otherwise the default.
- **Writes**
  - `setValue(id, v, url)` with a URL writes or removes the key, sets the flag
    for a wildcard scope and always emits `optionChanged`.
  - Without a URL, `setValue` writes and emits only if the value differs from
    the current one.
  - `removeOverride(url, key)` removes one key or a whole group. It emits
    nothing.
- **Change Notifier**: the Qt signal `optionChanged`, delivered synchronously.
- **Report Generator**: `getReport` and `getOptions`. Both are read-only.

The UI reads and writes through this store.
- **Preferences dialog**
  - It has five tabs. A tab's page widget is created the first time the tab is
    shown (`showTab`).
  - Creating a page does two things. It connects the dialog's `requestedSave`
    signal to the page's `save()`, and it connects every control of the tab to
    `markAsModified`, which enables Apply.
  - Apply and OK both call `save()`, which emits `requestedSave`. It then tells
    them apart by `sender()`: OK closes the dialog and Apply disables its
    button.
- **Addons page**
  - `AddonsContentsWidget` holds a `CategoriesTabWidget` with one page,
    `UserScriptsPage` (an `AddonsPage`). It also holds three placeholder tabs
    added directly to the tab bar.
  - Showing the page calls `load()`. That starts a 200 ms timer, and the
    timer's event fills the list and marks the page fully loaded.
  - A checkbox change emits `settingsModified`, which enables the save button.
    The save button calls the page's `save()`.
  - A `LanguageChange` event reaches every widget synchronously. Each one
    retitles the tabs it knows.

All of this runs on the Qt GUI thread. Each slot or event handler is
therefore one atomic step.

## Modules

`SettingsManager.tla` is the store.

**Data abstraction**
- A host is a sequence of labels. A wildcard scope is `<<Star>> \o suffix`.
- Option names and values are opaque constants.
- The string conversions of `getOptionName` and `getOptionIdentifier` are
  given by two tables: `BuiltInName`, the enum keys, and `EnumKeyToValue`, i.e.
  `keyToValue` of the normalised name. A custom name can alias a built-in
  through normalisation: `MC_Registry` has `"Browser/HomePageOption"`.
- Option types, choices and flags are left out. No property distinguishes them.

**State**

| Variable | Code |
|---|---|
| `created` | `m_instance != nullptr` |
| `definitions` | `m_definitions`, entry `i+1` is identifier `i` |
| `customOptions` | `m_customOptions`, `-1` where the hash has no key |
| `identifierCounter` | `m_identifierCounter` |
| `hasWildcard` | `m_hasWildcardedOverrides` |
| `global` | `otter.conf`, name to value |
| `overrides` | `override.ini`, scope to name to value |
| `lastEvent` | the `optionChanged` emitted by the step, or `NoEvent` |

`Absent` stands for a missing key. `Null` stands for `QVariant()`: a null
override is removed, while a null global value is stored.

**Actions**: each one is a whole C++ function.

| Action | Code |
|---|---|
| `CreateInstance` | `createInstance`: the built-ins, then the scan of the child groups |
| `RegisterOption` | `registerOption(name, ...)` |
| `UpdateOptionDefinition` | `updateOptionDefinition` |
| `SetValue` = `SetOverrideValue` \/ `SetGlobalValue` | the two branches of `setValue` |
| `RemoveOverride` | `removeOverride` |
| `Restart` | the process exits; the static members get their initial values again and the files are kept |
| `PeerSetOverrideValue` | another process's `setValue` with a URL; used only by `SpecWithPeer` |

`GetOption`, `GetOptionName`, `GetOptionIdentifier`, `WildcardHits` and
`FirstHit` are the read functions as operators. `EffectiveValue` is the
reference definition of precedence from the design: the longest matching suffix
wins, and an exact override wins over every wildcard. It is written with sets,
without the loop.

`Report` and `ReportRow` are `getReport` as operators. Each option has a row
with:
- its default, from `getOptionDefinition(getOptionIdentifier(name))`;
- whether `getOption` equals that default;
- the number of `override.ini` groups that hold it.

The rows are indexed by identifier. The code's sort by name and the text
layout are left out.

The following modules build on the store model:
- `MC_SettingsManager.tla` gives the constants small values for TLC.
- `SettingsManager_proofs.tla` holds the TLAPS proofs.

### `PreferencesDialog.tla`

A page is abstracted to the one value its controls show (`edits[t]`) and the
option its `save()` writes (`stored[t]`). The page widgets themselves are not in
the repository.

| Variable | Code |
|---|---|
| `open` | the dialog is shown |
| `current` | `tabWidget->currentIndex()` |
| `loadedTabs` | `m_loadedTabs` |
| `saveConnected` | tabs whose page `save()` is connected to `requestedSave` |
| `applyEnabled` | the Apply button's enabled state |

| Action | Code |
|---|---|
| `Init`, `Reopen` (through `Opened`, `SectionTab`) | the constructor: section to tab, `showTab(tab)`, Apply disabled |
| `SelectTab` (and `ShowTab`) | `currentChanged` to `showTab`: the early return, then page creation and the connections |
| `Edit` | a control's change signal, which runs `markAsModified` |
| `Apply` / `Ok` (`RequestedSave`) | `save()` sent by the Apply button, or by the button box |
| `Cancel` | `rejected` connected to `close()` |

`MC_PreferencesDialog.tla` gives it the five section names and two values.

### `AddonsContents.tla` and `AddonsLoading.tla`

| Variable | Code |
|---|---|
| `language` | the application's translator |
| `tabText`, `headerLang` | the language of each tab title and of the list header |
| `pages` | `m_pages` of the tab widget |
| `wasLoaded` | `m_wasLoaded` |
| `loadingTimer` | `m_loadingTimer` |
| `timers` | the object's live Qt timers |
| `isLoading` | `m_isLoading` |
| `rows` | the rows of the source model, each an addon and its check state |
| `enabled` | what the page's `save()` has written |
| `lastSignal` | the last `loadingStateChanged` |
| `saveEnabled` | the save button's state |

| Action | Code |
|---|---|
| `Load` | `showEvent` to `load()`: the `wasLoaded` guard, `startTimer(200)`, `markAsLoaded` |
| `TimerEvent(t)` | `timerEvent`: for the loading timer, `delayedLoad` (`ListedRows`, i.e. `addAddon` per addon), `killTimer`, reset, then `markAsFullyLoaded` |
| `Modify(i)` | a checkbox toggle, then `settingsModified`, which enables the save button |
| `Save` | the save button's lambda: the page's `save()`, then the button disabled |
| `ChangeLanguage(l)` | `LanguageChange` delivered to the tab widget (`TabsRetitled` through `getPage`), to `AddonsContentsWidget` (`ContentsRetitled`) and to `AddonsPage` (the header) |

The list of `UserScriptsPage`, which is not in the repository, is the
constant sequence `AddonOrder`. `AddonsAssumption` requires each script to appear
once in it, because the page keys a user script by its name.

`AddonsLoading.tla` is the abstract lifecycle a loading page promises:
`idle -> loading -> loaded`, with weak fairness on finishing. `AddonsContents`
maps its state to a phase:
- `idle` before the first load;
- `loading` while `m_isLoading` is true;
- `loaded` afterwards.

It checks `Loading!Spec` as the property `LoadingRefined`. `Phase` is
`getLoadingState()` refined by `wasLoaded`.

## Runs

| Run | cfg | Result | What it shows |
|---|---|---|---|
| resolve | `MC_Resolve.cfg` | pass, about 15k states | Precedence is right for hosts `a.b.c` and `b.c`, patterns `*.b.c` and `*.c`, and an empty host. The wildcard flag is never stale within one process. Every `optionChanged` carries the value that is now current. |
| registry | `MC_Registry.cfg` | pass, about 560k states | The registry stays consistent under custom registrations with an empty name, a fresh name and a name that aliases a built-in. Wildcard resolution is left to the resolve run, whose three-label hosts exercise the loop's order. |
| notify_remove | `MC_NotifyRemove.cfg` | violation | `removeOverride` changes `override.ini` and emits no signal. Spec §4.4 says every mutation is signalled. |
| remove_blank_host | `MC_RemoveBlankHost.cfg` | violation | For a URL with an empty host, `removeOverride(url)` calls `QSettings::remove("")`, which clears every site. |
| peer_wildcard | `MC_PeerWildcard.cfg` | violation | A wildcard group written by a second process after `createInstance` is never consulted, because the cached flag is false. Spec §3 and §4.3 say every read derives from the files. |
| invalid_id | `MC_InvalidId.cfg` | violation | `setValue(-1, ...)` emits `optionChanged(-1, ...)`. The property checks only the emit: the model drops the write under the empty option name, which Qt refuses for `otter.conf`. Spec §7 says a write with an invalid identifier silently does nothing (`InvalidIdIsNoOp`). |
| addons | `MC_Addons.cfg` | pass, 264 states | The addons page with three scripts and three languages: shown repeatedly, edited, saved and retranslated while its load timer is pending. |
| preferences | `MC_Preferences.cfg` | pass, about 57k states | The preferences dialog opened on each of the five sections, with tab switches, edits on several pages, Apply, OK, Cancel and reopening. |

The registry run also checks `ReportDescribesOptions`. Every row of
`getReport` carries its own option's default, and its "default" flag agrees with
`getOption`.

The addons run checks these properties:
- `ListFilledOnce`: the list has no duplicate rows. It is empty until the timer
  fires and complete afterwards, however often the page is shown.
- `LoadingFinishes`: once loaded, the page eventually stops loading.
- `LoadingRefined`: the page implements the abstract lifecycle.
- `TabsTranslated`: every tab title follows the language, including the three
  tabs that have no page.
- `SaveReflectsEdits`: a disabled save button means no checkbox differs from
  what was saved.

The preferences run checks these properties:
- `ApplyReflectsUnsaved`: while the dialog is open, a disabled Apply means every
  created page shows the store.
- `CloseSavesAllOrNothing`: OK saves every created page, and Cancel saves none.

**Why these bounds are enough**
- Three-label hosts give two wildcard candidates. That lets TLC distinguish
  most-specific-first from least-specific-first.
- `b.c` shows that `*.b.c` does not match its own bare suffix.
- Two values make "differs from the current value" both true and false.
- `Restart` lets the flag be rebuilt from a file that already holds wildcard
  scopes.
- Addons:
  - Three addons give rows that can be duplicated or missing.
  - Three languages allow a change away from and back to a language.
  - `MaxTimerId = 2` lets a stale timer id differ from a fresh one.
- Preferences:
  - All five section names, so that every branch of the constructor runs.
  - Two values, so that an edit always differs from the store.

Every action and every disjunct of `Next` fires in the passing runs. Deadlock
is checked:
- In the store, `Restart` and the writes are always enabled once the instance
  exists.
- In the dialog, either a close or a reopen is always enabled.
- On the addons page, a language change is always enabled.

Each property of a passing run has a mutant in `PROJECT.json`: an operator
that changes one definition the way a plausible bug would, and that TLC
catches. The mutants are:
- the wildcard loop reversed;
- the flag update dropped;
- a null override stored instead of removed;
- the global write without the equality check;
- `registerOption` without the duplicate check;
- a report row looked up in the enum only;
- `load()` without its `wasLoaded` guard, without its timer, or without
  `markAsLoaded`;
- the three extra tabs left untitled;
- a checkbox change without `settingsModified`;
- `m_loadingTimer` not reset after it fires;
- `"advanced"` mapped one tab too far;
- a page created without its `requestedSave` connection;
- OK that saves only the current tab.

**Fairness.** Only `AddonsContents` assumes any, and it is only weak fairness on
delivering a live timer's event: `WF_vars(\E t \in timers : TimerEvent(t))`.
This is justified because Qt's event loop delivers the event of a started and
unkilled timer once its interval has passed. User actions (show, edit, save,
language change) get no fairness, because a user may never act. The store and
the dialog have safety properties only.

## Proofs

`SettingsManager_proofs.tla` proves, for every value of the constants that
satisfies `BuiltInAssumption`, `SentinelAssumption` and `UrlAssumption`:

- **`TypeCorrect`: `Spec => []TypeOK`.** `TypeOK` is inductive on its own. The
  proof has one step per action. Each step:
  1. extracts the action's equations for the data variables with Zenon;
  2. shows the new values are in their types with SMT, using these lemmas:
     - `NestedExceptType`: writing one key of one group of `override.ini`;
     - `ExceptType`: writing one key of `otter.conf`;
     - `NewDefinitionType` and `EntryType`: the entries of `m_definitions`;
     - `EventType`: the emitted signal.

  The two Boolean flags are handled in a separate step by Zenon.
- **`FlagSound`: `Spec => []WildcardFlagSound`.** The inductive invariant is
  `TypeOK /\ WildcardFlagSound`. Each action preserves it:
  - `CreateInstance` sets the flag from a scan of the file.
  - A `setValue` with a URL either writes the wildcard scope and sets the flag,
    or leaves every other key unchanged.
  - `removeOverride` only removes keys.
  - `Restart` clears `created`.

  The theorem holds only for `Spec`. Under `SpecWithPeer` TLC finds it false,
  which is finding 3.
- **`RegistryInvariant`: `Spec => []RegInv`.** `RegistryConsistent` is not
  inductive as it stands: `registerOption` could give a name that is already
  in use a second identifier, unless the invariant also says which names are
  in use. `RegInv` therefore also states the following:
  - Before `createInstance`, the registry is empty and the counter is -1.
  - Once created (`RegCreated`), the counter equals the number of entries,
    and entry i has identifier i-1.
  - Every custom identifier lies in `NumBuiltIn..Len-1`, and its name is
    neither empty nor an enum key.
  - Custom identifiers are injective, and every one of them has a name.

  The lemmas `CreateRegInv`, `RegisterRegInv` and `UpdateRegInv` cover the
  steps that change the registry. `FrameRegInv` covers the steps that leave
  it alone.
- **`RegistrySound`: `Spec => []RegistryConsistent`.** It follows from
  `RegInvConsistent`. For a built-in identifier, the enum gives the
  identifier back, because no custom option has taken the name. For a custom
  identifier, its name is unique, so the `CHOOSE` of `getOptionName` finds
  it.
- **`ReportSound`: `Spec => []ReportDescribesOptions`.** In a consistent
  registry, the report's lookup `getOptionIdentifier(getOptionName(i))` is
  i itself (lemma `ConsistentReport`).
- **`PrecedenceSound`: `Spec => []ResolutionFollowsPrecedence`.** It follows
  from `TypeOK`, `RegistryConsistent` and `WildcardFlagSound` (lemma
  `PrecedenceHolds`). The argument goes through these lemmas:
  - `PatternShape` and `PatternMatches`: iteration i of the wildcard loop
    builds a pattern of `Len(h) - i + 1` labels that matches h.
  - `MatchIsPattern`: every matching wildcard scope is the pattern of
    iteration `Len(h) - Len(s) + 1`.
  - So the least hit, whose existence `MinExists` proves from the
    well-foundedness of `<` on `Nat`, is the longest matching scope.
  - A hit means override.ini holds a wildcard scope, so `FlagSound`
    guarantees that the loop is not skipped.
- **`NotifySound`: `Spec => NotifiedValueIsCurrent`.** Only `setValue`
  emits a signal (lemma `NotifySetValue`):
  - The global branch emits only when the value differs from `getOption()`.
    It then writes the option's name, which is a store key because the
    registry is consistent.
  - The scoped branch writes the exact host's key. An exact host beats every
    wildcard.

`PreferencesDialog_proofs.tla` proves, for every set of sections and values:

- **`InvariantHolds`: `Spec => []IInv`.** `IInv` is
  `TypeOK /\ SaveReachesLoaded /\ ApplyReflectsUnsaved`. The conjunct
  `SaveReachesLoaded`, `saveConnected = {t : loadedTabs[t]}`, is the
  strengthening: `ApplyReflectsUnsaved` alone is not inductive, because Apply
  would not fix an unconnected page. The proof has one step per action. The
  lemma `SectionTabType` shows that the constructor always picks a tab in
  range.
- **`ApplySound`: `Spec => []ApplyReflectsUnsaved`** follows from it.
- **`CloseSound`: `Spec => CloseSavesAllOrNothing`.** The only closing steps are
  OK, which writes `edits` for every connected (that is, loaded) tab, and
  Cancel, which writes nothing.

- **`TypeCorrect`: `Spec => []TypeOK`** follows from `InvariantHolds`.

`AddonsContents_proofs.tla` proves, for every value of the constants that
satisfies `AddonsAssumption`:

- **`InvariantHolds`: `Spec => []IInv`.** `IInv` is
  `TypeOK /\ PagesFixed /\ TimerTracksLoad /\ RowsListed /\ TabsTranslated /\ SaveReflectsEdits`.
  Two of the conjuncts are strengthenings:
  - `TimerTracksLoad` says that the only live timer is the loading timer,
    which is set exactly while the page is loading after its first show.
    Without it, a second `timerEvent` could fill the list twice.
  - `RowsListed` says the list is empty while loading and lists `AddonOrder`
    afterwards.

  TLC checked `IInv` as an invariant before the proof. The proof has one
  lemma per action: `LoadIInv`, `TimerIInv`, `ModifyIInv`, `SaveIInv` and
  `ChangeLanguageIInv`.
- **`TypeCorrect`, `TabsTranslatedHolds`, `SaveReflectsEditsHolds` and
  `ListFilledOnceHolds`** follow from `InvariantHolds`.
  - `SaveReflectsEdits` uses the assumption that every user script appears
    once in `AddonOrder`: `UserScriptsPage` finds a script by its name.
  - The toggle in `Modify` is written as a rebuilt record. It means the same
    as `![i].checked = ~@`, but the provers handle it.
- **`RefinesLoadingSafety`: `Spec => LoadingSafety`.** This is the safety
  part of `LoadingRefined`. `Load` maps to `Loading!Start`, the loading
  timer's `TimerEvent` maps to `Loading!Finish`, and every other step leaves
  `Phase` unchanged.

**Only model-checked**
- `LoadingFinishes`, and the weak-fairness conjunct of `LoadingRefined`.
  Liveness needs `ENABLED` and the fairness rules of TLA, which this version
  of TLAPS does not support, so these stay with TLC.
- The violation runs are findings, not theorems.

## Not modelled

- **`getOptions`, and the report's sort and layout**: read-only formatting.
- **`hasOverride`**: a read function. No property uses it yet.
- **Calls before `createInstance`**: a null dereference in the code; every
  action is guarded by `created`.
- **The page widgets** of the preferences dialog and `UserScriptsPage`: they
  are not in the repository. Their values are abstracted as described above.
- **`updateStyle`, `triggerAction`, `getActionState`, `updateDetails`**: these
  are fonts, focus, selection and labels, and they change no modelled state.
- **`ImportDialog.h` and `DataExchangerDialog.h`**: declarations only.
