------------------------ MODULE AddonsContents_proofs ------------------------
(***************************************************************************)
(* Proofs about AddonsContents for every set of languages, every timer     *)
(* bound and every list of scripts.                                        *)
(***************************************************************************)
EXTENDS AddonsContents, TLAPS

(***************************************************************************)
(* The strengthening.  The tab widget's page list never changes after the  *)
(* constructor's addPage().                                                *)
(***************************************************************************)
PagesFixed == pages = <<UserScriptsPage>>

(***************************************************************************)
(* The only timer the page ever starts is m_loadingTimer: it runs exactly *)
(* between load() and its own timerEvent(), which is also exactly when     *)
(* the page was shown and is still loading.                                *)
(***************************************************************************)
TimerTracksLoad ==
    /\ timers = IF loadingTimer = NoTimer THEN {} ELSE {loadingTimer}
    /\ loadingTimer # NoTimer <=> (wasLoaded /\ isLoading)
    /\ ~wasLoaded => isLoading

(***************************************************************************)
(* No row before delayedLoad(); afterwards one row per script, in the      *)
(* order delayedLoad() added them, whatever the check boxes show.          *)
(***************************************************************************)
RowsListed ==
    IF isLoading THEN rows = <<>>
    ELSE /\ Len(rows) = Len(AddonOrder)
         /\ \A i \in 1..Len(rows) : rows[i].addon = AddonOrder[i]

IInv ==
    /\ TypeOK
    /\ PagesFixed
    /\ TimerTracksLoad
    /\ RowsListed
    /\ TabsTranslated
    /\ SaveReflectsEdits

-----------------------------------------------------------------------------
(* Lemmas about the operators.                                             *)

(***************************************************************************)
(* delayedLoad() lists every script once, in order, checked as it is       *)
(* enabled.                                                                *)
(***************************************************************************)
LEMMA ListedRowsShape ==
    ASSUME enabled \in [Addons -> BOOLEAN]
    PROVE  /\ ListedRows \in Seq(Row)
           /\ Len(ListedRows) = Len(AddonOrder)
           /\ \A i \in 1..Len(AddonOrder) :
                 /\ ListedRows[i].addon = AddonOrder[i]
                 /\ ListedRows[i].checked = enabled[AddonOrder[i]]
  <1>1. \A i \in 1..Len(AddonOrder) : AddonOrder[i] \in Addons
    BY DEF Addons
  <1>. QED
    BY <1>1, AddonsAssumption DEF ListedRows, Row

(***************************************************************************)
(* A row of the list is an addon and a check state.                        *)
(***************************************************************************)
LEMMA RowAt ==
    ASSUME NEW r \in Seq(Row), NEW i \in 1..Len(r)
    PROVE  r[i] \in Row /\ r[i].addon \in Addons /\ r[i].checked \in BOOLEAN
  <1>1. r[i] \in Row
    OBVIOUS
  <1>. QED
    BY <1>1, Zenon DEF Row

(***************************************************************************)
(* Toggling the check box of a row keeps the list a list of rows, its      *)
(* length and its addons.                                                  *)
(***************************************************************************)
LEMMA ToggleRow ==
    ASSUME NEW r \in Seq(Row), NEW i \in 1..Len(r)
    PROVE  LET r2 == [r EXCEPT ![i] = [addon |-> r[i].addon,
                                        checked |-> ~r[i].checked]]
           IN  /\ r2 \in Seq(Row)
               /\ Len(r2) = Len(r)
               /\ \A j \in 1..Len(r) : r2[j].addon = r[j].addon
  <1>1. [addon |-> r[i].addon, checked |-> ~r[i].checked] \in Row
    <2>1. r[i].addon \in Addons /\ r[i].checked \in BOOLEAN
      BY RowAt
    <2>. QED
      BY <2>1, Zenon DEF Row
  <1>. QED
    BY <1>1

(***************************************************************************)
(* In a list without duplicate scripts, the first row of a script is its  *)
(* only row.                                                               *)
(***************************************************************************)
LEMMA RowOfUnique ==
    ASSUME rows \in Seq(Row),
           \A i, j \in 1..Len(rows) : rows[i].addon = rows[j].addon => i = j,
           NEW i \in 1..Len(rows)
    PROVE  RowOf(rows[i].addon) = i
  <1>1. \E k \in 1..Len(rows) :
          rows[k].addon = rows[i].addon
          /\ \A j \in 1..(k - 1) : rows[j].addon # rows[i].addon
    <2>1. \A j \in 1..(i - 1) : rows[j].addon # rows[i].addon
      OBVIOUS
    <2>. QED
      BY <2>1
  <1>. QED
    BY <1>1 DEF RowOf

(***************************************************************************)
(* The listed rows never repeat a script.                                  *)
(***************************************************************************)
LEMMA ListedNoDuplicates ==
    ASSUME TypeOK, RowsListed, ~isLoading
    PROVE  \A i, j \in 1..Len(rows) : rows[i].addon = rows[j].addon => i = j
  BY AddonsAssumption DEF RowsListed

-----------------------------------------------------------------------------
(* The inductive invariant.                                                *)

LEMMA InitIInv == Init => IInv
  <1> SUFFICES ASSUME Init PROVE IInv
    OBVIOUS
  <1>1. TypeOK
    <2>1. nextTimerId \in 1..(MaxTimerId + 1)
      BY AddonsAssumption DEF Init
    <2>2. rows \in Seq(Row) /\ pages \in Seq({UserScriptsPage})
      BY DEF Init
    <2>3. loadingTimer \in {NoTimer} \cup timers /\ timers \subseteq 1..MaxTimerId
      BY DEF Init
    <2>4. /\ language \in Languages
          /\ tabText \in [TabIndexes -> Languages]
          /\ headerLang \in Languages
          /\ enabled \in [Addons -> BOOLEAN]
          /\ lastSignal \in LoadingStates
      BY DEF Init, LoadingStates
    <2>5. wasLoaded \in BOOLEAN /\ isLoading \in BOOLEAN /\ saveEnabled \in BOOLEAN
      BY DEF Init
    <2>. QED
      BY <2>1, <2>2, <2>3, <2>4, <2>5 DEF TypeOK
  <1>2. PagesFixed /\ TimerTracksLoad /\ RowsListed
    BY DEF Init, PagesFixed, TimerTracksLoad, RowsListed
  <1>3. TabsTranslated /\ SaveReflectsEdits
    BY DEF Init, TabsTranslated, SaveReflectsEdits
  <1>. QED
    BY <1>1, <1>2, <1>3 DEF IInv

LEMMA LoadIInv == IInv /\ Load => IInv'
  <1> SUFFICES ASSUME IInv, Load PROVE IInv'
    OBVIOUS
  <1>. QED
    BY AddonsAssumption
    DEF Load, IInv, TypeOK, PagesFixed, TimerTracksLoad, RowsListed,
        TabsTranslated, SaveReflectsEdits, NoTimer, LoadingStates

LEMMA TimerIInv == ASSUME IInv, NEW t \in timers, TimerEvent(t) PROVE IInv'
  <1>1. t = loadingTimer /\ loadingTimer # NoTimer /\ isLoading /\ wasLoaded
    BY DEF IInv, TypeOK, TimerTracksLoad, NoTimer
  <1>2. /\ rows' = ListedRows
        /\ timers' = {}
        /\ loadingTimer' = NoTimer
        /\ isLoading' = FALSE
        /\ lastSignal' = "finished"
        /\ UNCHANGED <<language, tabText, headerLang, pages, wasLoaded,
                       nextTimerId, enabled, saveEnabled>>
    <2>1. rows = <<>>
      BY <1>1 DEF IInv, RowsListed
    <2>2. rows \o ListedRows = ListedRows
      BY <2>1, ListedRowsShape DEF IInv, TypeOK
    <2>. QED
      BY <1>1, <2>2 DEF TimerEvent, IInv, TimerTracksLoad
  <1>3. enabled \in [Addons -> BOOLEAN]
    BY DEF IInv, TypeOK
  <1>. QED
    BY <1>2, <1>3, ListedRowsShape
    DEF IInv, TypeOK, PagesFixed, TimerTracksLoad, RowsListed,
        TabsTranslated, SaveReflectsEdits, NoTimer, LoadingStates

LEMMA ModifyIInv == ASSUME IInv, NEW i \in 1..Len(rows), Modify(i) PROVE IInv'
  <1>1. /\ rows' = [rows EXCEPT ![i] = [addon |-> rows[i].addon,
                                        checked |-> ~rows[i].checked]]
        /\ saveEnabled' = TRUE
        /\ UNCHANGED <<language, tabText, headerLang, pages, wasLoaded,
                       loadingTimer, timers, nextTimerId, isLoading, enabled,
                       lastSignal>>
    BY DEF Modify
  <1>2. rows' \in Seq(Row)
    BY <1>1, ToggleRow DEF IInv, TypeOK
  <1>3. Len(rows') = Len(rows) /\ \A j \in 1..Len(rows) : rows'[j].addon = rows[j].addon
    BY <1>1, ToggleRow DEF IInv, TypeOK
  <1>4. rows # <<>>
    BY DEF IInv, TypeOK
  <1>5. ~isLoading
    BY <1>4 DEF IInv, TypeOK, RowsListed
  <1>6. RowsListed'
    BY <1>3, <1>5, <1>1 DEF IInv, RowsListed
  <1>. QED
    BY <1>1, <1>2, <1>6 DEF IInv, TypeOK, PagesFixed, TimerTracksLoad,
                            TabsTranslated, SaveReflectsEdits

LEMMA SaveIInv == IInv /\ Save => IInv'
  <1> SUFFICES ASSUME IInv, Save PROVE IInv'
    OBVIOUS
  <1>0. /\ enabled' = [a \in Addons |->
                         IF \E i \in 1..Len(rows) : rows[i].addon = a
                         THEN rows[RowOf(a)].checked ELSE enabled[a]]
        /\ saveEnabled' = FALSE
        /\ UNCHANGED <<language, tabText, headerLang, pages, wasLoaded,
                       loadingTimer, timers, nextTimerId, isLoading, rows,
                       lastSignal>>
    BY DEF Save
  <1>1. \A i \in 1..Len(rows) : enabled'[rows[i].addon] = rows[i].checked
    <2> SUFFICES ASSUME NEW i \in 1..Len(rows)
                 PROVE  enabled'[rows[i].addon] = rows[i].checked
      OBVIOUS
    <2>1. rows # <<>>
      BY DEF IInv, TypeOK
    <2>2. ~isLoading
      BY <2>1 DEF IInv, TypeOK, RowsListed
    <2>3. \A j, k \in 1..Len(rows) : rows[j].addon = rows[k].addon => j = k
      BY <2>2, ListedNoDuplicates DEF IInv
    <2>4. RowOf(rows[i].addon) = i
      BY <2>3, RowOfUnique DEF IInv, TypeOK
    <2>5. rows[i].addon \in Addons
      BY RowAt DEF IInv, TypeOK
    <2>. QED
      BY <1>0, <2>4, <2>5
  <1>2. enabled' \in [Addons -> BOOLEAN]
    <2>1. ASSUME NEW a \in Addons, \E i \in 1..Len(rows) : rows[i].addon = a
          PROVE  rows[RowOf(a)].checked \in BOOLEAN
      <3>1. PICK i \in 1..Len(rows) : rows[i].addon = a
        BY <2>1
      <3>2. ~isLoading
        BY DEF IInv, TypeOK, RowsListed
      <3>3. \A j, k \in 1..Len(rows) : rows[j].addon = rows[k].addon => j = k
        BY <3>2, ListedNoDuplicates DEF IInv
      <3>4. RowOf(a) = i
        BY <3>1, <3>3, RowOfUnique DEF IInv, TypeOK
      <3>. QED
        BY <3>4, RowAt DEF IInv, TypeOK
    <2>. QED
      BY <1>0, <2>1 DEF IInv, TypeOK
  <1>3. TypeOK'
    BY <1>0, <1>2 DEF IInv, TypeOK
  <1>4. SaveReflectsEdits'
    BY <1>0, <1>1 DEF SaveReflectsEdits
  <1>. QED
    BY <1>0, <1>3, <1>4 DEF IInv, PagesFixed, TimerTracksLoad,
                            RowsListed, TabsTranslated

LEMMA ChangeLanguageIInv ==
    ASSUME IInv, NEW l \in Languages, ChangeLanguage(l) PROVE IInv'
  <1>1. tabText' = [i \in TabIndexes |-> l]
    <2>1. \A i \in TabIndexes : GetPage(i) # NoPage <=> i = 0
      BY AddonsAssumption DEF GetPage, IInv, PagesFixed, TabIndexes
    <2>. QED
      BY <2>1 DEF ChangeLanguage, ContentsRetitled, TabsRetitled, ExtraTabs,
                  TabIndexes
  <1>. QED
    BY <1>1 DEF ChangeLanguage, IInv, TypeOK, PagesFixed, TimerTracksLoad,
                RowsListed, TabsTranslated, SaveReflectsEdits

THEOREM InvariantHolds == Spec => []IInv
<1>1. IInv /\ [Next]_vars => IInv'
  <2> SUFFICES ASSUME IInv, [Next]_vars PROVE IInv'
    OBVIOUS
  <2>1. CASE Load
    BY <2>1, LoadIInv
  <2>2. CASE \E t \in timers : TimerEvent(t)
    BY <2>2, TimerIInv
  <2>3. CASE \E i \in 1..Len(rows) : Modify(i)
    BY <2>3, ModifyIInv
  <2>4. CASE Save
    BY <2>4, SaveIInv
  <2>5. CASE \E l \in Languages : ChangeLanguage(l)
    BY <2>5, ChangeLanguageIInv
  <2>6. CASE UNCHANGED vars
    BY <2>6 DEF vars, IInv, TypeOK, PagesFixed, TimerTracksLoad, RowsListed,
                TabsTranslated, SaveReflectsEdits
  <2>. QED
    BY <2>1, <2>2, <2>3, <2>4, <2>5, <2>6 DEF Next
<1>. QED
  BY InitIInv, <1>1, PTL DEF Spec

-----------------------------------------------------------------------------
(* The properties the addons run checks.                                   *)

(***************************************************************************)
(* The window's state keeps its type.                                      *)
(***************************************************************************)
THEOREM TypeCorrect == Spec => []TypeOK
  BY InvariantHolds, PTL DEF IInv

(***************************************************************************)
(* Every tab title follows the installed language, the three tabs without  *)
(* a page included.                                                        *)
(***************************************************************************)
THEOREM TabsTranslatedHolds == Spec => []TabsTranslated
  BY InvariantHolds, PTL DEF IInv

(***************************************************************************)
(* A disabled save button means no check box differs from the scripts.     *)
(***************************************************************************)
THEOREM SaveReflectsEditsHolds == Spec => []SaveReflectsEdits
  BY InvariantHolds, PTL DEF IInv

(***************************************************************************)
(* The list is empty while loading and holds every script exactly once     *)
(* afterwards, however often the page is shown.                            *)
(***************************************************************************)
THEOREM ListFilledOnceHolds == Spec => []ListFilledOnce
<1>1. IInv => ListFilledOnce
  <2> SUFFICES ASSUME IInv PROVE ListFilledOnce
    OBVIOUS
  <2>1. CASE isLoading
    BY <2>1 DEF IInv, RowsListed, ListFilledOnce
  <2>2. CASE ~isLoading
    <3>1. \A i, j \in 1..Len(rows) : rows[i].addon = rows[j].addon => i = j
      BY <2>2, ListedNoDuplicates DEF IInv
    <3>2. \A a \in Addons : \E i \in 1..Len(rows) : rows[i].addon = a
      BY <2>2 DEF IInv, RowsListed, Addons
    <3>. QED
      BY <2>2, <3>1, <3>2 DEF ListFilledOnce
  <2>. QED
    BY <2>1, <2>2
<1>. QED
  BY <1>1, InvariantHolds, PTL

-----------------------------------------------------------------------------
(* The refinement of AddonsLoading, its safety part.                       *)

(***************************************************************************)
(* The page starts idle and every step of it is a step of the abstract     *)
(* lifecycle or leaves the phase alone: load() takes it from idle to      *)
(* loading, the loading timer's event from loading to loaded, and nothing  *)
(* takes it back.  The fairness part of LoadingRefined stays with TLC.     *)
(***************************************************************************)
LoadingSafety == Loading!Init /\ [][Loading!Next]_Phase

THEOREM RefinesLoadingSafety == Spec => LoadingSafety
<1>1. Init => Loading!Init
  BY DEF Init, Loading!Init, Phase
<1>2. IInv /\ [Next]_vars => [Loading!Next]_Phase
  <2> SUFFICES ASSUME IInv, [Next]_vars PROVE [Loading!Next]_Phase
    OBVIOUS
  <2>1. CASE Load
    <3>1. Phase = "idle"
      BY <2>1 DEF Load, IInv, TypeOK, TimerTracksLoad, Phase
    <3>2. Phase' = "loading"
      BY <2>1 DEF Load, IInv, TypeOK, TimerTracksLoad, Phase
    <3>. QED
      BY <3>1, <3>2 DEF Loading!Next, Loading!Start
  <2>2. CASE \E t \in timers : TimerEvent(t)
    <3>1. PICK t \in timers : TimerEvent(t)
      BY <2>2
    <3>2. t = loadingTimer /\ isLoading /\ wasLoaded
      BY DEF IInv, TypeOK, TimerTracksLoad, NoTimer
    <3>3. ~isLoading' /\ wasLoaded'
      BY <3>1, <3>2 DEF TimerEvent
    <3>. QED
      BY <3>2, <3>3 DEF Loading!Next, Loading!Finish, Phase
  <2>3. CASE UNCHANGED <<isLoading, wasLoaded>>
    BY <2>3 DEF Phase
  <2>. QED
    BY <2>1, <2>2, <2>3 DEF Next, vars, Modify, Save, ChangeLanguage
<1>. QED
  BY <1>1, <1>2, InvariantHolds, PTL DEF Spec, LoadingSafety

=============================================================================
