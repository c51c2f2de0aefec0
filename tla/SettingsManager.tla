--------------------------- MODULE SettingsManager ---------------------------
(***************************************************************************)
(* Otter's option store, src/src/core/SettingsManager.cpp.                 *)
(*                                                                         *)
(* The class keeps in memory the option registry (m_definitions,           *)
(* m_customOptions, m_identifierCounter) and the cached flag               *)
(* m_hasWildcardedOverrides; it keeps on disk two QSettings files, the     *)
(* global store otter.conf and the per-site store override.ini, which      *)
(* every call opens afresh.  Files survive a restart of the process, the   *)
(* memory does not.                                                        *)
(*                                                                         *)
(* A host is a sequence of dot-separated labels; a scope (a group of       *)
(* override.ini) is the host of a URL, or a wildcard pattern "*.b.c"       *)
(* written as the sequence <<Star, "b", "c">>.  Option names and values    *)
(* are opaque: a name is compared only for equality, and the string        *)
(* conversions of getOptionName/getOptionIdentifier are given by the       *)
(* tables BuiltInName and EnumKeyToValue.                                  *)
(***************************************************************************)
EXTENDS Integers, Sequences, FiniteSets

CONSTANTS
    BuiltInName,     \* enum OptionIdentifier in order: BuiltInName[i+1] is
                     \* the name "Section/Leaf" of identifier i
    BuiltInDefault,  \* default value registered for each built-in option
    EnumKeyToValue,  \* keyToValue() of the normalised form of each name
    RegNames,        \* names offered to registerOption(name, ...)
    EmptyName,       \* QString()
    Values,          \* non-null option values
    Null,            \* QVariant()
    Absent,          \* no such key in a QSettings file
    Urls,            \* non-empty URLs: [local : BOOLEAN, host : Seq(labels)]
    EmptyUrl,        \* QUrl()
    Star,            \* the label "*"
    LocalHost        \* the label "localhost"

NumBuiltIn == Len(BuiltInName)
Names == {BuiltInName[i] : i \in 1..NumBuiltIn} \cup RegNames
\* Names under which a value can be stored: getOptionName() of a valid
\* identifier is never empty.
StoreNames == Names \ {EmptyName}
NoId == -1

ASSUME BuiltInAssumption ==
    /\ BuiltInName \in Seq(Names)
    /\ BuiltInDefault \in [1..NumBuiltIn -> Values]
    /\ EmptyName \in RegNames
    /\ \A i \in 1..NumBuiltIn : BuiltInName[i] # EmptyName
    /\ \A i, j \in 1..NumBuiltIn : BuiltInName[i] = BuiltInName[j] => i = j
    \* getOptionIdentifier(getOptionName(i)) = i for built-ins: no enum key
    \* ends in "OptionOption", so chopping and re-appending "Option" agree.
    /\ EnumKeyToValue \in [Names -> -1..(NumBuiltIn - 1)]
    /\ \A i \in 1..NumBuiltIn : EnumKeyToValue[BuiltInName[i]] = i - 1
    /\ EnumKeyToValue[EmptyName] = NoId

ASSUME SentinelAssumption ==
    /\ Null \notin Values /\ Absent \notin Values /\ Null # Absent
    /\ EmptyUrl \notin Urls

ASSUME UrlAssumption ==
    /\ Star # LocalHost
    /\ \A u \in Urls : u.local \in BOOLEAN /\ u.host \in Seq(STRING \cup {Star})

VARIABLES
    created,            \* m_instance # nullptr
    definitions,        \* m_definitions; entry i+1 defines identifier i
    customOptions,      \* m_customOptions, NoId where the hash has no key
    identifierCounter,  \* m_identifierCounter
    hasWildcard,        \* m_hasWildcardedOverrides
    global,             \* otter.conf: option name -> value
    overrides,          \* override.ini: scope -> option name -> value
    lastEvent           \* optionChanged emitted by the last step, if any

vars == <<created, definitions, customOptions, identifierCounter,
          hasWildcard, global, overrides, lastEvent>>

NoEvent == [id |-> NoId, value |-> Absent, url |-> EmptyUrl]

-----------------------------------------------------------------------------
(* Hosts and scopes.                                                       *)

\* getHost(): "localhost" for a local file, the URL's host otherwise.
GetHost(u) == IF u.local THEN <<LocalHost>> ELSE u.host

\* "*." + hostParts.mid(i).join('.'), i counted from 0 as in the code.
WildcardPattern(h, i) == <<Star>> \o SubSeq(h, i + 1, Len(h))

\* overrideName.startsWith('*') / childGroups().at(i).startsWith('*')
IsWildcard(scope) == Len(scope) > 0 /\ scope[1] = Star

Hosts == {GetHost(u) : u \in Urls}
Scopes == Hosts \cup UNION {{WildcardPattern(h, i) : i \in 1..(Len(h) - 1)} : h \in Hosts}

Definition == [identifier : Int, default : Values, builtIn : BOOLEAN]
Event == [id : Int, value : Values \cup {Null}, url : Urls \cup {EmptyUrl}]

-----------------------------------------------------------------------------
(* Reads: getOptionName, getOptionIdentifier, getOption, hasOverride.      *)

ValidId(id) == id \in 0..(Len(definitions) - 1)

\* getOptionName(): the enum key of a built-in, else m_customOptions.key().
GetOptionName(id) ==
    IF id \in 0..(NumBuiltIn - 1) THEN BuiltInName[id + 1]
    ELSE IF id # NoId /\ \E n \in Names : customOptions[n] = id
         THEN CHOOSE n \in Names : customOptions[n] = id
         ELSE EmptyName

\* getOptionIdentifier(): the custom table first, then the enum.
GetOptionIdentifier(name) ==
    IF customOptions[name] # NoId THEN customOptions[name]
    ELSE EnumKeyToValue[name]

\* QSettings(m_globalPath).value(name, defaultValue)
GlobalOption(id) ==
    LET n == GetOptionName(id) IN
    IF global[n] = Absent THEN definitions[id + 1].default ELSE global[n]

\* The wildcard loop of getOption(): the first i from 1 whose pattern holds
\* the option.
WildcardHits(h, n) == {i \in 1..(Len(h) - 1) : overrides[WildcardPattern(h, i)][n] # Absent}
FirstHit(S) == CHOOSE i \in S : \A j \in S : i <= j

\* Mutant of GetOption: the wildcard loop run from the shortest suffix.
GetOptionLastHit(id, u) ==
    IF ~ValidId(id) THEN Null
    ELSE IF u = EmptyUrl THEN GlobalOption(id)
    ELSE LET n == GetOptionName(id)
             h == GetHost(u)
             hits == WildcardHits(h, n)
             last == CHOOSE i \in hits : \A j \in hits : j <= i
         IN IF hasWildcard /\ overrides[h][n] = Absent /\ hits # {}
            THEN overrides[WildcardPattern(h, last)][n]
            ELSE IF overrides[h][n] # Absent THEN overrides[h][n]
            ELSE GlobalOption(id)

\* getOption(identifier, url)
GetOption(id, u) ==
    IF ~ValidId(id) THEN Null
    ELSE IF u = EmptyUrl THEN GlobalOption(id)
    ELSE LET n == GetOptionName(id)
             h == GetHost(u)
             hits == WildcardHits(h, n)
         IN IF hasWildcard /\ overrides[h][n] = Absent /\ hits # {}
            THEN overrides[WildcardPattern(h, FirstHit(hits))][n]
            ELSE IF overrides[h][n] # Absent THEN overrides[h][n]
            ELSE GlobalOption(id)

\* getOptionDefinition(identifier): a default-constructed definition for an
\* identifier out of range.
GetOptionDefinition(id) ==
    IF ValidId(id) THEN definitions[id + 1]
    ELSE [identifier |-> NoId, default |-> Null, builtIn |-> FALSE]

\* getReport(): the number of override.ini groups holding key n.
OverrideCount(n) == Cardinality({s \in Scopes : overrides[s][n] # Absent})

\* Mutant of ReportRow: the definition is looked up in the enum only.
ReportRowEnumOnly(n) ==
    LET d == GetOptionDefinition(EnumKeyToValue[n]) IN
    [name |-> n, default |-> d.default,
     isDefault |-> d.default = GetOption(d.identifier, EmptyUrl),
     overrides |-> OverrideCount(n)]

\* getReport(): the line of option name n, with the definition found through
\* getOptionIdentifier(n).  The lines are written for getOptionName(i) of
\* every i, sorted; the order and the text layout are left out.
ReportRow(n) ==
    LET d == GetOptionDefinition(GetOptionIdentifier(n)) IN
    [name |-> n, default |-> d.default,
     isDefault |-> d.default = GetOption(d.identifier, EmptyUrl),
     overrides |-> OverrideCount(n)]

Report == [i \in 0..(Len(definitions) - 1) |-> ReportRow(GetOptionName(i))]

-----------------------------------------------------------------------------
(* Operations.                                                             *)

Init ==
    /\ created = FALSE
    /\ definitions = <<>>
    /\ customOptions = [n \in Names |-> NoId]
    /\ identifierCounter = -1
    /\ hasWildcard = FALSE
    /\ global = [n \in StoreNames |-> Absent]
    /\ overrides = [s \in Scopes |-> [n \in StoreNames |-> Absent]]
    /\ lastEvent = NoEvent

\* createInstance(): register the built-in schema in enum order, then scan
\* the groups of override.ini for a wildcard scope.
CreateInstance ==
    /\ ~created
    /\ created' = TRUE
    /\ identifierCounter' = NumBuiltIn
    /\ definitions' = [i \in 1..NumBuiltIn |->
                         [identifier |-> i - 1, default |-> BuiltInDefault[i],
                          builtIn |-> TRUE]]
    /\ hasWildcard' = \E s \in Scopes, n \in StoreNames :
                         IsWildcard(s) /\ overrides[s][n] # Absent
    /\ lastEvent' = NoEvent
    /\ UNCHANGED <<customOptions, global, overrides>>

\* Mutant of RegisterOption: no check that the name is already taken.
RegisterOptionNoDupCheck(name, default) ==
    /\ created
    /\ name # EmptyName
    /\ identifierCounter' = identifierCounter + 1
    /\ customOptions' = [customOptions EXCEPT ![name] = identifierCounter]
    /\ definitions' = Append(definitions,
                         [identifier |-> identifierCounter, default |-> default,
                          builtIn |-> FALSE])
    /\ lastEvent' = NoEvent
    /\ UNCHANGED <<created, hasWildcard, global, overrides>>

\* registerOption(name, type, defaultValue, choices) for a custom option.
RegisterOption(name, default) ==
    /\ created
    /\ name # EmptyName
    /\ GetOptionIdentifier(name) < 0
    /\ identifierCounter' = identifierCounter + 1
    /\ customOptions' = [customOptions EXCEPT ![name] = identifierCounter]
    /\ definitions' = Append(definitions,
                         [identifier |-> identifierCounter, default |-> default,
                          builtIn |-> FALSE])
    /\ lastEvent' = NoEvent
    /\ UNCHANGED <<created, hasWildcard, global, overrides>>

\* updateOptionDefinition(identifier, definition): a new default, no signal.
UpdateOptionDefinition(id, default) ==
    /\ created
    /\ ValidId(id)
    /\ definitions' = [definitions EXCEPT
                         ![id + 1] = [identifier |-> @.identifier, default |-> default,
                                      builtIn |-> @.builtIn]]
    /\ lastEvent' = NoEvent
    /\ UNCHANGED <<created, customOptions, identifierCounter, hasWildcard,
                   global, overrides>>

\* Mutant of SetOverrideValue: m_hasWildcardedOverrides is not updated.
SetOverrideValueNoFlag(id, v, u) ==
    LET n == GetOptionName(id)
        scope == GetHost(u)
    IN
    /\ overrides' = [overrides EXCEPT ![scope][n] = IF v = Null THEN Absent ELSE v]
    /\ lastEvent' = [id |-> id, value |-> v, url |-> u]
    /\ UNCHANGED <<created, definitions, customOptions, identifierCounter,
                   hasWildcard, global>>

\* Mutant of SetOverrideValue: a null value is written instead of removed.
SetOverrideValueStoresNull(id, v, u) ==
    LET n == GetOptionName(id)
        scope == GetHost(u)
    IN
    /\ overrides' = [overrides EXCEPT ![scope][n] = v]
    /\ hasWildcard' = (hasWildcard \/ IsWildcard(scope))
    /\ lastEvent' = [id |-> id, value |-> v, url |-> u]
    /\ UNCHANGED <<created, definitions, customOptions, identifierCounter, global>>

\* setValue(identifier, value, url) with a non-empty url: write or remove
\* the key host/name of override.ini, note a wildcard scope, always emit.
SetOverrideValue(id, v, u) ==
    LET n == GetOptionName(id)
        scope == GetHost(u)
    IN
    /\ overrides' = [overrides EXCEPT ![scope][n] = IF v = Null THEN Absent ELSE v]
    /\ hasWildcard' = (hasWildcard \/ IsWildcard(scope))
    /\ lastEvent' = [id |-> id, value |-> v, url |-> u]
    /\ UNCHANGED <<created, definitions, customOptions, identifierCounter, global>>

\* Mutant of SetGlobalValue: written and signalled even when unchanged.
SetGlobalValueNoDedup(id, v) ==
    /\ global' = [global EXCEPT ![GetOptionName(id)] = v]
    /\ lastEvent' = [id |-> id, value |-> v, url |-> EmptyUrl]
    /\ UNCHANGED <<created, definitions, customOptions, identifierCounter,
                   hasWildcard, overrides>>

\* setValue(identifier, value) with an empty url: write otter.conf and emit
\* only when the value differs from getOption(identifier).
SetGlobalValue(id, v) ==
    /\ GetOption(id, EmptyUrl) # v
    /\ global' = [global EXCEPT ![GetOptionName(id)] = v]
    /\ lastEvent' = [id |-> id, value |-> v, url |-> EmptyUrl]
    /\ UNCHANGED <<created, definitions, customOptions, identifierCounter,
                   hasWildcard, overrides>>

\* setValue(identifier, value, url): the identifier is not checked.
SetValue(id, v, u) ==
    /\ created
    /\ \/ u # EmptyUrl /\ SetOverrideValue(id, v, u)
       \/ u = EmptyUrl /\ SetGlobalValue(id, v)

\* removeOverride(url, key): QSettings::remove(host) drops the group; with
\* an empty host it is remove(""), which clears the whole file.
RemoveOverride(u, key) ==
    LET scope == GetHost(u) IN
    /\ created
    /\ overrides' =
         IF key = EmptyName
         THEN [s \in Scopes |->
                 IF scope = <<>> \/ s = scope
                 THEN [n \in StoreNames |-> Absent] ELSE overrides[s]]
         ELSE [overrides EXCEPT ![scope][key] = Absent]
    /\ lastEvent' = NoEvent
    /\ UNCHANGED <<created, definitions, customOptions, identifierCounter,
                   hasWildcard, global>>

\* The process exits and starts again: memory is lost, the files are kept.
Restart ==
    /\ created
    /\ created' = FALSE
    /\ definitions' = <<>>
    /\ customOptions' = [n \in Names |-> NoId]
    /\ identifierCounter' = -1
    /\ hasWildcard' = FALSE
    /\ lastEvent' = NoEvent
    /\ UNCHANGED <<global, overrides>>

Next ==
    \/ CreateInstance
    \/ \E n \in RegNames, d \in Values : RegisterOption(n, d)
    \/ \E id \in 0..(Len(definitions) - 1), d \in Values :
          UpdateOptionDefinition(id, d)
    \/ \E id \in 0..(Len(definitions) - 1), v \in Values \cup {Null},
          u \in Urls \cup {EmptyUrl} : SetValue(id, v, u)
    \/ \E u \in Urls, key \in {EmptyName} \cup StoreNames : RemoveOverride(u, key)
    \/ Restart

Spec == Init /\ [][Next]_vars

\* Another Otter process on the same profile runs setValue(id, v, url): it
\* writes override.ini, and this process's memory does not change.
PeerSetOverrideValue(u, n, v) ==
    /\ overrides' = [overrides EXCEPT ![GetHost(u)][n] = IF v = Null THEN Absent ELSE v]
    /\ lastEvent' = NoEvent
    /\ UNCHANGED <<created, definitions, customOptions, identifierCounter,
                   hasWildcard, global>>

NextWithPeer ==
    \/ Next
    \/ \E u \in Urls, n \in StoreNames, v \in Values \cup {Null} :
          PeerSetOverrideValue(u, n, v)

SpecWithPeer == Init /\ [][NextWithPeer]_vars

\* Callers may also pass an identifier that is not registered, such as the
\* -1 registerOption() and getOptionIdentifier() return on failure.
NextWithInvalidId ==
    \/ Next
    \/ \E v \in Values \cup {Null}, u \in Urls \cup {EmptyUrl} : SetValue(NoId, v, u)

SpecWithInvalidId == Init /\ [][NextWithInvalidId]_vars

-----------------------------------------------------------------------------
(* Properties.                                                             *)

TypeOK ==
    /\ created \in BOOLEAN
    /\ definitions \in Seq(Definition)
    /\ customOptions \in [Names -> Int]
    /\ identifierCounter \in Int
    /\ hasWildcard \in BOOLEAN
    /\ global \in [StoreNames -> Values \cup {Null, Absent}]
    /\ overrides \in [Scopes -> [StoreNames -> Values \cup {Absent}]]
    /\ lastEvent \in Event \cup {NoEvent}

\* The registry of a running instance: identifier i is entry i+1 of
\* m_definitions (getOption indexes m_definitions by identifier), the next
\* custom identifier is the entry count, and getOptionName/
\* getOptionIdentifier are inverse on every valid identifier, across
\* registerOption calls with taken, aliased and fresh names.
RegistryConsistent ==
    created =>
      /\ identifierCounter = Len(definitions)
      /\ \A i \in 1..Len(definitions) : definitions[i].identifier = i - 1
      /\ \A id \in 0..(Len(definitions) - 1) :
            /\ GetOptionName(id) # EmptyName
            /\ GetOptionIdentifier(GetOptionName(id)) = id

\* The diagnostic report describes every option by its own definition: the
\* line written for identifier i shows i's default and whether i's global
\* value is that default, though the report looks the definition up again
\* by name.
ReportDescribesOptions ==
    created =>
      \A i \in 0..(Len(definitions) - 1) :
         /\ Report[i].default = definitions[i + 1].default
         /\ Report[i].isDefault = (GetOption(i, EmptyUrl) = definitions[i + 1].default)

\* m_hasWildcardedOverrides, which getOption uses to skip the wildcard
\* search, is set whenever override.ini holds a wildcard scope: after
\* createInstance's scan, setValue's update, and across restarts.
WildcardFlagSound ==
    created /\ (\E s \in Scopes, n \in StoreNames :
                    IsWildcard(s) /\ overrides[s][n] # Absent)
    => hasWildcard

\* The precedence of the design, stated without the loop: a wildcard scope
\* *.S matches host h when S is a proper suffix of h's labels, and the
\* longest matching S wins; an exact override beats every wildcard.
MatchesHost(s, h) ==
    /\ IsWildcard(s)
    /\ 1 <= Len(s) - 1 /\ Len(s) - 1 < Len(h)
    /\ Tail(s) = SubSeq(h, Len(h) - Len(s) + 2, Len(h))

EffectiveValue(id, u) ==
    LET n == GetOptionName(id)
        h == GetHost(u)
        W == {s \in Scopes : MatchesHost(s, h) /\ overrides[s][n] # Absent}
    IN IF overrides[h][n] # Absent THEN overrides[h][n]
       ELSE IF W # {} THEN overrides[CHOOSE s \in W : \A t \in W : Len(t) <= Len(s)][n]
       ELSE GlobalOption(id)

\* getOption(identifier, url) returns the value the precedence rules give:
\* exact host, then the most specific wildcard, then otter.conf, then the
\* default.
ResolutionFollowsPrecedence ==
    created =>
      \A id \in 0..(Len(definitions) - 1), u \in Urls :
         GetOption(id, u) = EffectiveValue(id, u)

\* Every optionChanged is true when delivered: an unscoped one reports a
\* value that differs from what getOption returned before the write and
\* equals what it returns after; a scoped one with a value is what
\* getOption returns for its URL afterwards.
NotifiedValueIsCurrent ==
    [][\A e \in {lastEvent'} :
         e # NoEvent =>
           IF e.url = EmptyUrl
           THEN /\ GetOption(e.id, EmptyUrl) # e.value
                /\ (GetOption(e.id, EmptyUrl))' = e.value
           ELSE e.value # Null => (GetOption(e.id, e.url))' = e.value]_vars

\* The design: optionChanged fires after every successful store mutation.
NotifyOnEveryMutation ==
    [][(global' # global \/ overrides' # overrides) => lastEvent' # NoEvent]_vars

\* The design (error handling): a write with an invalid identifier is a
\* silent no-op, so setValue() emits no optionChanged for it.
InvalidIdIsNoOp ==
    [][lastEvent' # NoEvent => ValidId(lastEvent'.id)]_vars

\* The design: removeOverride(url) with no option name drops the overrides
\* of that one host.
RemoveOverrideKeepsOtherSites ==
    [][\A u \in Urls :
         RemoveOverride(u, EmptyName) =>
           \A s \in Scopes \ {GetHost(u)} : overrides'[s] = overrides[s]]_vars

=============================================================================
