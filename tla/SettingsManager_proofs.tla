------------------------ MODULE SettingsManager_proofs ------------------------
(***************************************************************************)
(* Proofs about SettingsManager for every value of its constants.          *)
(***************************************************************************)
EXTENDS SettingsManager, SequenceTheorems, WellFoundedInduction, TLAPS

(***************************************************************************)
(* Writing one key of one group keeps override.ini a map from groups to    *)
(* maps from keys to values, whether or not the group or key was there.    *)
(***************************************************************************)
LEMMA NestedExceptType ==
    ASSUME NEW S, NEW T, NEW V, NEW f \in [S -> [T -> V]], NEW a, NEW b, NEW v \in V
    PROVE  [f EXCEPT ![a][b] = v] \in [S -> [T -> V]]
<1>1. CASE a \in S
  BY <1>1
<1>2. CASE a \notin S
  BY <1>2
<1>3. QED
  BY <1>1, <1>2

(***************************************************************************)
(* Writing one key of a file keeps it a map from keys to values.           *)
(***************************************************************************)
LEMMA ExceptType ==
    ASSUME NEW S, NEW V, NEW f \in [S -> V], NEW a, NEW v \in V
    PROVE  [f EXCEPT ![a] = v] \in [S -> V]
  OBVIOUS

(***************************************************************************)
(* The m_definitions entry that registerOption appends is a definition.    *)
(***************************************************************************)
LEMMA NewDefinitionType ==
    ASSUME NEW d \in Values, NEW c \in Int, NEW b \in BOOLEAN
    PROVE  [identifier |-> c, default |-> d, builtIn |-> b] \in Definition
  BY DEF Definition

(***************************************************************************)
(* m_definitions.at(identifier) of a valid identifier is an entry.         *)
(***************************************************************************)
LEMMA EntryType ==
    ASSUME NEW S, NEW q \in Seq(S), NEW i \in 0..(Len(q) - 1)
    PROVE  q[i + 1] \in S
  OBVIOUS

(***************************************************************************)
(* The optionChanged of setValue has the type of an event.                 *)
(***************************************************************************)
LEMMA EventType ==
    ASSUME NEW id \in Int, NEW v \in Values \cup {Null}, NEW u \in Urls \cup {EmptyUrl}
    PROVE  [id |-> id, value |-> v, url |-> u] \in Event \cup {NoEvent}
  BY DEF Event

(***************************************************************************)
(* Every step keeps each variable in its type: the registry, the two       *)
(* QSettings files and the last optionChanged.                             *)
(***************************************************************************)
THEOREM TypeCorrect == Spec => []TypeOK
<1>. DEFINE TypeData ==
       /\ definitions \in Seq(Definition)
       /\ customOptions \in [Names -> Int]
       /\ identifierCounter \in Int
       /\ global \in [StoreNames -> Values \cup {Null, Absent}]
       /\ overrides \in [Scopes -> [StoreNames -> Values \cup {Absent}]]
       /\ lastEvent \in Event \cup {NoEvent}
<1>. USE DEF NoEvent, NoId, TypeData
<1>1. Init => TypeOK
  <2> SUFFICES ASSUME Init PROVE TypeOK
    OBVIOUS
  <2>1. created \in BOOLEAN /\ hasWildcard \in BOOLEAN
    BY Zenon DEF Init
  <2>2. TypeData
    <3>1. definitions = <<>> /\ customOptions = [n \in Names |-> NoId]
          /\ identifierCounter = -1 /\ global = [n \in StoreNames |-> Absent]
          /\ overrides = [s \in Scopes |-> [n \in StoreNames |-> Absent]]
          /\ lastEvent = NoEvent
      BY Zenon DEF Init
    <3>2. QED
      BY <3>1
  <2>3. QED
    BY <2>1, <2>2 DEF TypeOK
<1>2. TypeOK /\ [Next]_vars => TypeOK'
  <2> SUFFICES ASSUME TypeOK, [Next]_vars PROVE TypeOK'
    OBVIOUS
  <2>0. TypeData
    BY DEF TypeOK
  \* The two Boolean flags, by Zenon; the data below, by SMT from the
  \* equations each action gives its data variables.
  <2>1. (created \in BOOLEAN /\ hasWildcard \in BOOLEAN)'
    BY Zenon DEF TypeOK, Next, vars, CreateInstance, RegisterOption,
       UpdateOptionDefinition, SetValue, SetOverrideValue, SetGlobalValue,
       RemoveOverride, Restart
  <2>2. CASE CreateInstance
    <3>1. NumBuiltIn \in Nat /\ BuiltInDefault \in [1..NumBuiltIn -> Values]
      BY BuiltInAssumption DEF NumBuiltIn
    <3>2. [i \in 1..NumBuiltIn |->
             [identifier |-> i - 1, default |-> BuiltInDefault[i], builtIn |-> TRUE]]
          \in Seq(Definition)
      BY <3>1 DEF Definition
    <3>3. /\ identifierCounter' = NumBuiltIn
          /\ definitions' = [i \in 1..NumBuiltIn |->
                [identifier |-> i - 1, default |-> BuiltInDefault[i], builtIn |-> TRUE]]
          /\ lastEvent' = NoEvent
          /\ UNCHANGED <<customOptions, global, overrides>>
      BY <2>2, Zenon DEF CreateInstance
    <3>4. TypeData'
      BY <2>0, <3>1, <3>2, <3>3
    <3>5. QED
      BY <2>1, <3>4 DEF TypeOK
  <2>3. CASE \E n \in RegNames, d \in Values : RegisterOption(n, d)
    <3>1. PICK n \in RegNames, d \in Values : RegisterOption(n, d)
      BY <2>3
    <3>2. /\ identifierCounter' = identifierCounter + 1
          /\ customOptions' = [customOptions EXCEPT ![n] = identifierCounter]
          /\ definitions' = Append(definitions,
                [identifier |-> identifierCounter, default |-> d, builtIn |-> FALSE])
          /\ lastEvent' = NoEvent
          /\ UNCHANGED <<global, overrides>>
      BY <3>1, Zenon DEF RegisterOption
    <3>3. [identifier |-> identifierCounter, default |-> d, builtIn |-> FALSE] \in Definition
      BY <2>0, NewDefinitionType
    <3>4. n \in Names
      BY DEF Names
    <3>5. TypeData'
      BY <2>0, <3>2, <3>3, <3>4
    <3>6. QED
      BY <2>1, <3>5 DEF TypeOK
  <2>4. CASE \E id \in 0..(Len(definitions) - 1), d \in Values :
                UpdateOptionDefinition(id, d)
    <3>1. PICK id \in 0..(Len(definitions) - 1), d \in Values :
                UpdateOptionDefinition(id, d)
      BY <2>4
    <3>2. [identifier |-> definitions[id + 1].identifier, default |-> d,
           builtIn |-> definitions[id + 1].builtIn] \in Definition
      <4>1. definitions[id + 1] \in Definition
        BY <2>0, EntryType
      <4>2. QED
        BY <4>1, NewDefinitionType DEF Definition
    <3>3. /\ definitions' = [definitions EXCEPT
                ![id + 1] = [identifier |-> definitions[id + 1].identifier,
                             default |-> d,
                             builtIn |-> definitions[id + 1].builtIn]]
          /\ lastEvent' = NoEvent
          /\ UNCHANGED <<customOptions, identifierCounter, global, overrides>>
      BY <3>1, Zenon DEF UpdateOptionDefinition
    <3>4. id + 1 \in 1..Len(definitions)
      OBVIOUS
    <3>5. TypeData'
      BY <2>0, <3>2, <3>3, <3>4
    <3>6. QED
      BY <2>1, <3>5 DEF TypeOK
  <2>5. CASE \E id \in 0..(Len(definitions) - 1), v \in Values \cup {Null},
                u \in Urls \cup {EmptyUrl} : SetValue(id, v, u)
    <3>1. PICK id \in 0..(Len(definitions) - 1), v \in Values \cup {Null},
                u \in Urls \cup {EmptyUrl} : SetValue(id, v, u)
      BY <2>5
    <3>2. \/ u # EmptyUrl /\ SetOverrideValue(id, v, u)
          \/ u = EmptyUrl /\ SetGlobalValue(id, v)
      BY <3>1, Zenon DEF SetValue
    <3>3. TypeData'
      <4>1. CASE u # EmptyUrl /\ SetOverrideValue(id, v, u)
        <5>1. /\ overrides' = [overrides EXCEPT
                    ![GetHost(u)][GetOptionName(id)] = IF v = Null THEN Absent ELSE v]
              /\ lastEvent' = [id |-> id, value |-> v, url |-> u]
              /\ UNCHANGED <<definitions, customOptions, identifierCounter, global>>
          BY <4>1, Zenon DEF SetOverrideValue
        <5>2. overrides' \in [Scopes -> [StoreNames -> Values \cup {Absent}]]
          BY <2>0, <5>1, NestedExceptType
        <5>3. lastEvent' \in Event \cup {NoEvent}
          BY <5>1, EventType
        <5>4. QED
          BY <2>0, <5>1, <5>2, <5>3
      <4>2. CASE u = EmptyUrl /\ SetGlobalValue(id, v)
        <5>1. /\ global' = [global EXCEPT ![GetOptionName(id)] = v]
              /\ lastEvent' = [id |-> id, value |-> v, url |-> EmptyUrl]
              /\ UNCHANGED <<definitions, customOptions, identifierCounter, overrides>>
          BY <4>2, Zenon DEF SetGlobalValue
        <5>2. global' \in [StoreNames -> Values \cup {Null, Absent}]
          BY <2>0, <5>1, ExceptType
        <5>3. lastEvent' \in Event \cup {NoEvent}
          BY <5>1, EventType
        <5>4. QED
          BY <2>0, <5>1, <5>2, <5>3
      <4>3. QED
        BY <3>2, <4>1, <4>2
    <3>4. QED
      BY <2>1, <3>3 DEF TypeOK
  <2>6. CASE \E u \in Urls, key \in {EmptyName} \cup StoreNames : RemoveOverride(u, key)
    <3>1. PICK u \in Urls, key \in {EmptyName} \cup StoreNames : RemoveOverride(u, key)
      BY <2>6
    <3>2. /\ overrides' =
               IF key = EmptyName
               THEN [s \in Scopes |->
                       IF GetHost(u) = <<>> \/ s = GetHost(u)
                       THEN [n \in StoreNames |-> Absent] ELSE overrides[s]]
               ELSE [overrides EXCEPT ![GetHost(u)][key] = Absent]
          /\ lastEvent' = NoEvent
          /\ UNCHANGED <<definitions, customOptions, identifierCounter, global>>
      BY <3>1, Zenon DEF RemoveOverride
    <3>3. overrides' \in [Scopes -> [StoreNames -> Values \cup {Absent}]]
      BY <2>0, <3>2, NestedExceptType
    <3>4. TypeData'
      BY <2>0, <3>2, <3>3
    <3>5. QED
      BY <2>1, <3>4 DEF TypeOK
  <2>7. CASE Restart
    <3>1. /\ definitions' = <<>>
          /\ customOptions' = [n \in Names |-> NoId]
          /\ identifierCounter' = -1
          /\ lastEvent' = NoEvent
          /\ UNCHANGED <<global, overrides>>
      BY <2>7, Zenon DEF Restart
    <3>2. TypeData'
      BY <2>0, <3>1
    <3>3. QED
      BY <2>1, <3>2 DEF TypeOK
  <2>8. CASE UNCHANGED vars
    BY <2>8 DEF vars, TypeOK
  <2>9. QED
    BY <2>2, <2>3, <2>4, <2>5, <2>6, <2>7, <2>8 DEF Next
<1>3. QED
  BY <1>1, <1>2, PTL DEF Spec

(***************************************************************************)
(* While the instance exists, m_hasWildcardedOverrides is set whenever     *)
(* override.ini has a wildcard scope, so getOption never skips a wildcard  *)
(* override: createInstance's scan sets it from the file, setValue sets it *)
(* on a wildcard write, removeOverride only removes, and a restart rescans.*)
(***************************************************************************)
THEOREM FlagSound == Spec => []WildcardFlagSound
<1>1. Init => WildcardFlagSound
  BY Zenon DEF Init, WildcardFlagSound
<1>2. TypeOK /\ WildcardFlagSound /\ [Next]_vars => WildcardFlagSound'
  <2> SUFFICES ASSUME TypeOK, WildcardFlagSound, [Next]_vars
               PROVE WildcardFlagSound'
    OBVIOUS
  <2>. USE DEF WildcardFlagSound
  <2>1. CASE CreateInstance
    BY <2>1 DEF CreateInstance
  <2>2. CASE \E n \in RegNames, d \in Values : RegisterOption(n, d)
    BY <2>2 DEF RegisterOption
  <2>3. CASE \E id \in 0..(Len(definitions) - 1), d \in Values :
                UpdateOptionDefinition(id, d)
    BY <2>3 DEF UpdateOptionDefinition
  <2>4. CASE \E id \in 0..(Len(definitions) - 1), v \in Values \cup {Null},
                u \in Urls \cup {EmptyUrl} : SetValue(id, v, u)
    <3>1. PICK id \in 0..(Len(definitions) - 1), v \in Values \cup {Null},
                u \in Urls \cup {EmptyUrl} : SetValue(id, v, u)
      BY <2>4
    <3>2. CASE u # EmptyUrl /\ SetOverrideValue(id, v, u)
      <4>. DEFINE n == GetOptionName(id)
                  scope == GetHost(u)
      <4>1. overrides' = [overrides EXCEPT ![scope][n] = IF v = Null THEN Absent ELSE v]
        BY <3>2 DEF SetOverrideValue
      <4>2. hasWildcard' = (hasWildcard \/ IsWildcard(scope))
        BY <3>2 DEF SetOverrideValue
      <4>3. SUFFICES ASSUME created',
                            NEW s \in Scopes, NEW m \in StoreNames,
                            IsWildcard(s), overrides'[s][m] # Absent
                     PROVE hasWildcard'
        BY <3>1 DEF SetValue
      <4>4. CASE <<s, m>> = <<scope, n>>
        BY <4>2, <4>3, <4>4
      <4>5. CASE <<s, m>> # <<scope, n>>
        <5>1. overrides'[s][m] = overrides[s][m]
          BY <4>1, <4>5 DEF TypeOK
        <5>2. created
          BY <3>1 DEF SetValue
        <5>3. QED
          BY <4>2, <4>3, <5>1, <5>2
      <4>6. QED
        BY <4>4, <4>5
    <3>3. CASE u = EmptyUrl /\ SetGlobalValue(id, v)
      BY <3>1, <3>3 DEF SetGlobalValue, SetValue
    <3>4. QED
      BY <3>1, <3>2, <3>3 DEF SetValue
  <2>5. CASE \E u \in Urls, key \in {EmptyName} \cup StoreNames : RemoveOverride(u, key)
    <3>1. PICK u \in Urls, key \in {EmptyName} \cup StoreNames : RemoveOverride(u, key)
      BY <2>5
    <3>2. \A s \in Scopes, m \in StoreNames : overrides'[s][m] \in {Absent, overrides[s][m]}
      BY <3>1 DEF RemoveOverride, TypeOK
    <3>3. QED
      BY <3>1, <3>2 DEF RemoveOverride
  <2>6. CASE Restart
    BY <2>6 DEF Restart
  <2>7. CASE UNCHANGED vars
    BY <2>7 DEF vars
  <2>8. QED
    BY <2>1, <2>2, <2>3, <2>4, <2>5, <2>6, <2>7 DEF Next
<1>3. QED
  BY <1>1, <1>2, TypeCorrect, PTL DEF Spec
-----------------------------------------------------------------------------
(* The registry.                                                           *)

\* The identifiers registerOption() has handed out since createInstance().
CustomIds == NumBuiltIn..(Len(definitions) - 1)

(***************************************************************************)
(* The strengthening of RegistryConsistent.  Before createInstance() the   *)
(* registry is empty.  Afterwards the built-ins come first, a custom name  *)
(* holds one of the identifiers handed out after them, no two names hold   *)
(* the same one, every one handed out is held, and a name that holds one   *)
(* is neither empty nor an enum key: registerOption() rejected those       *)
(* through getOptionIdentifier().                                          *)
(***************************************************************************)
\* The registry part of RegInv, once the instance exists.
RegCreated ==
    /\ identifierCounter = Len(definitions)
    /\ NumBuiltIn <= Len(definitions)
    /\ \A i \in 1..Len(definitions) : definitions[i].identifier = i - 1
    /\ \A n \in Names : customOptions[n] # NoId =>
          /\ customOptions[n] \in CustomIds
          /\ n # EmptyName
          /\ EnumKeyToValue[n] = NoId
    /\ \A n, m \in Names :
          customOptions[n] # NoId /\ customOptions[n] = customOptions[m]
          => n = m
    /\ \A id \in CustomIds : \E n \in Names : customOptions[n] = id

RegInv ==
    /\ ~created =>
         /\ definitions = <<>>
         /\ identifierCounter = NoId
         /\ \A n \in Names : customOptions[n] = NoId
    /\ created => RegCreated

(***************************************************************************)
(* createInstance() registers the built-ins into an empty registry.        *)
(***************************************************************************)
LEMMA CreateRegInv == ASSUME TypeOK, RegInv, CreateInstance PROVE RegInv'
  <1>1. ~created /\ created'
    BY Zenon DEF CreateInstance
  <1>2. /\ identifierCounter' = NumBuiltIn
        /\ definitions' = [i \in 1..NumBuiltIn |->
              [identifier |-> i - 1, default |-> BuiltInDefault[i], builtIn |-> TRUE]]
        /\ customOptions' = customOptions
    BY Zenon DEF CreateInstance
  <1>3. \A n \in Names : customOptions[n] = NoId
    BY <1>1 DEF RegInv
  <1>4. NumBuiltIn \in Nat
    BY BuiltInAssumption DEF NumBuiltIn
  <1>5. RegCreated'
    BY <1>2, <1>3, <1>4 DEF RegCreated, CustomIds, NoId
  <1>. QED
    BY <1>1, <1>5, Zenon DEF RegInv

(***************************************************************************)
(* registerOption() appends one definition and gives the name the next     *)
(* identifier, after getOptionIdentifier() found the name free.            *)
(***************************************************************************)
LEMMA RegisterRegInv ==
    ASSUME TypeOK, RegInv, NEW n \in RegNames, NEW d \in Values,
           RegisterOption(n, d)
    PROVE  RegInv'
  <1>1. created /\ created'
    BY Zenon DEF RegisterOption
  <1>2. /\ n # EmptyName
        /\ GetOptionIdentifier(n) < 0
        /\ identifierCounter' = identifierCounter + 1
        /\ customOptions' = [customOptions EXCEPT ![n] = identifierCounter]
        /\ definitions' = Append(definitions,
              [identifier |-> identifierCounter, default |-> d, builtIn |-> FALSE])
    BY Zenon DEF RegisterOption
  <1>3. RegCreated
    BY <1>1 DEF RegInv
  <1>4. n \in Names
    BY DEF Names
  <1>5. customOptions[n] = NoId /\ EnumKeyToValue[n] = NoId
    <2>1. EnumKeyToValue[n] \in -1..(NumBuiltIn - 1)
      BY <1>4, BuiltInAssumption
    <2>2. NumBuiltIn \in Nat
      BY BuiltInAssumption DEF NumBuiltIn
    <2>3. customOptions[n] # NoId => customOptions[n] >= 0
      BY <1>3, <1>4, <2>2 DEF RegCreated, CustomIds
    <2>. QED
      BY <1>2, <1>4, <2>1, <2>3 DEF GetOptionIdentifier, TypeOK, NoId
  <1>6. NumBuiltIn \in Nat
    BY BuiltInAssumption DEF NumBuiltIn
  <1>7. definitions \in Seq(Definition)
    BY DEF TypeOK
  <1>. DEFINE L == Len(definitions)
  <1>8. /\ Len(definitions') = L + 1
        /\ identifierCounter = L
        /\ NumBuiltIn <= L
        /\ \A i \in 1..L + 1 : definitions'[i].identifier = i - 1
    BY <1>2, <1>3, <1>7 DEF RegCreated
  <1>9. \A m \in Names : customOptions[m] # NoId => customOptions[m] \in NumBuiltIn..(L - 1)
    BY <1>3 DEF RegCreated, CustomIds
  <1>10. customOptions' = [customOptions EXCEPT ![n] = L] /\ customOptions \in [Names -> Int]
    BY <1>2, <1>8 DEF TypeOK
  <1>11. \A m \in Names : customOptions'[m] # NoId =>
            /\ customOptions'[m] \in NumBuiltIn..L
            /\ m # EmptyName
            /\ EnumKeyToValue[m] = NoId
    BY <1>2, <1>3, <1>5, <1>6, <1>9, <1>10 DEF RegCreated, NoId
  <1>12. \A m1, m2 \in Names :
            customOptions'[m1] # NoId /\ customOptions'[m1] = customOptions'[m2]
            => m1 = m2
    BY <1>3, <1>4, <1>5, <1>6, <1>9, <1>10 DEF RegCreated, NoId
  <1>13. \A id \in NumBuiltIn..L : \E m \in Names : customOptions'[m] = id
    <2> SUFFICES ASSUME NEW id \in NumBuiltIn..L
                 PROVE  \E m \in Names : customOptions'[m] = id
      OBVIOUS
    <2>1. CASE id = L
      BY <2>1, <1>4, <1>10
    <2>2. CASE id # L
      <3>1. PICK m \in Names : customOptions[m] = id
        BY <2>2, <1>3 DEF RegCreated, CustomIds
      <3>2. m # n
        BY <3>1, <1>5, <1>6 DEF NoId
      <3>. QED
        BY <3>1, <3>2, <1>10
    <2>. QED
      BY <2>1, <2>2
  <1>14. CustomIds' = NumBuiltIn..L
    BY <1>7, <1>8 DEF CustomIds
  <1>15. identifierCounter' = Len(definitions')
    BY <1>2, <1>7, <1>8
  <1>16. RegCreated'
    <2>1. NumBuiltIn <= Len(definitions')
      BY <1>6, <1>7, <1>8
    <2>2. \A m \in Names : customOptions'[m] # NoId =>
             /\ customOptions'[m] \in CustomIds'
             /\ m # EmptyName
             /\ EnumKeyToValue[m] = NoId
      BY <1>11, <1>14
    <2>3. \A id \in CustomIds' : \E m \in Names : customOptions'[m] = id
      BY <1>13, <1>14
    <2>. QED
      BY <1>8, <1>12, <1>15, <2>1, <2>2, <2>3, Zenon DEF RegCreated
  <1>. QED
    BY <1>1, <1>16, Zenon DEF RegInv

LEMMA UpdateRegInv ==
    ASSUME TypeOK, RegInv, NEW id \in 0..(Len(definitions) - 1), NEW d \in Values,
           UpdateOptionDefinition(id, d)
    PROVE  RegInv'
  <1>1. created /\ created'
    BY Zenon DEF UpdateOptionDefinition
  <1>2. /\ definitions' = [definitions EXCEPT
              ![id + 1] = [identifier |-> definitions[id + 1].identifier,
                           default |-> d, builtIn |-> definitions[id + 1].builtIn]]
        /\ UNCHANGED <<customOptions, identifierCounter>>
    BY Zenon DEF UpdateOptionDefinition
  <1>3. RegCreated
    BY <1>1 DEF RegInv
  <1>4. RegCreated'
    BY <1>2, <1>3 DEF RegCreated, CustomIds, TypeOK
  <1>. QED
    BY <1>1, <1>4, Zenon DEF RegInv

(***************************************************************************)
(* A step that leaves the registry alone keeps RegInv.                     *)
(***************************************************************************)
LEMMA FrameRegInv ==
    ASSUME RegInv, UNCHANGED <<created, definitions, customOptions, identifierCounter>>
    PROVE  RegInv'
  BY Zenon DEF RegInv, RegCreated, CustomIds

THEOREM RegistryInvariant == Spec => []RegInv
<1>1. Init => RegInv
  BY DEF Init, RegInv, NoId
<1>2. TypeOK /\ RegInv /\ [Next]_vars => RegInv'
  <2> SUFFICES ASSUME TypeOK, RegInv, [Next]_vars PROVE RegInv'
    OBVIOUS
  <2>1. CASE CreateInstance
    BY <2>1, CreateRegInv
  <2>2. CASE \E n \in RegNames, d \in Values : RegisterOption(n, d)
    BY <2>2, RegisterRegInv
  <2>3. CASE \E id \in 0..(Len(definitions) - 1), d \in Values :
                UpdateOptionDefinition(id, d)
    BY <2>3, UpdateRegInv
  <2>4. CASE \E id \in 0..(Len(definitions) - 1), v \in Values \cup {Null},
                u \in Urls \cup {EmptyUrl} : SetValue(id, v, u)
    <3>1. UNCHANGED <<created, definitions, customOptions, identifierCounter>>
      BY <2>4, Zenon DEF SetValue, SetOverrideValue, SetGlobalValue
    <3>. QED
      BY <3>1, FrameRegInv
  <2>5. CASE \E u \in Urls, key \in {EmptyName} \cup StoreNames : RemoveOverride(u, key)
    <3>1. UNCHANGED <<created, definitions, customOptions, identifierCounter>>
      BY <2>5, Zenon DEF RemoveOverride
    <3>. QED
      BY <3>1, FrameRegInv
  <2>6. CASE Restart
    <3>1. ~created'
      BY <2>6, Zenon DEF Restart
    <3>2. /\ definitions' = <<>>
          /\ identifierCounter' = NoId
          /\ \A n \in Names : customOptions'[n] = NoId
      BY <2>6 DEF Restart, NoId
    <3>. QED
      BY <3>1, <3>2, Zenon DEF RegInv
  <2>7. CASE UNCHANGED vars
    BY <2>7, FrameRegInv DEF vars
  <2>. QED
    BY <2>1, <2>2, <2>3, <2>4, <2>5, <2>6, <2>7 DEF Next
<1>. QED
  BY <1>1, <1>2, TypeCorrect, PTL DEF Spec

(***************************************************************************)
(* In a running instance the identifiers are the indexes of                *)
(* m_definitions and getOptionName/getOptionIdentifier are inverse on      *)
(* them: a built-in name is never taken by registerOption(), and a custom  *)
(* identifier has exactly one name.                                        *)
(***************************************************************************)
LEMMA RegInvConsistent == TypeOK /\ RegInv => RegistryConsistent
<1> SUFFICES ASSUME TypeOK, RegInv PROVE RegistryConsistent
  OBVIOUS
<1>0. ASSUME created, NEW id \in 0..(Len(definitions) - 1)
      PROVE  /\ GetOptionName(id) # EmptyName
             /\ GetOptionIdentifier(GetOptionName(id)) = id
  <2>1. RegCreated
    BY <1>0 DEF RegInv
  <2>2. NumBuiltIn \in Nat
    BY BuiltInAssumption DEF NumBuiltIn
  <2>3. CASE id < NumBuiltIn
    <3>1. GetOptionName(id) = BuiltInName[id + 1]
      BY <2>2, <2>3 DEF GetOptionName
    <3>2. id + 1 \in 1..NumBuiltIn
      BY <2>2, <2>3
    <3>3. BuiltInName[id + 1] \in Names
      BY <3>2 DEF Names
    <3>4. BuiltInName[id + 1] # EmptyName /\ EnumKeyToValue[BuiltInName[id + 1]] = id
      BY <3>2, BuiltInAssumption
    <3>5. customOptions[BuiltInName[id + 1]] = NoId
      BY <2>1, <2>2, <2>3, <3>3, <3>4 DEF RegCreated, NoId
    <3>. QED
      BY <3>1, <3>4, <3>5 DEF GetOptionIdentifier
  <2>4. CASE id >= NumBuiltIn
    <3>1. id \in CustomIds /\ id # NoId
      BY <2>2, <2>4 DEF CustomIds, NoId
    <3>2. \E n \in Names : customOptions[n] = id
      BY <2>1, <3>1 DEF RegCreated
    <3>. DEFINE c == CHOOSE n \in Names : customOptions[n] = id
    <3>3. c \in Names /\ customOptions[c] = id
      BY <3>2
    <3>4. GetOptionName(id) = c
      BY <2>2, <2>4, <3>1, <3>2 DEF GetOptionName
    <3>5. c # EmptyName
      BY <2>1, <3>1, <3>3 DEF RegCreated
    <3>. QED
      BY <3>1, <3>3, <3>4, <3>5 DEF GetOptionIdentifier
  <2>. QED
    BY <2>2, <2>3, <2>4
<1>. QED
  BY <1>0 DEF RegistryConsistent, RegInv, RegCreated

(***************************************************************************)
(* RegistryConsistent holds in every reachable state, for every schema of  *)
(* built-in options and every set of names offered to registerOption().   *)
(***************************************************************************)
THEOREM RegistrySound == Spec => []RegistryConsistent
  BY RegistryInvariant, TypeCorrect, RegInvConsistent, PTL

(***************************************************************************)
(* getReport() finds each option's definition again through               *)
(* getOptionIdentifier(getOptionName(i)); in a consistent registry that    *)
(* is definition i itself, so the line of i shows i's own default.         *)
(***************************************************************************)
LEMMA ConsistentReport == TypeOK /\ RegistryConsistent => ReportDescribesOptions
<1> SUFFICES ASSUME TypeOK, RegistryConsistent, created,
                    NEW i \in 0..(Len(definitions) - 1)
             PROVE  /\ Report[i].default = definitions[i + 1].default
                    /\ Report[i].isDefault =
                         (GetOption(i, EmptyUrl) = definitions[i + 1].default)
  BY DEF ReportDescribesOptions
<1>1. GetOptionIdentifier(GetOptionName(i)) = i
  BY DEF RegistryConsistent
<1>2. definitions[i + 1].identifier = i
  BY DEF RegistryConsistent
<1>3. GetOptionDefinition(i) = definitions[i + 1]
  BY DEF GetOptionDefinition, ValidId
<1>4. Report[i] = ReportRow(GetOptionName(i))
  BY DEF Report
<1>5. ReportRow(GetOptionName(i)).default = definitions[i + 1].default
  BY <1>1, <1>3 DEF ReportRow
<1>6. ReportRow(GetOptionName(i)).isDefault =
        (definitions[i + 1].default = GetOption(i, EmptyUrl))
  BY <1>1, <1>2, <1>3 DEF ReportRow
<1>. QED
  BY <1>4, <1>5, <1>6

(***************************************************************************)
(* In every reachable state the diagnostic report describes each option   *)
(* by its own definition.                                                  *)
(***************************************************************************)
THEOREM ReportSound == Spec => []ReportDescribesOptions
  BY RegistrySound, TypeCorrect, ConsistentReport, PTL

-----------------------------------------------------------------------------
(* Wildcard resolution.                                                    *)

\* The labels a host or a scope is made of.
Labels == STRING \cup {Star, LocalHost}

(***************************************************************************)
(* The order < on the naturals is the relation OpToRel(<, Nat).            *)
(***************************************************************************)
LEMMA LessInRel ==
    ASSUME NEW x \in Nat, NEW y \in Nat, y < x
    PROVE  <<y, x>> \in OpToRel(<, Nat)
  BY Zenon DEF OpToRel

(***************************************************************************)
(* A non-empty set of naturals has a least element, so the wildcard loop's *)
(* first hit is well defined whenever it hits.                             *)
(***************************************************************************)
LEMMA MinExists ==
    ASSUME NEW T \in SUBSET Nat, T # {}
    PROVE  \E x \in T : \A y \in T : x <= y
<1>1. PICK x \in T : \A y \in T : ~(<<y, x>> \in OpToRel(<, Nat))
  BY NatLessThanWellFounded, WFMin
<1>2. \A y \in T : ~(y < x)
  BY <1>1, LessInRel
<1>. QED
  BY <1>2

(***************************************************************************)
(* The pattern "*." + hostParts.mid(i).join('.') that iteration i builds:  *)
(* a star followed by the labels of h from i+1 on.                         *)
(***************************************************************************)
LEMMA PatternShape ==
    ASSUME NEW h \in Seq(Labels), NEW i \in 1..(Len(h) - 1)
    PROVE  /\ WildcardPattern(h, i) \in Seq(Labels)
           /\ Len(WildcardPattern(h, i)) = Len(h) - i + 1
           /\ WildcardPattern(h, i)[1] = Star
           /\ Tail(WildcardPattern(h, i)) = SubSeq(h, i + 1, Len(h))
<1>. DEFINE t == SubSeq(h, i + 1, Len(h))
<1>1. t \in Seq(Labels) /\ Len(t) = Len(h) - i
  BY SubSeqProperties
<1>2. <<Star>> \in Seq(Labels)
  BY DEF Labels
<1>3. WildcardPattern(h, i) \in Seq(Labels)
      /\ Len(WildcardPattern(h, i)) = Len(h) - i + 1
      /\ WildcardPattern(h, i)[1] = Star
  BY <1>1, <1>2, ConcatProperties DEF WildcardPattern
<1>4. Tail(WildcardPattern(h, i)) = t
  <2>0. WildcardPattern(h, i) # <<>>
    BY <1>3
  <2>1. Len(Tail(WildcardPattern(h, i))) = Len(t)
    BY <1>3, <2>0, HeadTailProperties
  <2>2. \A k \in 1..Len(t) : Tail(WildcardPattern(h, i))[k] = t[k]
    BY <1>1, <1>2, <1>3, <2>0, HeadTailProperties, ConcatProperties DEF WildcardPattern
  <2>3. Tail(WildcardPattern(h, i)) \in Seq(Labels)
    BY <1>3, <2>0, HeadTailProperties
  <2>. QED
    BY <1>1, <2>1, <2>2, <2>3, SeqEqual
<1>. QED
  BY <1>3, <1>4

(***************************************************************************)
(* Every pattern the loop builds for h is a wildcard scope that matches h, *)
(* and the later the iteration, the shorter the pattern.                   *)
(***************************************************************************)
LEMMA PatternMatches ==
    ASSUME NEW h \in Seq(Labels), NEW i \in 1..(Len(h) - 1)
    PROVE  MatchesHost(WildcardPattern(h, i), h)
<1>1. /\ Len(WildcardPattern(h, i)) = Len(h) - i + 1
      /\ WildcardPattern(h, i)[1] = Star
      /\ Tail(WildcardPattern(h, i)) = SubSeq(h, i + 1, Len(h))
  BY PatternShape
<1>. QED
  BY <1>1 DEF MatchesHost, IsWildcard

(***************************************************************************)
(* Conversely, a wildcard scope that matches h is the pattern of the       *)
(* iteration that drops as many labels as the scope has fewer than h, plus *)
(* one.                                                                    *)
(***************************************************************************)
LEMMA MatchIsPattern ==
    ASSUME NEW h \in Seq(Labels), NEW s \in Seq(Labels), MatchesHost(s, h)
    PROVE  /\ Len(h) - Len(s) + 1 \in 1..(Len(h) - 1)
           /\ s = WildcardPattern(h, Len(h) - Len(s) + 1)
<1>. DEFINE k == Len(h) - Len(s) + 1
<1>1. k \in 1..(Len(h) - 1)
  BY DEF MatchesHost
<1>2. s # <<>> /\ s[1] = Star /\ Tail(s) = SubSeq(h, k + 1, Len(h))
  BY DEF MatchesHost, IsWildcard
<1>0. /\ WildcardPattern(h, k) \in Seq(Labels)
      /\ Len(WildcardPattern(h, k)) = Len(h) - k + 1
      /\ WildcardPattern(h, k)[1] = Star
      /\ Tail(WildcardPattern(h, k)) = SubSeq(h, k + 1, Len(h))
  BY <1>1, PatternShape
<1>3. Len(WildcardPattern(h, k)) = Len(s)
  BY <1>0
<1>4. \A j \in 1..Len(s) : s[j] = WildcardPattern(h, k)[j]
  <2>. TAKE j \in 1..Len(s)
  <2>1. CASE j = 1
    BY <1>1, <1>2, <2>1, <1>0
  <2>2. CASE j > 1
    <3>1. s[j] = Tail(s)[j - 1]
      BY <1>2, <2>2, HeadTailProperties
    <3>2. WildcardPattern(h, k)[j] = Tail(WildcardPattern(h, k))[j - 1]
      BY <1>1, <1>3, <2>2, <1>0, HeadTailProperties
    <3>. QED
      BY <1>1, <1>2, <3>1, <3>2, <1>0
  <2>. QED
    BY <2>1, <2>2
<1>. QED
  BY <1>1, <1>3, <1>4, <1>0, SeqEqual

(***************************************************************************)
(* getHost() of a URL is a sequence of labels and a group of override.ini. *)
(***************************************************************************)
LEMMA HostLabels ==
    ASSUME NEW u \in Urls
    PROVE  GetHost(u) \in Seq(Labels) /\ GetHost(u) \in Scopes
<1>1. u.host \in Seq(STRING \cup {Star})
  BY UrlAssumption
<1>2. GetHost(u) \in Seq(Labels)
  <2>1. CASE u.local
    BY <2>1 DEF GetHost, Labels
  <2>2. CASE ~u.local
    <3>1. STRING \cup {Star} \subseteq Labels
      BY DEF Labels
    <3>2. u.host \in Seq(Labels)
      BY <1>1, <3>1, SeqMonotonic
    <3>. QED
      BY <2>2, <3>2 DEF GetHost
  <2>. QED
    BY <2>1, <2>2
<1>3. GetHost(u) \in Scopes
  BY DEF Scopes, Hosts
<1>. QED
  BY <1>2, <1>3

(***************************************************************************)
(* Every wildcard pattern built for the host of a URL is a wildcard group  *)
(* of override.ini.                                                        *)
(***************************************************************************)
LEMMA PatternScope ==
    ASSUME NEW u \in Urls, NEW i \in 1..(Len(GetHost(u)) - 1)
    PROVE  WildcardPattern(GetHost(u), i) \in Scopes
           /\ IsWildcard(WildcardPattern(GetHost(u), i))
<1>1. GetHost(u) \in Seq(Labels)
  BY HostLabels
<1>2. Len(WildcardPattern(GetHost(u), i)) = Len(GetHost(u)) - i + 1
      /\ WildcardPattern(GetHost(u), i)[1] = Star
  BY <1>1, PatternShape
<1>3. WildcardPattern(GetHost(u), i) \in Scopes
  BY DEF Scopes, Hosts
<1>. QED
  BY <1>2, <1>3 DEF IsWildcard

(***************************************************************************)
(* Every group of override.ini is a sequence of labels.                    *)
(***************************************************************************)
LEMMA ScopeLabels ==
    ASSUME NEW s \in Scopes
    PROVE  s \in Seq(Labels)
<1>1. CASE s \in Hosts
  BY <1>1, HostLabels DEF Hosts
<1>2. CASE s \notin Hosts
  <2>1. PICK u \in Urls :
          \E i \in 1..(Len(GetHost(u)) - 1) : s = WildcardPattern(GetHost(u), i)
    BY <1>2 DEF Scopes, Hosts
  <2>2. PICK i \in 1..(Len(GetHost(u)) - 1) : s = WildcardPattern(GetHost(u), i)
    BY <2>1
  <2>3. GetHost(u) \in Seq(Labels)
    BY HostLabels
  <2>. QED
    BY <2>2, <2>3, PatternShape
<1>. QED
  BY <1>1, <1>2

(***************************************************************************)
(* In a consistent registry the name of a valid identifier is one under    *)
(* which the stores hold values.                                           *)
(***************************************************************************)
LEMMA OptionNameStored ==
    ASSUME RegistryConsistent, created,
           NEW id \in 0..(Len(definitions) - 1)
    PROVE  GetOptionName(id) \in StoreNames
<1>1. GetOptionName(id) # EmptyName
  BY DEF RegistryConsistent
<1>2. NumBuiltIn \in Nat
  BY BuiltInAssumption DEF NumBuiltIn
<1>3. CASE id \in 0..(NumBuiltIn - 1)
  <2>1. id + 1 \in 1..NumBuiltIn
    BY <1>2, <1>3
  <2>2. BuiltInName[id + 1] \in Names
    BY <2>1 DEF Names
  <2>. QED
    BY <1>1, <1>3, <2>2 DEF GetOptionName, StoreNames
<1>4. CASE id \notin 0..(NumBuiltIn - 1)
  BY <1>1, <1>4 DEF GetOptionName, StoreNames
<1>. QED
  BY <1>3, <1>4

(***************************************************************************)
(* The wildcard loop of getOption() finds the longest matching pattern:    *)
(* iteration i builds the pattern of Len(h) - i + 1 labels, so the first   *)
(* iteration that hits is the longest wildcard scope holding the option,   *)
(* and m_hasWildcardedOverrides, when sound, never skips a hit.           *)
(***************************************************************************)
LEMMA PrecedenceHolds ==
    TypeOK /\ RegistryConsistent /\ WildcardFlagSound => ResolutionFollowsPrecedence
<1> SUFFICES ASSUME TypeOK, RegistryConsistent, WildcardFlagSound, created,
                    NEW id \in 0..(Len(definitions) - 1), NEW u \in Urls
             PROVE  GetOption(id, u) = EffectiveValue(id, u)
  BY DEF ResolutionFollowsPrecedence
<1>. DEFINE n == GetOptionName(id)
            h == GetHost(u)
            hits == WildcardHits(h, n)
            W == {s \in Scopes : MatchesHost(s, h) /\ overrides[s][n] # Absent}
            Longest == CHOOSE s \in W : \A t \in W : Len(t) <= Len(s)
<1>1. n \in StoreNames
  BY OptionNameStored
<1>2. h \in Seq(Labels)
  BY HostLabels
<1>3. GetOption(id, u) =
        IF hasWildcard /\ overrides[h][n] = Absent /\ hits # {}
        THEN overrides[WildcardPattern(h, FirstHit(hits))][n]
        ELSE IF overrides[h][n] # Absent THEN overrides[h][n]
        ELSE GlobalOption(id)
  BY SentinelAssumption DEF GetOption, ValidId
<1>4. EffectiveValue(id, u) =
        IF overrides[h][n] # Absent THEN overrides[h][n]
        ELSE IF W # {} THEN overrides[Longest][n]
        ELSE GlobalOption(id)
  BY DEF EffectiveValue
<1>5. ASSUME NEW s \in W
      PROVE  \E k \in hits : s = WildcardPattern(h, k)
  <2>1. s \in Seq(Labels)
    BY ScopeLabels
  <2>2. /\ Len(h) - Len(s) + 1 \in 1..(Len(h) - 1)
        /\ s = WildcardPattern(h, Len(h) - Len(s) + 1)
    BY <1>2, <2>1, MatchIsPattern
  <2>. QED
    BY <2>2 DEF WildcardHits
<1>6. CASE overrides[h][n] # Absent
  BY <1>3, <1>4, <1>6
<1>7. CASE overrides[h][n] = Absent /\ hits = {}
  <2>1. W = {}
    BY <1>5, <1>7
  <2>. QED
    BY <1>3, <1>4, <1>7, <2>1
<1>8. CASE overrides[h][n] = Absent /\ hits # {}
  <2>. DEFINE m == FirstHit(hits)
  <2>1. hits \in SUBSET Nat /\ hits # {}
    BY <1>8 DEF WildcardHits
  <2>2. \E x \in hits : \A y \in hits : x <= y
    BY <2>1, MinExists
  <2>3. m \in hits /\ \A y \in hits : m <= y
    BY <2>2 DEF FirstHit
  <2>4. m \in 1..(Len(h) - 1) /\ overrides[WildcardPattern(h, m)][n] # Absent
    BY <2>3 DEF WildcardHits
  <2>5. WildcardPattern(h, m) \in Scopes /\ IsWildcard(WildcardPattern(h, m))
    BY <2>4, PatternScope
  <2>6. hasWildcard
    BY <1>1, <2>4, <2>5 DEF WildcardFlagSound
  <2>7. GetOption(id, u) = overrides[WildcardPattern(h, m)][n]
    BY <1>3, <1>8, <2>6
  <2>8. Len(WildcardPattern(h, m)) = Len(h) - m + 1
    BY <1>2, <2>4, PatternShape
  <2>9. MatchesHost(WildcardPattern(h, m), h)
    BY <1>2, <2>4, PatternMatches
  <2>10. WildcardPattern(h, m) \in W
    BY <2>4, <2>5, <2>9
  <2>11. ASSUME NEW k \in hits
         PROVE  Len(WildcardPattern(h, k)) = Len(h) - k + 1
    <3>1. k \in 1..(Len(h) - 1)
      BY DEF WildcardHits
    <3>. QED
      BY <1>2, <3>1, PatternShape
  <2>12. \A t \in W : Len(t) <= Len(WildcardPattern(h, m))
    <3>. TAKE t \in W
    <3>1. PICK k \in hits : t = WildcardPattern(h, k)
      BY <1>5
    <3>2. Len(t) = Len(h) - k + 1
      BY <3>1, <2>11
    <3>. QED
      BY <2>3, <2>8, <3>2 DEF WildcardHits
  <2>13. Longest \in W /\ \A t \in W : Len(t) <= Len(Longest)
    BY <2>10, <2>12
  <2>14. Longest = WildcardPattern(h, m)
    <3>1. PICK k \in hits : Longest = WildcardPattern(h, k)
      BY <1>5, <2>13
    <3>2. Len(Longest) = Len(h) - k + 1
      BY <3>1, <2>11
    <3>3. Len(WildcardPattern(h, m)) <= Len(Longest)
      BY <2>10, <2>13
    <3>4. k \in 1..(Len(h) - 1) /\ m \in 1..(Len(h) - 1) /\ m <= k
      BY <2>3, <2>4 DEF WildcardHits
    <3>5. k = m
      BY <2>8, <3>2, <3>3, <3>4
    <3>. QED
      BY <3>1, <3>5
  <2>. QED
    BY <1>4, <1>8, <2>7, <2>10, <2>14
<1>. QED
  BY <1>6, <1>7, <1>8

(***************************************************************************)
(* In every reachable state getOption(identifier, url) returns what the    *)
(* precedence rules give: the host's own override, else that of the most   *)
(* specific matching wildcard, else otter.conf, else the default.          *)
(***************************************************************************)
THEOREM PrecedenceSound == Spec => []ResolutionFollowsPrecedence
  BY TypeCorrect, RegistrySound, FlagSound, PrecedenceHolds, PTL

-----------------------------------------------------------------------------
(* Notifications.                                                          *)

(***************************************************************************)
(* setValue() on a valid identifier emits an optionChanged that is true    *)
(* when delivered: an unscoped one only when the value changes, and then   *)
(* getOption() returns the new value; a scoped one with a value is what   *)
(* getOption() returns for its URL, since an exact host beats wildcards.   *)
(***************************************************************************)
LEMMA NotifySetValue ==
    ASSUME TypeOK, RegistryConsistent, created,
           NEW id \in 0..(Len(definitions) - 1), NEW v \in Values \cup {Null},
           NEW u \in Urls \cup {EmptyUrl}, SetValue(id, v, u),
           NEW e, e = lastEvent'
    PROVE  e # NoEvent =>
             IF e.url = EmptyUrl
             THEN /\ GetOption(e.id, EmptyUrl) # e.value
                  /\ (GetOption(e.id, EmptyUrl))' = e.value
             ELSE e.value # Null => (GetOption(e.id, e.url))' = e.value
<1>. DEFINE n == GetOptionName(id)
<1>1. n \in StoreNames
  BY OptionNameStored
<1>2. e = [id |-> id, value |-> v, url |-> u]
  BY DEF SetValue, SetOverrideValue, SetGlobalValue
<1>3. /\ customOptions' = customOptions
      /\ definitions' = definitions
  BY DEF SetValue, SetOverrideValue, SetGlobalValue
<1>4. n' = n /\ ValidId(id)' /\ ValidId(id)
  BY <1>3 DEF GetOptionName, ValidId
<1>5. CASE u = EmptyUrl
  <2>1. SetGlobalValue(id, v)
    BY <1>5, SentinelAssumption DEF SetValue
  <2>2. GetOption(id, EmptyUrl) # v
    BY <2>1 DEF SetGlobalValue
  <2>3. global'[n] = v
    BY <1>1, <2>1 DEF SetGlobalValue, TypeOK
  <2>4. (GetOption(id, EmptyUrl))' = (GlobalOption(id))'
    BY <1>4 DEF GetOption
  <2>5. (GlobalOption(id))' = v
    BY <1>4, <2>3, SentinelAssumption DEF GlobalOption
  <2>. QED
    BY <1>2, <1>5, <2>2, <2>4, <2>5
<1>6. CASE u # EmptyUrl
  <2>. DEFINE h == GetHost(u)
  <2>1. SetOverrideValue(id, v, u) /\ u \in Urls
    BY <1>6 DEF SetValue
  <2>2. h \in Scopes
    BY <2>1, HostLabels
  <2>3. overrides'[h][n] = IF v = Null THEN Absent ELSE v
    BY <1>1, <2>1, <2>2 DEF SetOverrideValue, TypeOK
  <2>4. ASSUME v # Null PROVE (GetOption(id, u))' = v
    <3>1. overrides'[h][n] = v /\ v # Absent
      BY <2>3, <2>4, SentinelAssumption
    <3>. QED
      BY <1>4, <1>6, <3>1 DEF GetOption
  <2>. QED
    BY <1>2, <1>6, <2>4
<1>. QED
  BY <1>5, <1>6

(***************************************************************************)
(* Every optionChanged the store emits is true when delivered.  Only       *)
(* setValue() emits; every other operation clears the last event.         *)
(***************************************************************************)
THEOREM NotifySound == Spec => NotifiedValueIsCurrent
<1>1. ASSUME TypeOK, RegistryConsistent, Next,
             NEW e \in {lastEvent'}, e # NoEvent
      PROVE  IF e.url = EmptyUrl
             THEN /\ GetOption(e.id, EmptyUrl) # e.value
                  /\ (GetOption(e.id, EmptyUrl))' = e.value
             ELSE e.value # Null => (GetOption(e.id, e.url))' = e.value
  <2>1. CASE \E id \in 0..(Len(definitions) - 1), v \in Values \cup {Null},
               u \in Urls \cup {EmptyUrl} : SetValue(id, v, u)
    <3>1. PICK id \in 0..(Len(definitions) - 1), v \in Values \cup {Null},
               u \in Urls \cup {EmptyUrl} : SetValue(id, v, u)
      BY <2>1
    <3>2. created
      BY <3>1 DEF SetValue
    <3>. QED
      BY <1>1, <3>1, <3>2, NotifySetValue
  <2>2. CASE ~\E id \in 0..(Len(definitions) - 1), v \in Values \cup {Null},
                u \in Urls \cup {EmptyUrl} : SetValue(id, v, u)
    <3>1. lastEvent' = NoEvent
      BY <1>1, <2>2 DEF Next, CreateInstance, RegisterOption,
                        UpdateOptionDefinition, RemoveOverride, Restart
    <3>. QED
      BY <1>1, <3>1
  <2>. QED
    BY <2>1, <2>2
<1>2. TypeOK /\ RegistryConsistent /\ [Next]_vars =>
        [\A e \in {lastEvent'} :
           e # NoEvent =>
             IF e.url = EmptyUrl
             THEN /\ GetOption(e.id, EmptyUrl) # e.value
                  /\ (GetOption(e.id, EmptyUrl))' = e.value
             ELSE e.value # Null => (GetOption(e.id, e.url))' = e.value]_vars
  BY <1>1
<1>. QED
  BY <1>2, TypeCorrect, RegistrySound, PTL DEF Spec, NotifiedValueIsCurrent

=============================================================================
