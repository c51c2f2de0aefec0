------------------------- MODULE MC_SettingsManager -------------------------
(***************************************************************************)
(* Small instances of SettingsManager for TLC.                             *)
(***************************************************************************)
EXTENDS SettingsManager

\* One built-in option, Browser/HomePage (identifier 0).
MC_BuiltInName == <<"Browser/HomePage">>
MC_BuiltInDefault == <<"v1">>
MC_Values == {"v1", "v2"}

\* Resolution run: only the built-in option; registration is offered the
\* empty name alone.
MC_RegNamesResolve == {""}
MC_KeysResolve == [n \in {"Browser/HomePage", ""} |->
                     IF n = "Browser/HomePage" THEN 0 ELSE -1]

\* Registry run: a fresh custom name and "Browser/HomePageOption", which
\* getOptionIdentifier() normalises to the key Browser_HomePageOption.
MC_RegNamesRegistry == {"", "Custom/Thing", "Browser/HomePageOption"}
MC_KeysRegistry == [n \in {"Browser/HomePage", "", "Custom/Thing",
                           "Browser/HomePageOption"} |->
                      IF n \in {"Browser/HomePage", "Browser/HomePageOption"}
                      THEN 0 ELSE -1]

\* http://a.b.c/, http://b.c/ (the bare suffix), http://*.b.c/ and
\* http://*.c/ (wildcard scopes), and about:blank (an empty host).
MC_UrlsResolve ==
    { [local |-> FALSE, host |-> <<"a", "b", "c">>],
      [local |-> FALSE, host |-> <<"b", "c">>],
      [local |-> FALSE, host |-> <<"*", "b", "c">>],
      [local |-> FALSE, host |-> <<"*", "c">>],
      [local |-> FALSE, host |-> <<>>] }

\* file:///x (scope localhost), http://a.b/ and http://*.b/.
MC_UrlsRegistry ==
    { [local |-> TRUE, host |-> <<>>],
      [local |-> FALSE, host |-> <<"a", "b">>],
      [local |-> FALSE, host |-> <<"*", "b">>] }

=============================================================================
