----------------------- MODULE MC_PreferencesDialog -------------------------
(* The preferences dialog opened on every section, with two values.        *)
EXTENDS PreferencesDialog

MC_Sections == {"general", "content", "privacy", "search", "advanced"}
MC_Values == {"v1", "v2"}

=============================================================================
