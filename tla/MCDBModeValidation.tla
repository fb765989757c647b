------------------------- MODULE MCDBModeValidation -------------------------
(***************************************************************************)
(* Instances of DBModeValidation for TLC.                                  *)
(***************************************************************************)
EXTENDS DBModeValidation

\* ConfigMaps and literals are not encoded.
PlainContents == {"", "off", "postgres", NoKey, NoObject}

AllEnvVars ==
    {[from |-> "other", content |-> "postgres"]}
        \cup [from : {"value"}, content : {"", "off", "postgres"}]
        \cup [from : {"configMap"}, content : PlainContents]
        \cup [from : {"secret"}, content : Contents]
AllSources ==
    [prefix : {TRUE}, from : {"configMap"}, content : PlainContents]
        \cup [prefix : {TRUE}, from : {"secret"}, content : Contents]
        \cup [prefix : {FALSE}, from : {"configMap"}, content : {"postgres"}]

\* ConfigMaps that exist, and no Secrets.
ConfigMapSources ==
    [prefix : {TRUE}, from : {"configMap"}, content : {"off", "postgres", NoKey}]

=============================================================================
