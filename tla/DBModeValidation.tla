-------------------------- MODULE DBModeValidation --------------------------
(***************************************************************************)
(* The validation of a DataPlane's database mode (package dataplane of     *)
(* internal/validation), run by the DataPlane controller and by the        *)
(* admission webhook: how the value that the pods would see as             *)
(* KONG_DATABASE is looked for in Spec.Env and Spec.EnvFrom.  The inputs   *)
(* are the environments that users write; what the lookup finds is         *)
(* compared with the value that Kubernetes gives the container.            *)
(***************************************************************************)
EXTENDS Naturals, Sequences, SequencesExt

CONSTANTS
    EnvVars,     \* the entries that Spec.Env is made of
    Sources,     \* the sources that Spec.EnvFrom is made of
    MaxEnv,      \* bound: entries in Spec.Env
    MaxEnvFrom   \* bound: sources in Spec.EnvFrom

VARIABLES
    env,         \* Spec.Env
    envFrom,     \* Spec.EnvFrom
    verdict      \* what Validate said of them

vars == <<env, envFrom, verdict>>

-----------------------------------------------------------------------------
(* Data *)

\* Values of the variable: dbless, a database, and the base64 encodings of both.
\* Garbage is what decoding makes of bytes that are not an encoding.
Values == {"", "off", "postgres", "b2Zm", "cG9zdGdyZXM="}
Garbage == "garbage"
Undecodable == "undecodable"

\* What a ConfigMap or Secret holds under the key.
NoObject == "no object"
NoKey == "no key"
Contents == Values \cup {NoObject, NoKey}

\* An entry of Env: a variable of another name, a literal KONG_DATABASE, or one
\* with a ConfigMapKeyRef or SecretKeyRef.
EnvVar == [from : {"other", "value"}, content : Values]
              \cup [from : {"configMap", "secret"}, content : Contents]

\* An element of EnvFrom.  prefix: its Prefix is a prefix of KONG_DATABASE; the
\* content is the one under the rest of that name.
EnvFromSource ==
    [prefix : BOOLEAN, from : {"configMap", "secret"}, content : Contents]

ASSUME ConstantsAssumption ==
    /\ EnvVars \subseteq EnvVar
    /\ Sources \subseteq EnvFromSource
    /\ MaxEnv \in Nat
    /\ MaxEnvFrom \in Nat

-----------------------------------------------------------------------------
(* The lookup *)

\* The three results of the lookup functions: (dbMode, dbModeFound, err).
Found(mode) == [mode |-> mode, found |-> TRUE, err |-> FALSE]
NotFound == [mode |-> "", found |-> FALSE, err |-> FALSE]
Failed == [mode |-> "", found |-> FALSE, err |-> TRUE]

\* base64.StdEncoding wants padding, RawStdEncoding refuses it; trailing bits
\* that do not fill a byte are ignored.
StdDecode(value) ==
    CASE value = "off" -> Undecodable
      [] value = "postgres" -> Garbage
      [] value = "b2Zm" -> "off"
      [] value = "cG9zdGdyZXM=" -> "postgres"
      [] value = "" -> ""
RawStdDecode(value) ==
    CASE value = "off" -> Garbage
      [] value = "postgres" -> Garbage
      [] value = "b2Zm" -> "off"
      [] value = "cG9zdGdyZXM=" -> Undecodable
      [] value = "" -> ""

Decoded(value) == IF value = Undecodable THEN NotFound ELSE Found(value)

getValueFromConfigMapKeyRef(content) ==
    CASE content = NoObject -> Failed
      [] content \in {NoKey, ""} -> NotFound
      [] OTHER -> Found(content)

getValueFromSecretRef(content) ==
    CASE content = NoObject -> Failed
      [] content \in {NoKey, ""} -> NotFound
      [] OTHER -> Decoded(StdDecode(content))

getDBModeFromConfigMapRef(content) ==
    CASE content = NoObject -> Failed
      [] content = NoKey -> NotFound
      [] OTHER -> Found(content)

getDBModeFromSecretRef(content) ==
    CASE content = NoObject -> Failed
      [] content = NoKey -> NotFound
      [] OTHER -> Decoded(RawStdDecode(content))

\* Mutant: the first value found is kept.
FirstEntryWins(result, e) ==
    CASE result.err \/ result.found \/ e.from = "other" -> result
      [] e.from = "value" -> IF e.content = "" THEN result ELSE Found(e.content)
      [] e.from = "configMap" -> getValueFromConfigMapKeyRef(e.content)
      [] e.from = "secret" -> getValueFromSecretRef(e.content)

\* One round of the loop over Env; an error ends it.
LookAtEnvVar(result, e) ==
    CASE result.err \/ e.from = "other" -> result
      [] ~result.err /\ e.from = "value" ->
            IF e.content = "" THEN result ELSE Found(e.content)
      [] ~result.err /\ e.from = "configMap" -> getValueFromConfigMapKeyRef(e.content)
      [] ~result.err /\ e.from = "secret" -> getValueFromSecretRef(e.content)

\* The results after each of the rounds; the last is what the loop leaves.
getDBModeFromEnv(envs) ==
    LET result[i \in 0..Len(envs)] ==
            IF i = 0 THEN NotFound ELSE LookAtEnvVar(result[i - 1], envs[i])
    IN  result[Len(envs)]

\* Mutant: the prefix is not looked at.
AnyPrefix(result, s) ==
    CASE result.err -> result
      [] ~result.err /\ s.from = "configMap" -> getDBModeFromConfigMapRef(s.content)
      [] ~result.err /\ s.from = "secret" -> getDBModeFromSecretRef(s.content)

\* One round of the loop over EnvFrom.
LookAtSource(result, s) ==
    CASE result.err \/ ~s.prefix -> result
      [] ~result.err /\ s.prefix /\ s.from = "configMap" ->
            getDBModeFromConfigMapRef(s.content)
      [] ~result.err /\ s.prefix /\ s.from = "secret" ->
            getDBModeFromSecretRef(s.content)

getDBModeFromEnvFrom(sources) ==
    LET result[i \in 0..Len(sources)] ==
            IF i = 0 THEN NotFound ELSE LookAtSource(result[i - 1], sources[i])
    IN  result[Len(sources)]

ValidateDeployOptions(envs, sources) ==
    LET fromEnv == getDBModeFromEnv(envs)
        result == IF fromEnv.err \/ fromEnv.found
                  THEN fromEnv
                  ELSE getDBModeFromEnvFrom(sources)
    IN  IF result.err \/ result.mode \notin {"", "off"} THEN "invalid" ELSE "valid"

-----------------------------------------------------------------------------
(* What Kubernetes does: later sources override earlier ones, Env overrides  *)
(* EnvFrom, and a reference marked optional that finds nothing sets nothing. *)
(* Secrets are decoded once, by whoever stores or reads them.                *)

LastIn(S, seq) ==
    LET positions == {i \in DOMAIN seq : seq[i] \in S}
    IN  seq[CHOOSE i \in positions : \A j \in positions : j <= i]

SettingVars == {e \in EnvVar : e.from # "other" /\ e.content \in Values}
SettingSources == {s \in EnvFromSource : s.prefix /\ s.content \in Values}

\* The value of KONG_DATABASE in the container, "" if it is not set.
ContainerValue(envs, sources) ==
    IF ToSet(envs) \cap SettingVars # {}
    THEN LastIn(SettingVars, envs).content
    ELSE IF ToSet(sources) \cap SettingSources # {}
    THEN LastIn(SettingSources, sources).content
    ELSE ""

DBless(envs, sources) == ContainerValue(envs, sources) \in {"", "off"}

-----------------------------------------------------------------------------
(* Users write an environment, entry by entry, and have it validated *)

Init ==
    /\ env = <<>>
    /\ envFrom = <<>>
    /\ verdict = "none"

AddEnvVar ==
    /\ verdict = "none" /\ envFrom = <<>>
    /\ Len(env) < MaxEnv
    /\ \E e \in EnvVars : env' = Append(env, e)
    /\ UNCHANGED <<envFrom, verdict>>

AddSource ==
    /\ verdict = "none"
    /\ Len(envFrom) < MaxEnvFrom
    /\ \E s \in Sources : envFrom' = Append(envFrom, s)
    /\ UNCHANGED <<env, verdict>>

Validate ==
    /\ verdict = "none"
    /\ verdict' = ValidateDeployOptions(env, envFrom)
    /\ UNCHANGED <<env, envFrom>>

Next == AddEnvVar \/ AddSource \/ Validate

Spec == Init /\ [][Next]_vars

-----------------------------------------------------------------------------
(* Properties *)

Validated == verdict # "none"

Named == {e \in EnvVar : e.from # "other"}
Prefixed == {s \in EnvFromSource : s.prefix}
Plain(x) == x.from \in {"value", "configMap"}

\* Every object that the validation looks at exists.
ObjectsExist ==
    /\ \A e \in ToSet(env) : e.content # NoObject
    /\ \A s \in ToSet(envFrom) \cap Prefixed : s.content # NoObject

\* If the last KONG_DATABASE in Env is a non-empty literal or comes from a
\* ConfigMap that has it, it decides the verdict, whatever precedes it in Env and
\* whatever is in EnvFrom.
LastEnvVarDecides ==
    /\ Validated /\ ObjectsExist /\ ToSet(env) \cap Named # {}
    /\ Plain(LastIn(Named, env)) /\ LastIn(Named, env).content \notin {"", NoKey}
    => (verdict = "valid" <=> DBless(env, envFrom))

\* Without KONG_DATABASE in Env, the last source of EnvFrom that could hold it
\* decides, if it is a ConfigMap that does hold it.
LastSourceDecides ==
    /\ Validated /\ ObjectsExist
    /\ ToSet(env) \cap Named = {} /\ ToSet(envFrom) \cap Prefixed # {}
    /\ Plain(LastIn(Prefixed, envFrom)) /\ LastIn(Prefixed, envFrom).content # NoKey
    => (verdict = "valid" <=> DBless(env, envFrom))

\* "only support dbless mode": what is accepted runs without a database.
OnlyDBless == verdict = "valid" => DBless(env, envFrom)

=============================================================================
