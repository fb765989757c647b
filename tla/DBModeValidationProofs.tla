----------------------- MODULE DBModeValidationProofs -----------------------
(***************************************************************************)
(* Theorems about DBModeValidation, for environments of any length.  The   *)
(* loops of the lookup are recursive functions; what they return is proved *)
(* by induction on the rounds, with the least element of a set of natural  *)
(* numbers (of the rounds after which a statement about them fails).       *)
(***************************************************************************)
EXTENDS DBModeValidation, WellFoundedInduction, TLAPS

-----------------------------------------------------------------------------
(* Induction *)

\* The order of the natural numbers.
Below == OpToRel(<, Nat)

\* It is the order, and it is well founded.
LEMMA BelowWellFounded ==
    /\ IsWellFoundedOn(Below, Nat)
    /\ \A x, y \in Nat : <<y, x>> \in Below <=> y < x
<1>1. IsWellFoundedOn(Below, Nat)
  BY NatLessThanWellFounded DEF Below
<1>2. \A x, y \in Nat : <<y, x>> \in Below <=> y < x
  BY DEF OpToRel, Below
<1> QED
  BY <1>1, <1>2

\* A set of natural numbers has a least element.
LEMMA LeastElement ==
    ASSUME NEW S \in SUBSET Nat, S # {}
    PROVE  \E m \in S : \A n \in S : m <= n
<1>1. PICK m \in S : \A n \in S : ~(<<n, m>> \in Below)
  BY BelowWellFounded, WFMin
<1>2. ASSUME NEW n \in S
      PROVE  m <= n
  <2>1. ~(<<n, m>> \in Below) /\ n \in Nat /\ m \in Nat
    BY <1>1
  <2>2. ~(n < m)
    BY <2>1, BelowWellFounded
  <2> QED
    BY <2>1, <2>2
<1> QED
  BY <1>2

\* Induction over the rounds of a loop.
LEMMA RoundsInduction ==
    ASSUME NEW n \in Nat, NEW S, 0 \in S, \A i \in 1..n : i - 1 \in S => i \in S
    PROVE  0..n \subseteq S
<1> SUFFICES ASSUME (0..n) \ S # {}
             PROVE  FALSE
  OBVIOUS
<1> DEFINE T == (0..n) \ S
<1>1. T \in SUBSET Nat /\ T # {}
  OBVIOUS
<1> HIDE DEF T
<1>2. PICK m \in T : \A k \in T : m <= k
  BY <1>1, LeastElement
<1>3. m \in 0..n /\ m \notin S /\ m # 0
  BY <1>2 DEF T
<1>4. m \in 1..n /\ m - 1 \in 0..n /\ m - 1 \notin T
  BY <1>2, <1>3
<1>5. m - 1 \in S
  BY <1>4 DEF T
<1> QED
  BY <1>3, <1>4, <1>5

\* A set of positions in a sequence has a greatest element.
LEMMA GreatestElement ==
    ASSUME NEW n \in Nat, NEW P \in SUBSET (1..n), P # {}
    PROVE  \E p \in P : \A i \in P : i <= p
<1> DEFINE T == {n - i : i \in P}
<1>1. T \in SUBSET Nat /\ T # {}
  OBVIOUS
<1>2. \A i \in P : n - i \in T
  OBVIOUS
<1>3. PICK m \in T : \A k \in T : m <= k
  <2> HIDE DEF T
  <2> QED
    BY <1>1, LeastElement
<1>4. PICK p \in P : m = n - p
  BY <1>3
<1>5. ASSUME NEW i \in P
      PROVE  i <= p
  <2>1. n - p <= n - i
    BY <1>2, <1>3, <1>4
  <2>2. i \in Int /\ p \in Int
    OBVIOUS
  <2> QED
    BY <2>1, <2>2
<1> QED
  BY <1>5

\* f[i] is the result after i of n rounds from a base, each by its step.
AreResults(f, X, n, base, step) ==
    /\ f \in [0..n -> X]
    /\ f[0] = base
    /\ \A i \in 1..n : f[i] = step[i][f[i - 1]]

\* A loop has results.
LEMMA LoopResults ==
    ASSUME NEW X, NEW n \in Nat, NEW base \in X, NEW step \in [1..n -> [X -> X]]
    PROVE  \E f : AreResults(f, X, n, base, step)
<1> DEFINE Results(m) == {f \in [0..m -> X] :
                             f[0] = base /\ \A i \in 1..m : f[i] = step[i][f[i - 1]]}
           S == {m \in 0..n : Results(m) # {}}
<1>1. 0 \in S
  <2>1. [i \in 0..0 |-> base] \in Results(0)
    OBVIOUS
  <2> QED
    BY <2>1
<1>2. ASSUME NEW m \in 1..n, m - 1 \in S
      PROVE  m \in S
  <2>1. PICK f : f \in Results(m - 1)
    BY <1>2
  <2> DEFINE g == [i \in 0..m |-> IF i = m THEN step[m][f[m - 1]] ELSE f[i]]
  <2>2. f \in [0..(m - 1) -> X] /\ f[0] = base
        /\ \A i \in 1..(m - 1) : f[i] = step[i][f[i - 1]]
    BY <2>1
  <2>3. step[m][f[m - 1]] \in X
    <3>1. step[m] \in [X -> X] /\ f[m - 1] \in X
      BY <2>2
    <3> QED
      BY <3>1
  <2>4. g \in [0..m -> X] /\ g[0] = base
    BY <2>2, <2>3
  <2>5. ASSUME NEW i \in 1..m
        PROVE  g[i] = step[i][g[i - 1]]
    <3>1. g[i - 1] = f[i - 1]
      OBVIOUS
    <3>2. CASE i = m
      BY <3>1, <3>2
    <3>3. CASE i # m
      BY <3>1, <3>3, <2>2
    <3> QED
      BY <3>2, <3>3
  <2>6. g \in Results(m)
    BY <2>4, <2>5
  <2> QED
    BY <2>6
<1> HIDE DEF S
<1>3. 0..n \subseteq S
  BY <1>1, <1>2, RoundsInduction
<1>4. n \in S
  BY <1>3
<1>5. PICK f : f \in Results(n)
  BY <1>4 DEF S
<1> QED
  BY <1>5 DEF AreResults

-----------------------------------------------------------------------------
(* The loops of the lookup *)

\* The three results of the lookup functions.
Results == [mode : Values \cup {Garbage}, found : BOOLEAN, err : BOOLEAN]

\* What the lookup functions return for the contents of ConfigMaps and Secrets.
LEMMA LookupResults ==
    /\ NotFound \in Results /\ ~NotFound.err
    /\ Failed \in Results
    /\ \A c \in Values : Found(c) \in Results /\ ~Found(c).err
    /\ \A c \in Contents :
          /\ getValueFromConfigMapKeyRef(c) \in Results
          /\ getValueFromSecretRef(c) \in Results
          /\ getDBModeFromConfigMapRef(c) \in Results
          /\ getDBModeFromSecretRef(c) \in Results
          /\ c # NoObject => /\ ~getValueFromConfigMapKeyRef(c).err
                             /\ ~getValueFromSecretRef(c).err
                             /\ ~getDBModeFromConfigMapRef(c).err
                             /\ ~getDBModeFromSecretRef(c).err
<1>1. /\ NotFound \in Results /\ ~NotFound.err
      /\ Failed \in Results
      /\ \A c \in Values \cup {Garbage} : Found(c) \in Results /\ ~Found(c).err
  BY DEF NotFound, Failed, Found, Results, Values, Garbage
<1>2. ASSUME NEW c \in Values
      PROVE  /\ StdDecode(c) \in Values \cup {Garbage, Undecodable}
             /\ RawStdDecode(c) \in Values \cup {Garbage, Undecodable}
  BY <1>2 DEF StdDecode, RawStdDecode, Values, Garbage, Undecodable
<1>3. ASSUME NEW v \in Values \cup {Garbage, Undecodable}
      PROVE  Decoded(v) \in Results /\ ~Decoded(v).err
  BY <1>1, <1>3 DEF Decoded
<1>4. ASSUME NEW c \in Contents
      PROVE  /\ getValueFromConfigMapKeyRef(c) \in Results
             /\ getValueFromSecretRef(c) \in Results
             /\ getDBModeFromConfigMapRef(c) \in Results
             /\ getDBModeFromSecretRef(c) \in Results
             /\ c # NoObject => /\ ~getValueFromConfigMapKeyRef(c).err
                                /\ ~getValueFromSecretRef(c).err
                                /\ ~getDBModeFromConfigMapRef(c).err
                                /\ ~getDBModeFromSecretRef(c).err
  <2>1. CASE c = NoObject
    BY <2>1, <1>1 DEF getValueFromConfigMapKeyRef, getValueFromSecretRef,
       getDBModeFromConfigMapRef, getDBModeFromSecretRef
  <2>2. CASE c = NoKey
    BY <2>2, <1>1 DEF NoObject, NoKey, getValueFromConfigMapKeyRef, getValueFromSecretRef,
       getDBModeFromConfigMapRef, getDBModeFromSecretRef
  <2>3. CASE c \notin {NoObject, NoKey}
    <3>1. c \in Values
      BY <2>3 DEF Contents
    <3>2. /\ Decoded(StdDecode(c)) \in Results /\ ~Decoded(StdDecode(c)).err
          /\ Decoded(RawStdDecode(c)) \in Results /\ ~Decoded(RawStdDecode(c)).err
      BY <3>1, <1>2, <1>3
    <3> QED
      BY <2>3, <3>1, <3>2, <1>1 DEF getValueFromConfigMapKeyRef, getValueFromSecretRef,
         getDBModeFromConfigMapRef, getDBModeFromSecretRef
  <2> QED
    BY <2>1, <2>2, <2>3
<1> QED
  BY <1>1, <1>4

\* One round of the loop over Env.  An entry of another name leaves the result
\* as it is; a plain one with a value replaces it, unless there was an error.
LEMMA EnvVarRound ==
    ASSUME NEW r \in Results, NEW e \in EnvVar
    PROVE  /\ LookAtEnvVar(r, e) \in Results
           /\ ~r.err /\ (e \in Named => e.content # NoObject) => ~LookAtEnvVar(r, e).err
           /\ e \notin Named => LookAtEnvVar(r, e) = r
           /\ ~r.err /\ e \in Named /\ Plain(e) /\ e.content \notin {"", NoKey, NoObject}
                 => LookAtEnvVar(r, e) = Found(e.content)
<1>a. r.err \in BOOLEAN
  BY DEF Results
<1>b. /\ e.from \in {"other", "value", "configMap", "secret"}
      /\ e.content \in Contents
      /\ e.from \in {"other", "value"} => e.content \in Values
  BY DEF EnvVar, Contents
<1>1. CASE r.err \/ e.from = "other"
  <2>1. LookAtEnvVar(r, e) = r
    BY <1>1, <1>a DEF LookAtEnvVar
  <2> QED
    BY <1>1, <2>1 DEF Named
<1>2. CASE ~r.err /\ e.from = "value"
  <2>1. LookAtEnvVar(r, e) = IF e.content = "" THEN r ELSE Found(e.content)
    BY <1>2 DEF LookAtEnvVar
  <2> QED
    BY <1>2, <1>b, <2>1, LookupResults DEF Named
<1>3. CASE ~r.err /\ e.from = "configMap"
  <2>1. LookAtEnvVar(r, e) = getValueFromConfigMapKeyRef(e.content)
    BY <1>3 DEF LookAtEnvVar
  <2>2. e.content \notin {"", NoKey, NoObject}
           => getValueFromConfigMapKeyRef(e.content) = Found(e.content)
    BY DEF getValueFromConfigMapKeyRef
  <2> QED
    BY <1>3, <1>b, <2>1, <2>2, LookupResults DEF Named
<1>4. CASE ~r.err /\ e.from = "secret"
  <2>1. LookAtEnvVar(r, e) = getValueFromSecretRef(e.content)
    BY <1>4 DEF LookAtEnvVar
  <2> QED
    BY <1>4, <1>b, <2>1, LookupResults DEF Named, Plain
<1> QED
  BY <1>1, <1>2, <1>3, <1>4, <1>a, <1>b

\* One round of the loop over EnvFrom.
LEMMA SourceRound ==
    ASSUME NEW r \in Results, NEW s \in EnvFromSource
    PROVE  /\ LookAtSource(r, s) \in Results
           /\ ~r.err /\ (s \in Prefixed => s.content # NoObject) => ~LookAtSource(r, s).err
           /\ s \notin Prefixed => LookAtSource(r, s) = r
           /\ ~r.err /\ s \in Prefixed /\ Plain(s) /\ s.content \notin {NoKey, NoObject}
                 => LookAtSource(r, s) = Found(s.content)
<1>a. r.err \in BOOLEAN
  BY DEF Results
<1>b. /\ s.from \in {"configMap", "secret"} /\ s.prefix \in BOOLEAN
      /\ s.content \in Contents
  BY DEF EnvFromSource
<1>1. CASE r.err \/ ~s.prefix
  <2>1. LookAtSource(r, s) = r
    BY <1>1, <1>a, <1>b DEF LookAtSource
  <2> QED
    BY <1>1, <2>1 DEF Prefixed
<1>2. CASE ~r.err /\ s.prefix /\ s.from = "configMap"
  <2>1. LookAtSource(r, s) = getDBModeFromConfigMapRef(s.content)
    BY <1>2 DEF LookAtSource
  <2>2. s.content \notin {NoKey, NoObject}
           => getDBModeFromConfigMapRef(s.content) = Found(s.content)
    BY DEF getDBModeFromConfigMapRef
  <2> QED
    BY <1>2, <1>b, <2>1, <2>2, LookupResults DEF Prefixed
<1>3. CASE ~r.err /\ s.prefix /\ s.from = "secret"
  <2>1. LookAtSource(r, s) = getDBModeFromSecretRef(s.content)
    BY <1>3 DEF LookAtSource
  <2> QED
    BY <1>3, <1>b, <2>1, LookupResults DEF Prefixed, Plain
<1> QED
  BY <1>1, <1>2, <1>3, <1>a, <1>b

\* Position p holds the last element of the sequence that is in S.
IsLast(p, S, seq) ==
    /\ p \in 1..Len(seq) /\ seq[p] \in S
    /\ \A i \in 1..Len(seq) : seq[i] \in S => i <= p

\* The objects that the elements in S refer to exist.
Exist(S, seq) == \A i \in 1..Len(seq) : seq[i] \in S => seq[i].content # NoObject

\* The results after each of the rounds over Env.
LEMMA EnvLoop ==
    ASSUME NEW envs \in Seq(EnvVar)
    PROVE  \E f \in [0..Len(envs) -> Results] :
              /\ f[0] = NotFound
              /\ \A i \in 1..Len(envs) : f[i] = LookAtEnvVar(f[i - 1], envs[i])
              /\ getDBModeFromEnv(envs) = f[Len(envs)]
<1> DEFINE n == Len(envs)
           step == [i \in 1..n |-> [r \in Results |-> LookAtEnvVar(r, envs[i])]]
<1>1. n \in Nat /\ \A i \in 1..n : envs[i] \in EnvVar
  OBVIOUS
<1>2. step \in [1..n -> [Results -> Results]]
  BY <1>1, EnvVarRound
<1>3. \A i \in 1..n, r \in Results : step[i][r] = LookAtEnvVar(r, envs[i])
  OBVIOUS
<1> DEFINE Loop(g) == g = [i \in 0..n |-> IF i = 0 THEN NotFound
                                          ELSE LookAtEnvVar(g[i - 1], envs[i])]
<1>4. NotFound \in Results
  BY LookupResults
<1>5. getDBModeFromEnv(envs) = (CHOOSE g : Loop(g))[n]
  BY DEF getDBModeFromEnv
<1> HIDE DEF step, n
<1>6. PICK f : AreResults(f, Results, n, NotFound, step)
  BY <1>1, <1>2, <1>4, LoopResults, Zenon
<1>7. \A i \in 1..n : f[i - 1] \in Results
  BY <1>1, <1>6 DEF AreResults
<1>8. Loop(f)
  BY <1>1, <1>3, <1>6, <1>7 DEF AreResults
<1> DEFINE g == CHOOSE g : Loop(g)
<1>9. Loop(g)
  BY <1>8, Zenon
<1> HIDE DEF g
<1>10. g[0] = NotFound /\ \A i \in 1..n : g[i] = LookAtEnvVar(g[i - 1], envs[i])
  BY <1>1, <1>9
<1> DEFINE S == {i \in 0..n : g[i] \in Results}
<1>11. 0..n \subseteq S
  <2>1. 0 \in S
    BY <1>1, <1>4, <1>10
  <2>2. ASSUME NEW i \in 1..n, i - 1 \in S
        PROVE  i \in S
    <3>1. g[i - 1] \in Results /\ envs[i] \in EnvVar
      BY <2>2, <1>1
    <3>2. LookAtEnvVar(g[i - 1], envs[i]) \in Results
      BY <3>1, EnvVarRound
    <3>3. g[i] = LookAtEnvVar(g[i - 1], envs[i])
      BY <1>10
    <3> QED
      BY <3>2, <3>3, <1>1
  <2> HIDE DEF S
  <2> QED
    BY <1>1, <2>1, <2>2, RoundsInduction
<1>12. g \in [0..n -> Results]
  BY <1>9, <1>11
<1> QED
  BY <1>5, <1>10, <1>12 DEF g, n

\* The results after each of the rounds over EnvFrom.
LEMMA SourceLoop ==
    ASSUME NEW sources \in Seq(EnvFromSource)
    PROVE  \E f \in [0..Len(sources) -> Results] :
              /\ f[0] = NotFound
              /\ \A i \in 1..Len(sources) : f[i] = LookAtSource(f[i - 1], sources[i])
              /\ getDBModeFromEnvFrom(sources) = f[Len(sources)]
<1> DEFINE n == Len(sources)
           step == [i \in 1..n |-> [r \in Results |-> LookAtSource(r, sources[i])]]
<1>1. n \in Nat /\ \A i \in 1..n : sources[i] \in EnvFromSource
  OBVIOUS
<1>2. step \in [1..n -> [Results -> Results]]
  BY <1>1, SourceRound
<1>3. \A i \in 1..n, r \in Results : step[i][r] = LookAtSource(r, sources[i])
  OBVIOUS
<1> DEFINE Loop(g) == g = [i \in 0..n |-> IF i = 0 THEN NotFound
                                          ELSE LookAtSource(g[i - 1], sources[i])]
<1>4. NotFound \in Results
  BY LookupResults
<1>5. getDBModeFromEnvFrom(sources) = (CHOOSE g : Loop(g))[n]
  BY DEF getDBModeFromEnvFrom
<1> HIDE DEF step, n
<1>6. PICK f : AreResults(f, Results, n, NotFound, step)
  BY <1>1, <1>2, <1>4, LoopResults, Zenon
<1>7. \A i \in 1..n : f[i - 1] \in Results
  BY <1>1, <1>6 DEF AreResults
<1>8. Loop(f)
  BY <1>1, <1>3, <1>6, <1>7 DEF AreResults
<1> DEFINE g == CHOOSE g : Loop(g)
<1>9. Loop(g)
  BY <1>8, Zenon
<1> HIDE DEF g
<1>10. g[0] = NotFound /\ \A i \in 1..n : g[i] = LookAtSource(g[i - 1], sources[i])
  BY <1>1, <1>9
<1> DEFINE S == {i \in 0..n : g[i] \in Results}
<1>11. 0..n \subseteq S
  <2>1. 0 \in S
    BY <1>1, <1>4, <1>10
  <2>2. ASSUME NEW i \in 1..n, i - 1 \in S
        PROVE  i \in S
    <3>1. g[i - 1] \in Results /\ sources[i] \in EnvFromSource
      BY <2>2, <1>1
    <3>2. LookAtSource(g[i - 1], sources[i]) \in Results
      BY <3>1, SourceRound
    <3>3. g[i] = LookAtSource(g[i - 1], sources[i])
      BY <1>10
    <3> QED
      BY <3>2, <3>3, <1>1
  <2> HIDE DEF S
  <2> QED
    BY <1>1, <2>1, <2>2, RoundsInduction
<1>12. g \in [0..n -> Results]
  BY <1>9, <1>11
<1> QED
  BY <1>5, <1>10, <1>12 DEF g, n

\* An entry of Env that sets the variable, whatever follows it of other names,
\* is what the lookup finds.
LEMMA LastNamedIsFound ==
    ASSUME NEW envs \in Seq(EnvVar), NEW p, IsLast(p, Named, envs), Exist(Named, envs)
    PROVE  Plain(envs[p]) /\ envs[p].content \notin {"", NoKey}
              => getDBModeFromEnv(envs) = Found(envs[p].content)
<1> DEFINE n == Len(envs)
           c == envs[p].content
<1>1. n \in Nat /\ \A i \in 1..n : envs[i] \in EnvVar /\ i \in Nat
  OBVIOUS
<1>2. \A i \in 1..n : envs[i] \in Named => envs[i].content # NoObject /\ i <= p
  BY DEF IsLast, Exist
<1>3. p \in 1..n /\ envs[p] \in Named
  BY DEF IsLast
<1>4. SUFFICES ASSUME Plain(envs[p]), c \notin {"", NoKey}
               PROVE  getDBModeFromEnv(envs) = Found(c)
  OBVIOUS
<1>5. PICK f \in [0..n -> Results] :
          /\ f[0] = NotFound
          /\ \A i \in 1..n : f[i] = LookAtEnvVar(f[i - 1], envs[i])
          /\ getDBModeFromEnv(envs) = f[n]
  BY EnvLoop
<1> HIDE DEF n
<1>6. ASSUME NEW i \in 1..n
      PROVE  /\ f[i - 1] \in Results /\ i - 1 \in 0..n /\ envs[i] \in EnvVar
             /\ (envs[i] \in Named => envs[i].content # NoObject /\ i <= p)
             /\ f[i] = LookAtEnvVar(f[i - 1], envs[i])
  BY <1>1, <1>5, <1>2
<1> DEFINE S == {i \in 0..n : ~f[i].err}
<1>7. 0..n \subseteq S
  <2>1. 0 \in S
    BY <1>1, <1>5, LookupResults
  <2>2. ASSUME NEW i \in 1..n, i - 1 \in S
        PROVE  i \in S
    <3>1. ~LookAtEnvVar(f[i - 1], envs[i]).err
      BY <2>2, <1>6, EnvVarRound
    <3> QED
      BY <3>1, <1>1, <1>6
  <2> HIDE DEF S
  <2> QED
    BY <1>1, <2>1, <2>2, RoundsInduction
<1>8. f[p] = Found(c)
  <2>1. ~f[p - 1].err
    BY <1>3, <1>6, <1>7
  <2> QED
    BY <1>4, <1>3, <1>6, <2>1, EnvVarRound
<1> DEFINE T == {i \in 0..n : p <= i => f[i] = Found(c)}
<1>9. 0..n \subseteq T
  <2>1. 0 \in T
    BY <1>1, <1>3
  <2>2. ASSUME NEW i \in 1..n, i - 1 \in T
        PROVE  i \in T
    <3>1. CASE i < p
      BY <3>1, <1>1, <1>3
    <3>2. CASE i = p
      BY <3>2, <1>1, <1>8
    <3>3. CASE i > p
      <4>1. envs[i] \notin Named
        BY <3>3, <1>1, <1>2, <1>3
      <4>2. LookAtEnvVar(f[i - 1], envs[i]) = f[i - 1]
        BY <4>1, <1>6, EnvVarRound
      <4>3. f[i - 1] = Found(c)
        BY <2>2, <3>3, <1>1, <1>3
      <4> QED
        BY <4>2, <4>3, <1>1, <1>6
    <3> QED
      BY <3>1, <3>2, <3>3, <1>1, <1>3
  <2> HIDE DEF T
  <2> QED
    BY <1>1, <2>1, <2>2, RoundsInduction
<1> QED
  BY <1>1, <1>5, <1>3, <1>9 DEF n

\* Without an entry that names the variable the lookup in Env finds nothing.
LEMMA NoneNamedNotFound ==
    ASSUME NEW envs \in Seq(EnvVar), \A i \in 1..Len(envs) : envs[i] \notin Named
    PROVE  getDBModeFromEnv(envs) = NotFound
<1> DEFINE n == Len(envs)
<1>1. n \in Nat /\ \A i \in 1..n : envs[i] \in EnvVar /\ envs[i] \notin Named
  OBVIOUS
<1>2. PICK f \in [0..n -> Results] :
          /\ f[0] = NotFound
          /\ \A i \in 1..n : f[i] = LookAtEnvVar(f[i - 1], envs[i])
          /\ getDBModeFromEnv(envs) = f[n]
  BY EnvLoop
<1> HIDE DEF n
<1> DEFINE S == {i \in 0..n : f[i] = NotFound}
<1>3. 0..n \subseteq S
  <2>1. 0 \in S
    BY <1>1, <1>2
  <2>2. ASSUME NEW i \in 1..n, i - 1 \in S
        PROVE  i \in S
    <3>1. f[i - 1] = NotFound /\ NotFound \in Results
      BY <2>2, LookupResults
    <3>2. LookAtEnvVar(f[i - 1], envs[i]) = NotFound
      BY <3>1, <1>1, EnvVarRound
    <3> QED
      BY <3>2, <1>1, <1>2
  <2> HIDE DEF S
  <2> QED
    BY <1>1, <2>1, <2>2, RoundsInduction
<1> QED
  BY <1>1, <1>2, <1>3 DEF n

\* A source of EnvFrom that holds the variable, whatever follows it without the
\* prefix, is what the lookup finds.
LEMMA LastPrefixedIsFound ==
    ASSUME NEW sources \in Seq(EnvFromSource), NEW p, IsLast(p, Prefixed, sources), Exist(Prefixed, sources)
    PROVE  Plain(sources[p]) /\ sources[p].content # NoKey
              => getDBModeFromEnvFrom(sources) = Found(sources[p].content)
<1> DEFINE n == Len(sources)
           c == sources[p].content
<1>1. n \in Nat /\ \A i \in 1..n : sources[i] \in EnvFromSource /\ i \in Nat
  OBVIOUS
<1>2. \A i \in 1..n : sources[i] \in Prefixed => sources[i].content # NoObject /\ i <= p
  BY DEF IsLast, Exist
<1>3. p \in 1..n /\ sources[p] \in Prefixed
  BY DEF IsLast
<1>4. SUFFICES ASSUME Plain(sources[p]), c # NoKey
               PROVE  getDBModeFromEnvFrom(sources) = Found(c)
  OBVIOUS
<1>5. PICK f \in [0..n -> Results] :
          /\ f[0] = NotFound
          /\ \A i \in 1..n : f[i] = LookAtSource(f[i - 1], sources[i])
          /\ getDBModeFromEnvFrom(sources) = f[n]
  BY SourceLoop
<1> HIDE DEF n
<1>6. ASSUME NEW i \in 1..n
      PROVE  /\ f[i - 1] \in Results /\ i - 1 \in 0..n /\ sources[i] \in EnvFromSource
             /\ (sources[i] \in Prefixed => sources[i].content # NoObject /\ i <= p)
             /\ f[i] = LookAtSource(f[i - 1], sources[i])
  BY <1>1, <1>5, <1>2
<1> DEFINE S == {i \in 0..n : ~f[i].err}
<1>7. 0..n \subseteq S
  <2>1. 0 \in S
    BY <1>1, <1>5, LookupResults
  <2>2. ASSUME NEW i \in 1..n, i - 1 \in S
        PROVE  i \in S
    <3>1. ~LookAtSource(f[i - 1], sources[i]).err
      BY <2>2, <1>6, SourceRound
    <3> QED
      BY <3>1, <1>1, <1>6
  <2> HIDE DEF S
  <2> QED
    BY <1>1, <2>1, <2>2, RoundsInduction
<1>8. f[p] = Found(c)
  <2>1. ~f[p - 1].err
    BY <1>3, <1>6, <1>7
  <2> QED
    BY <1>4, <1>3, <1>6, <2>1, SourceRound
<1> DEFINE T == {i \in 0..n : p <= i => f[i] = Found(c)}
<1>9. 0..n \subseteq T
  <2>1. 0 \in T
    BY <1>1, <1>3
  <2>2. ASSUME NEW i \in 1..n, i - 1 \in T
        PROVE  i \in T
    <3>1. CASE i < p
      BY <3>1, <1>1, <1>3
    <3>2. CASE i = p
      BY <3>2, <1>1, <1>8
    <3>3. CASE i > p
      <4>1. sources[i] \notin Prefixed
        BY <3>3, <1>1, <1>2, <1>3
      <4>2. LookAtSource(f[i - 1], sources[i]) = f[i - 1]
        BY <4>1, <1>6, SourceRound
      <4>3. f[i - 1] = Found(c)
        BY <2>2, <3>3, <1>1, <1>3
      <4> QED
        BY <4>2, <4>3, <1>1, <1>6
    <3> QED
      BY <3>1, <3>2, <3>3, <1>1, <1>3
  <2> HIDE DEF T
  <2> QED
    BY <1>1, <2>1, <2>2, RoundsInduction
<1> QED
  BY <1>1, <1>5, <1>3, <1>9 DEF n

-----------------------------------------------------------------------------
(* The last element of a kind *)

\* A sequence with elements in S has a last one.
LEMMA HasLast ==
    ASSUME NEW X, NEW seq \in Seq(X), NEW S, ToSet(seq) \cap S # {}
    PROVE  \E p : IsLast(p, S, seq)
<1> DEFINE P == {i \in 1..Len(seq) : seq[i] \in S}
<1>1. Len(seq) \in Nat /\ DOMAIN seq = 1..Len(seq)
  OBVIOUS
<1>2. P \in SUBSET (1..Len(seq)) /\ P # {}
  BY <1>1 DEF ToSet
<1>3. PICK p \in P : \A i \in P : i <= p
  <2> HIDE DEF P
  <2> QED
    BY <1>1, <1>2, GreatestElement
<1> QED
  BY <1>3 DEF IsLast

\* LastIn returns it.
LEMMA LastInIsLast ==
    ASSUME NEW X, NEW seq \in Seq(X), NEW S, NEW p, IsLast(p, S, seq)
    PROVE  LastIn(S, seq) = seq[p] /\ seq[p] \in ToSet(seq) \cap S
<1> DEFINE P == {i \in DOMAIN seq : seq[i] \in S}
           q == CHOOSE i \in P : \A j \in P : j <= i
<1>1. DOMAIN seq = 1..Len(seq) /\ Len(seq) \in Nat
  OBVIOUS
<1>2. p \in P /\ \A j \in P : j <= p
  BY <1>1 DEF IsLast
<1>3. \A i \in P : i \in Nat
  BY <1>1
<1>4. LastIn(S, seq) = seq[q]
  BY DEF LastIn
<1>5. seq[p] \in ToSet(seq) \cap S
  BY <1>1, <1>2 DEF ToSet
<1> HIDE DEF P
<1>6. q \in P /\ \A j \in P : j <= q
  BY <1>2
<1> HIDE DEF q
<1>7. q = p
  <2>1. p <= q /\ q <= p /\ p \in Nat /\ q \in Nat
    BY <1>2, <1>3, <1>6
  <2> QED
    BY <2>1
<1> QED
  BY <1>4, <1>5, <1>7

\* The last element of a kind is also the last of any part of the kind it is in.
LEMMA LastOfPart ==
    ASSUME NEW seq, NEW S, NEW T \in SUBSET S, NEW p, IsLast(p, S, seq), seq[p] \in T
    PROVE  IsLast(p, T, seq)
BY DEF IsLast

-----------------------------------------------------------------------------
(* The verdict *)

\* The environment is a list of entries, and the verdict, once there, is that
\* of ValidateDeployOptions on it.
VerdictInv ==
    /\ env \in Seq(EnvVar)
    /\ envFrom \in Seq(EnvFromSource)
    /\ Validated => verdict = ValidateDeployOptions(env, envFrom)

LEMMA VerdictInvariant == Spec => []VerdictInv
<1>1. Init => VerdictInv
  BY DEF Init, VerdictInv, Validated
<1>2. VerdictInv /\ [Next]_vars => VerdictInv'
  <2> SUFFICES ASSUME VerdictInv, [Next]_vars
               PROVE  VerdictInv'
    OBVIOUS
  <2>1. CASE AddEnvVar
    <3>1. PICK e \in EnvVar : env' = Append(env, e)
      BY <2>1, ConstantsAssumption DEF AddEnvVar
    <3>2. env' \in Seq(EnvVar) /\ envFrom' = envFrom /\ verdict' = "none"
      BY <2>1, <3>1 DEF AddEnvVar, VerdictInv
    <3> QED
      BY <3>2 DEF VerdictInv, Validated
  <2>2. CASE AddSource
    <3>1. PICK s \in EnvFromSource : envFrom' = Append(envFrom, s)
      BY <2>2, ConstantsAssumption DEF AddSource
    <3>2. envFrom' \in Seq(EnvFromSource) /\ env' = env /\ verdict' = "none"
      BY <2>2, <3>1 DEF AddSource, VerdictInv
    <3> QED
      BY <3>2 DEF VerdictInv, Validated
  <2>3. CASE Validate
    <3>1. /\ env' = env /\ envFrom' = envFrom
          /\ verdict' = ValidateDeployOptions(env, envFrom)
      BY <2>3 DEF Validate
    <3> QED
      BY <3>1 DEF VerdictInv, Validated
  <2>4. CASE UNCHANGED vars
    BY <2>4 DEF vars, VerdictInv, Validated
  <2> QED
    BY <2>1, <2>2, <2>3, <2>4 DEF Next
<1> QED
  BY <1>1, <1>2, PTL DEF Spec

\* What the lookup finds is accepted when it is no database.
LEMMA FoundDecides ==
    ASSUME NEW envs, NEW sources, NEW c,
           \/ getDBModeFromEnv(envs) = Found(c)
           \/ getDBModeFromEnv(envs) = NotFound /\ getDBModeFromEnvFrom(sources) = Found(c)
    PROVE  (ValidateDeployOptions(envs, sources) = "valid") <=> (c \in {"", "off"})
<1> DEFINE fromEnv == getDBModeFromEnv(envs)
           result == IF fromEnv.err \/ fromEnv.found
                     THEN fromEnv
                     ELSE getDBModeFromEnvFrom(sources)
<1>1. /\ Found(c).found /\ ~Found(c).err /\ Found(c).mode = c
      /\ ~NotFound.found /\ ~NotFound.err
  BY DEF Found, NotFound
<1>2. result = Found(c)
  BY <1>1
<1>3. ValidateDeployOptions(envs, sources)
         = IF result.err \/ result.mode \notin {"", "off"} THEN "invalid" ELSE "valid"
  BY DEF ValidateDeployOptions
<1> HIDE DEF result
<1>4. ~result.err /\ result.mode = c
  BY <1>1, <1>2
<1> QED
  BY <1>3, <1>4

\* If the last KONG_DATABASE in Env is a plain one that has a value, it decides the
\* verdict of ValidateDeployOptions, in environments of any length: neither what
\* precedes it nor what EnvFrom holds can change it.
THEOREM EnvDecides == Spec => []LastEnvVarDecides
<1>1. VerdictInv => LastEnvVarDecides
  <2>0. SUFFICES ASSUME VerdictInv, Validated, ObjectsExist, ToSet(env) \cap Named # {},
                        Plain(LastIn(Named, env)),
                        LastIn(Named, env).content \notin {"", NoKey}
                 PROVE  (verdict = "valid") <=> DBless(env, envFrom)
    BY DEF LastEnvVarDecides
  <2>1. env \in Seq(EnvVar) /\ verdict = ValidateDeployOptions(env, envFrom)
    BY <2>0 DEF VerdictInv
  <2>2. PICK p : IsLast(p, Named, env)
    BY <2>0, <2>1, HasLast, Zenon
  <2> DEFINE c == env[p].content
  <2>3. LastIn(Named, env) = env[p] /\ env[p] \in ToSet(env) \cap Named
    BY <2>1, <2>2, LastInIsLast, Zenon
  <2>4. Exist(Named, env)
    <3>1. \A i \in 1..Len(env) : env[i] \in ToSet(env)
      BY <2>1 DEF ToSet
    <3> QED
      BY <2>0, <3>1 DEF ObjectsExist, Exist
  <2>5. Plain(env[p]) /\ c \notin {"", NoKey}
    BY <2>0, <2>3
  <2>6. getDBModeFromEnv(env) = Found(c)
    BY <2>1, <2>2, <2>4, <2>5, LastNamedIsFound, Zenon
  <2>7. (verdict = "valid") <=> (c \in {"", "off"})
    BY <2>1, <2>6, FoundDecides, Zenon
  <2>8. env[p] \in SettingVars
    BY <2>0, <2>3, <2>5 DEF ObjectsExist, Named, SettingVars, EnvVar, Contents
  <2>9. LastIn(SettingVars, env) = env[p] /\ ToSet(env) \cap SettingVars # {}
    <3>1. SettingVars \in SUBSET Named
      BY DEF SettingVars, Named
    <3>2. IsLast(p, SettingVars, env)
      BY <2>2, <2>8, <3>1, LastOfPart
    <3> QED
      BY <2>1, <2>3, <2>8, <3>2, LastInIsLast, Zenon
  <2>10. ContainerValue(env, envFrom) = c
    BY <2>9 DEF ContainerValue
  <2> QED
    BY <2>7, <2>10 DEF DBless
<1> QED
  BY <1>1, VerdictInvariant, PTL

\* Without KONG_DATABASE in Env, the last source of EnvFrom that could hold it
\* decides, in lists of sources of any length, if it is a ConfigMap that holds it.
THEOREM SourceDecides == Spec => []LastSourceDecides
<1>1. VerdictInv => LastSourceDecides
  <2>0. SUFFICES ASSUME VerdictInv, Validated, ObjectsExist, ToSet(env) \cap Named = {},
                        ToSet(envFrom) \cap Prefixed # {},
                        Plain(LastIn(Prefixed, envFrom)),
                        LastIn(Prefixed, envFrom).content # NoKey
                 PROVE  (verdict = "valid") <=> DBless(env, envFrom)
    BY DEF LastSourceDecides
  <2>1. /\ env \in Seq(EnvVar) /\ envFrom \in Seq(EnvFromSource)
        /\ verdict = ValidateDeployOptions(env, envFrom)
    BY <2>0 DEF VerdictInv
  <2>2. PICK p : IsLast(p, Prefixed, envFrom)
    BY <2>0, <2>1, HasLast, Zenon
  <2> DEFINE c == envFrom[p].content
  <2>3. LastIn(Prefixed, envFrom) = envFrom[p] /\ envFrom[p] \in ToSet(envFrom) \cap Prefixed
    BY <2>1, <2>2, LastInIsLast, Zenon
  <2>4. Exist(Prefixed, envFrom)
    <3>1. \A i \in 1..Len(envFrom) : envFrom[i] \in ToSet(envFrom)
      BY <2>1 DEF ToSet
    <3> QED
      BY <2>0, <3>1 DEF ObjectsExist, Exist
  <2>5. Plain(envFrom[p]) /\ c # NoKey
    BY <2>0, <2>3
  <2>6. getDBModeFromEnvFrom(envFrom) = Found(c)
    BY <2>1, <2>2, <2>4, <2>5, LastPrefixedIsFound, Zenon
  <2>7. getDBModeFromEnv(env) = NotFound
    <3>1. \A i \in 1..Len(env) : env[i] \notin Named
      BY <2>0, <2>1 DEF ToSet
    <3> QED
      BY <2>1, <3>1, NoneNamedNotFound, Zenon
  <2>8. (verdict = "valid") <=> (c \in {"", "off"})
    BY <2>1, <2>6, <2>7, FoundDecides, Zenon
  <2>9. envFrom[p] \in SettingSources
    BY <2>0, <2>3, <2>5 DEF ObjectsExist, Prefixed, SettingSources, EnvFromSource, Contents
  <2>10. /\ LastIn(SettingSources, envFrom) = envFrom[p]
         /\ ToSet(envFrom) \cap SettingSources # {}
    <3>1. SettingSources \in SUBSET Prefixed
      BY DEF SettingSources, Prefixed
    <3>2. IsLast(p, SettingSources, envFrom)
      BY <2>2, <2>9, <3>1, LastOfPart
    <3> QED
      BY <2>1, <2>3, <2>9, <3>2, LastInIsLast, Zenon
  <2>11. ToSet(env) \cap SettingVars = {}
    BY <2>0 DEF SettingVars, Named
  <2>12. ContainerValue(env, envFrom) = c
    BY <2>10, <2>11 DEF ContainerValue
  <2> QED
    BY <2>8, <2>12 DEF DBless
<1> QED
  BY <1>1, VerdictInvariant, PTL

=============================================================================
